-------------------------- MODULE NetChannel_proofs --------------------------
(***************************************************************************)
(* Proofs about NetChannel.  The inductive invariant IInv says, for each   *)
(* party, where it is in both streams: pos and cnt give the offset and the *)
(* data byte at which every call of the protocol begins, and each end of   *)
(* each stream is at the offset of its own call, up to the rounding that a *)
(* receiver puts off until it sends.                                       *)
(***************************************************************************)
EXTENDS NetChannel, SequenceTheorems, TLAPS

(* All p has sent: the bytes given to fwrite and those still gathered. *)
Stream(p) == out[p] \o sbuf[p]

(* p waits for bytes in call item[p]; as a sender it is past that call. *)
Receiving(p) == pc[p] \in {"turn", "fread"}
Past(p) == IF Receiving(p) THEN item[p] + 1 ELSE item[p]

Layout ==
  /\ \A q \in Party : /\ Len(pos[q]) = Len(script) + 1
                      /\ Len(cnt[q]) = Len(script) + 1
  /\ \A q \in Party, j \in 1..Len(script) :
       /\ pos[q][j + 1] = IF script[j].from = q THEN pos[q][j] + script[j].len
                                                ELSE Round(pos[q][j])
       /\ cnt[q][j + 1] = IF script[j].from = q THEN cnt[q][j] + script[j].len
                                                ELSE cnt[q][j]

Monotone == \A q \in Party, i, j \in 1..Len(script) + 1 :
  i <= j => /\ pos[q][i] <= pos[q][j]
            /\ cnt[q][i] <= cnt[q][j]
            /\ pos[q][i] + cnt[q][j] <= pos[q][j] + cnt[q][i]

CloseIsLast == \A j \in 1..Len(script) : script[j] = Close => j = Len(script)

AtItem(p) ==
  /\ item[p] <= Len(script) + 1
  /\ Receiving(p) => /\ item[p] <= Len(script)
                     /\ script[item[p]] \in Xfer
                     /\ script[item[p]].from = Peer(p)
  /\ pc[p] \in {"fclose", "closed"} => /\ item[p] = Len(script) + 1
                                       /\ Len(script) > 0
                                       /\ script[Len(script)] = Close
                                       /\ fsm[p] = 0
  /\ pc[p] \in {"fwrite", "turn"} => fsm[p] = 2

Sender(p) ==
  /\ Len(Stream(p)) = pos[p][Past(p)]
  /\ nsent[p] = cnt[p][Past(p)]
  /\ (fsm[p] # 2 \/ Receiving(p)) => sbuf[p] = <<>> /\ Len(out[p]) % B = 0
  /\ pushed[p] <= Len(out[p])
  /\ (alive[p] /\ (pc[p] \in {"fread", "closed"} \/ (pc[p] = "run" /\ fsm[p] # 2)))
       => pushed[p] = Len(out[p])

Content(p) == \A j \in 1..Len(script) :
  /\ script[j].from = p => \A i \in 1..script[j].len :
       pos[p][j] + i <= Len(Stream(p)) => Stream(p)[pos[p][j] + i] = cnt[p][j] + i
  /\ script[j].from # p => \A i \in pos[p][j] + 1 .. pos[p][j + 1] :
       i <= Len(Stream(p)) => Stream(p)[i] = Junk

(* The block p has in rbuf is a copy of its peer's stream. *)
Copied(p) == \A i \in 1..Len(rbuf[p]) :
  rbuf[p][i] = Stream(Peer(p))[taken[p] - Len(rbuf[p]) + i]

Filling(p) ==
  /\ Len(rbuf[p]) < B
  /\ Len(rbuf[p]) <= taken[p]
  /\ (taken[p] - Len(rbuf[p])) % B = 0
  /\ want[p] > 0
  /\ want[p] <= script[item[p]].len
  /\ taken[p] - Len(rbuf[p]) + want[p] = pos[Peer(p)][item[p] + 1]
  /\ Len(rcvd[p]) + want[p] = cnt[Peer(p)][item[p] + 1]
  /\ Copied(p)

Filled(p) ==
  /\ Len(rbuf[p]) = B
  /\ taken[p] % B = 0
  /\ rptr[p] > 0
  /\ taken[p] - B + rptr[p] = pos[Peer(p)][item[p]]
  /\ Len(rcvd[p]) = cnt[Peer(p)][item[p]]
  /\ rptr[p] < B => B <= taken[p] /\ fsm[p] = 1 /\ Copied(p)

Receiver(p) ==
  /\ taken[p] <= pushed[Peer(p)]
  /\ pc[p] = "fread" => Filling(p)
  /\ pc[p] # "fread" => Filled(p)
  /\ pc[p] = "turn" => want[p] = script[item[p]].len

Delivered(p) == \A i \in 1..Len(rcvd[p]) : rcvd[p][i] = i

PartyInv(p) == AtItem(p) /\ Sender(p) /\ Content(p) /\ Receiver(p) /\ Delivered(p)

IInv == /\ TypeOK
        /\ Layout
        /\ Monotone
        /\ CloseIsLast
        /\ \A p \in Party : PartyInv(p)

-----------------------------------------------------------------------------
(* Arithmetic of blocks *)

LEMMA DivMod == ASSUME NEW c \in Int
  PROVE  /\ c % B \in 0..(B-1)
         /\ c \div B \in Int
         /\ c = (c \div B) * B + (c % B)
  BY ChannelAssumption

LEMMA ModUnique == ASSUME NEW r \in 0..(B-1), NEW q \in Int
  PROVE  (q * B + r) % B = r
  BY ChannelAssumption

(* Padding ends on a block, and stays below one block. *)
LEMMA RoundFacts == ASSUME NEW c \in Nat
  PROVE  /\ Round(c) \in Nat
         /\ PadLen(c) \in Nat
         /\ c <= Round(c)
         /\ Round(c) < c + B
         /\ Round(c) % B = 0
<1>1. c % B \in 0..(B-1)
  BY DivMod
<1>2. PICK q \in Int : c = q * B + (c % B)
  BY DivMod
<1>3. CASE c % B = 0
  BY <1>3, ChannelAssumption DEF Round, PadLen
<1>4. CASE c % B # 0
  <2>1. Round(c) = c + (B - (c % B))
    BY <1>4, ChannelAssumption DEF Round, PadLen
  <2>2. Round(c) = (q+1)*B + 0
    BY <2>1, <1>2, <1>1, ChannelAssumption
  <2>3. Round(c) % B = 0
    BY <2>2, ModUnique, ChannelAssumption
  <2> QED
    BY <2>1, <2>3, <1>1, <1>4, ChannelAssumption DEF PadLen
<1> QED
  BY <1>3, <1>4

LEMMA WholeAdd == ASSUME NEW c \in Nat, c % B = 0
  PROVE  /\ (c + B) % B = 0
         /\ Round(c) = c
<1>1. PICK q \in Int : c = q * B + (c % B)
  BY DivMod
<1>2. c + B = (q+1)*B + 0
  BY <1>1, ChannelAssumption
<1>3. (c + B) % B = 0
  BY <1>2, ModUnique, ChannelAssumption
<1> QED
  BY <1>3, ChannelAssumption DEF Round, PadLen

(* Whole numbers of blocks less than a block apart are equal. *)
LEMMA WholeClose ==
  ASSUME NEW d \in Nat, NEW e \in Nat, d % B = 0, e % B = 0, d < e + B, e < d + B
  PROVE  d = e
<1>1. PICK q \in Int : d = q * B + (d % B)
  BY DivMod
<1>2. PICK k \in Int : e = k * B + (e % B)
  BY DivMod
<1>3. /\ (q - k) * B < B
      /\ (k - q) * B < B
  BY <1>1, <1>2, ChannelAssumption
<1>4. q - k < 1 /\ k - q < 1
  BY <1>3, ChannelAssumption
<1> QED
  BY <1>1, <1>2, <1>4

LEMMA RoundUnique ==
  ASSUME NEW c \in Nat, NEW d \in Nat, d % B = 0, c <= d, d < c + B
  PROVE  d = Round(c)
<1>1. /\ Round(c) \in Nat
      /\ Round(c) % B = 0
      /\ d < Round(c) + B
      /\ Round(c) < d + B
  BY RoundFacts, ChannelAssumption
<1> QED
  BY <1>1, WholeClose

LEMMA PeerFacts == ASSUME NEW p \in Party
  PROVE  /\ Peer(p) \in Party
         /\ Peer(p) # p
         /\ Peer(Peer(p)) = p
         /\ \A q \in Party : q = p \/ q = Peer(p)
         /\ p # "NONE"
  BY DEF Party, Peer

-----------------------------------------------------------------------------
(* The protocol only grows, and its layout with it. *)

Grows ==
  /\ Len(script) <= Len(script')
  /\ Len(script) < Len(script') => \A k \in 1..Len(script) : script[k] # Close
  /\ \A j \in 1..Len(script) : script'[j] = script[j]
  /\ \A q \in Party, i \in 1..Len(script) + 1 : /\ pos'[q][i] = pos[q][i]
                                                /\ cnt'[q][i] = cnt[q][i]

ProtocolTyped == /\ script \in Seq(Item)
                 /\ pos \in [Party -> Seq(Nat)]
                 /\ cnt \in [Party -> Seq(Nat)]

LEMMA ItemFacts == ASSUME NEW it \in Item
  PROVE  /\ it.len \in Nat
         /\ it.from = "NONE" <=> it \notin Xfer
         /\ it \in Xfer => it.from \in Party
         /\ it \in Xfer => it # Close
<1>1. CASE it \in Xfer
  <2>1. it.len \in Nat /\ it.from \in Party /\ it.op = "xfer"
    BY <1>1, ChannelAssumption DEF Xfer
  <2>2. it.from # "NONE"
    BY <2>1 DEF Party
  <2>3. it # Close
    BY <2>1 DEF Close
  <2> QED
    BY <1>1, <2>1, <2>2, <2>3
<1>2. CASE it \in {Sync, Close}
  <2>1. it.len = 0 /\ it.from = "NONE"
    BY <1>2 DEF Sync, Close
  <2>2. it \notin Xfer
    BY <2>1 DEF Xfer, Party
  <2> QED
    BY <2>1, <2>2
<1> QED
  BY <1>1, <1>2 DEF Item

AppendOf(s, e, t) == /\ t \in Seq(Nat)
                     /\ Len(t) = Len(s) + 1
                     /\ t[Len(s) + 1] = e
                     /\ \A i \in 1..Len(s) : t[i] = s[i]

LEMMA AppendFacts == ASSUME NEW s \in Seq(Nat), NEW e \in Nat
  PROVE  AppendOf(s, e, Append(s, e))
  BY DEF AppendOf

LEMMA SumBound ==
  ASSUME NEW a \in Nat, NEW b \in Nat, NEW c \in Nat, NEW d \in Nat, NEW e \in Nat,
         NEW f \in Nat, a + b <= c + d, c + e <= f + b
  PROVE  a + e <= f + d
  OBVIOUS

LEMMA DecideGrows ==
  ASSUME ProtocolTyped, Layout, Monotone, CloseIsLast, NEW it \in Item, Decide(it)
  PROVE  /\ ProtocolTyped' /\ Layout' /\ Monotone' /\ CloseIsLast' /\ Grows
         /\ Len(script') = Len(script) + 1
         /\ script'[Len(script) + 1] = it
<1> USE DEF ProtocolTyped
<1> DEFINE n == Len(script)
<1>1. /\ n \in Nat
      /\ script' = Append(script, it)
      /\ Len(script') = n + 1
      /\ script'[n + 1] = it
      /\ \A j \in 1..n : script'[j] = script[j]
      /\ \A j \in 1..n : script[j] # Close
      /\ script' \in Seq(Item)
  BY DEF Decide
<1>2. ASSUME NEW q \in Party
      PROVE  /\ Len(pos[q]) = n + 1 /\ pos[q] \in Seq(Nat) /\ pos[q][n + 1] \in Nat
             /\ Len(cnt[q]) = n + 1 /\ cnt[q] \in Seq(Nat) /\ cnt[q][n + 1] \in Nat
  BY <1>1, <1>2 DEF Layout
<1>3. it.len \in Nat
  BY ItemFacts
<1>4. ASSUME NEW q \in Party
      PROVE  /\ Offset(q, it) \in Nat
             /\ pos[q][n + 1] <= Offset(q, it)
             /\ Count(q, it) \in Nat
             /\ cnt[q][n + 1] <= Count(q, it)
             /\ pos[q][n + 1] + Count(q, it) <= Offset(q, it) + cnt[q][n + 1]
             /\ Offset(q, it) = IF it.from = q THEN pos[q][n + 1] + it.len ELSE Round(pos[q][n + 1])
             /\ Count(q, it) = IF it.from = q THEN cnt[q][n + 1] + it.len ELSE cnt[q][n + 1]
  <2>1. Offset(q, it) = IF it.from = q THEN pos[q][n + 1] + it.len ELSE Round(pos[q][n + 1])
    BY <1>2 DEF Offset
  <2>2. Count(q, it) = IF it.from = q THEN cnt[q][n + 1] + it.len ELSE cnt[q][n + 1]
    BY <1>2 DEF Count
  <2>3. /\ Round(pos[q][n + 1]) \in Nat
        /\ pos[q][n + 1] <= Round(pos[q][n + 1])
    BY <1>2, RoundFacts
  <2> QED
    BY <2>1, <2>2, <2>3, <1>2, <1>3, SMTT(20)
<1>5. ASSUME NEW q \in Party
      PROVE  /\ pos'[q] = Append(pos[q], Offset(q, it))
             /\ cnt'[q] = Append(cnt[q], Count(q, it))
  BY <1>5 DEF Decide
<1>6. ASSUME NEW q \in Party
      PROVE  /\ pos'[q] \in Seq(Nat) /\ Len(pos'[q]) = n + 2
             /\ cnt'[q] \in Seq(Nat) /\ Len(cnt'[q]) = n + 2
             /\ pos'[q][n + 2] = Offset(q, it)
             /\ cnt'[q][n + 2] = Count(q, it)
             /\ \A i \in 1..n + 1 : pos'[q][i] = pos[q][i] /\ cnt'[q][i] = cnt[q][i]
  <2>1. /\ pos[q] \in Seq(Nat) /\ Len(pos[q]) = n + 1 /\ Offset(q, it) \in Nat
        /\ pos'[q] = Append(pos[q], Offset(q, it))
    BY <1>2, <1>4, <1>5
  <2>2. /\ cnt[q] \in Seq(Nat) /\ Len(cnt[q]) = n + 1 /\ Count(q, it) \in Nat
        /\ cnt'[q] = Append(cnt[q], Count(q, it))
    BY <1>2, <1>4, <1>5
  <2>3. n \in Nat
    BY <1>1
  <2> HIDE DEF n
  <2>4. AppendOf(pos[q], Offset(q, it), pos'[q])
    BY <2>1, AppendFacts
  <2>5. AppendOf(cnt[q], Count(q, it), cnt'[q])
    BY <2>2, AppendFacts
  <2> QED
    BY <2>1, <2>2, <2>3, <2>4, <2>5 DEF AppendOf
<1>7. ProtocolTyped'
  <2>1. pos' \in [Party -> Seq(Nat)]
    BY <1>6 DEF Decide
  <2>2. cnt' \in [Party -> Seq(Nat)]
    BY <1>6 DEF Decide
  <2> QED
    BY <1>1, <2>1, <2>2
<1>8. Layout'
  <2>1. ASSUME NEW q \in Party, NEW j \in 1..n + 1
        PROVE  /\ pos'[q][j + 1] = IF script'[j].from = q THEN pos'[q][j] + script'[j].len
                                                          ELSE Round(pos'[q][j])
               /\ cnt'[q][j + 1] = IF script'[j].from = q THEN cnt'[q][j] + script'[j].len
                                                          ELSE cnt'[q][j]
    <3>0. /\ Offset(q, it) = IF it.from = q THEN pos[q][n + 1] + it.len ELSE Round(pos[q][n + 1])
          /\ Count(q, it) = IF it.from = q THEN cnt[q][n + 1] + it.len ELSE cnt[q][n + 1]
          /\ pos'[q][n + 2] = Offset(q, it)
          /\ cnt'[q][n + 2] = Count(q, it)
          /\ \A i \in 1..n + 1 : pos'[q][i] = pos[q][i] /\ cnt'[q][i] = cnt[q][i]
          /\ n \in Nat
      BY <1>1, <1>4, <1>6
    <3> HIDE DEF n
    <3>1. CASE j = n + 1
      <4>1. j + 1 = n + 2 /\ j \in 1..n + 1
        BY <3>0, <3>1
      <4>2. pos'[q][j] = pos[q][n + 1] /\ cnt'[q][j] = cnt[q][n + 1] /\ script'[j] = it
        BY <3>0, <3>1, <4>1, <1>1
      <4> QED
        BY <3>0, <4>1, <4>2
    <3>2. CASE j \in 1..n
      <4>1. j + 1 \in 1..n + 1 /\ j \in 1..n + 1
        BY <3>0, <3>2, SMTT(20)
      <4>2. script'[j] = script[j]
        BY <3>2, <1>1
      <4>3. /\ pos[q][j + 1] = IF script[j].from = q THEN pos[q][j] + script[j].len ELSE Round(pos[q][j])
            /\ cnt[q][j + 1] = IF script[j].from = q THEN cnt[q][j] + script[j].len ELSE cnt[q][j]
        BY <3>2 DEF Layout, n
      <4> QED
        BY <3>0, <4>1, <4>2, <4>3
    <3> QED
      BY <1>1, <3>1, <3>2
  <2> QED
    <3>1. \A q \in Party : Len(pos'[q]) = Len(script') + 1 /\ Len(cnt'[q]) = Len(script') + 1
      BY <1>1, <1>6
    <3>2. Len(script') = n + 1
      BY <1>1
    <3>3. 1..Len(script') = 1..n + 1
      BY <3>2
    <3>4. \A q \in Party, j \in 1..Len(script') :
            /\ pos'[q][j + 1] = IF script'[j].from = q THEN pos'[q][j] + script'[j].len
                                                       ELSE Round(pos'[q][j])
            /\ cnt'[q][j + 1] = IF script'[j].from = q THEN cnt'[q][j] + script'[j].len
                                                       ELSE cnt'[q][j]
      BY ONLY <2>1, <3>3, ZenonT(20)
    <3> QED
      BY ONLY <3>1, <3>4, SMTT(20) DEF Layout, Round, PadLen
<1>9. Monotone'
  <2> SUFFICES ASSUME NEW q \in Party, NEW i \in 1..n + 2, NEW j \in 1..n + 2, i <= j
               PROVE  /\ pos'[q][i] <= pos'[q][j] /\ cnt'[q][i] <= cnt'[q][j]
                      /\ pos'[q][i] + cnt'[q][j] <= pos'[q][j] + cnt'[q][i]
    BY <1>1 DEF Monotone
  <2>0. \A h \in 1..n + 1 : pos'[q][h] = pos[q][h] /\ cnt'[q][h] = cnt[q][h]
    BY <1>6
  <2>1. CASE j \in 1..n + 1
    <3>1. i \in 1..n + 1
      BY <2>1, <1>1
    <3>2. /\ pos[q][i] <= pos[q][j] /\ cnt[q][i] <= cnt[q][j]
          /\ pos[q][i] + cnt[q][j] <= pos[q][j] + cnt[q][i]
      BY <2>1, <3>1 DEF Monotone
    <3> QED
      BY <2>0, <2>1, <3>1, <3>2
  <2>2. CASE j = n + 2 /\ i = n + 2
    BY <1>4, <1>6, <2>2, SMTT(20)
  <2>3. CASE j = n + 2 /\ i \in 1..n + 1
    <3>1. /\ pos[q][i] <= pos[q][n + 1] /\ cnt[q][i] <= cnt[q][n + 1]
          /\ pos[q][i] + cnt[q][n + 1] <= pos[q][n + 1] + cnt[q][i]
      BY <1>1, <2>3 DEF Monotone
    <3>2. pos[q][i] \in Nat /\ cnt[q][i] \in Nat
      BY <1>2, <2>3, <1>1
    <3> QED
      <4>1. /\ pos[q][n + 1] \in Nat /\ cnt[q][n + 1] \in Nat
            /\ Offset(q, it) \in Nat /\ Count(q, it) \in Nat
            /\ pos[q][n + 1] <= Offset(q, it)
            /\ cnt[q][n + 1] <= Count(q, it)
            /\ pos[q][n + 1] + Count(q, it) <= Offset(q, it) + cnt[q][n + 1]
        BY <1>2, <1>4
      <4>2. /\ pos'[q][i] = pos[q][i] /\ cnt'[q][i] = cnt[q][i]
            /\ pos'[q][j] = Offset(q, it) /\ cnt'[q][j] = Count(q, it)
        BY <1>6, <2>0, <2>3
      <4>3. pos[q][i] <= Offset(q, it)
        BY ONLY <4>1, <3>1, <3>2, SMTT(20)
      <4>4. cnt[q][i] <= Count(q, it)
        BY ONLY <4>1, <3>1, <3>2
      <4>5. pos[q][i] + Count(q, it) <= Offset(q, it) + cnt[q][i]
        <5>1. PICK a \in Nat : a = pos[q][i]
          BY <3>2
        <5>2. PICK d \in Nat : d = cnt[q][i]
          BY <3>2
        <5>3. PICK c \in Nat : c = pos[q][n + 1]
          BY <4>1
        <5>4. PICK b \in Nat : b = cnt[q][n + 1]
          BY <4>1
        <5>5. PICK f \in Nat : f = Offset(q, it)
          BY <4>1
        <5>6. PICK e \in Nat : e = Count(q, it)
          BY <4>1
        <5>7. a + b <= c + d /\ c + e <= f + b
          BY <3>1, <4>1, <5>1, <5>2, <5>3, <5>4, <5>5, <5>6
        <5>8. a + e <= f + d
          BY <5>7, SumBound
        <5> QED
          BY <5>1, <5>2, <5>5, <5>6, <5>8
      <4> QED
        BY ONLY <4>2, <4>3, <4>4, <4>5
  <2> QED
    BY <1>1, <2>1, <2>2, <2>3
<1>10. CloseIsLast'
  BY <1>1 DEF CloseIsLast
<1>11. Grows
  BY <1>1, <1>6 DEF Grows
<1> QED
  BY <1>1, <1>7, <1>8, <1>9, <1>10, <1>11

ProtocolInv == ProtocolTyped /\ Layout /\ Monotone /\ CloseIsLast

LEMMA StandsStill ==
  ASSUME ProtocolInv, UNCHANGED protocol
  PROVE  ProtocolInv' /\ Grows
<1> USE DEF protocol
<1>1. script' = script /\ pos' = pos /\ cnt' = cnt
  OBVIOUS
<1>2. ProtocolTyped' /\ Layout' /\ Monotone' /\ CloseIsLast'
  <2>1. ProtocolTyped' /\ CloseIsLast'
    BY <1>1 DEF ProtocolInv, ProtocolTyped, CloseIsLast
  <2>2. Layout'
    BY <1>1 DEF ProtocolInv, Layout, Round, PadLen
  <2>3. Monotone'
    BY ONLY <1>1, ProtocolInv DEF ProtocolInv, Monotone
  <2> QED
    BY <2>1, <2>2, <2>3
<1>3. Grows
  BY <1>1 DEF Grows, ProtocolInv, ProtocolTyped
<1> QED
  BY <1>2, <1>3 DEF ProtocolInv

LEMMA InvProtocol == ASSUME IInv PROVE ProtocolInv
  BY DEF IInv, TypeOK, ProtocolInv, ProtocolTyped

(* A call leaves a protocol in which it is the call its party is at. *)
LEMMA CallGrows ==
  ASSUME IInv, NEW p \in Party, NEW it \in Item, Call(p, it)
  PROVE  /\ ProtocolInv' /\ Grows
         /\ item[p] \in 1..Len(script')
         /\ script'[item[p]] = it
         /\ it = Close => item[p] = Len(script')
<1>1. ProtocolInv
  BY InvProtocol
<1>2. item[p] \in Nat \ {0} /\ script \in Seq(Item) /\ Len(script) \in Nat
  BY DEF IInv, TypeOK
<1>3. CASE item[p] <= Len(script) /\ it = script[item[p]] /\ UNCHANGED protocol
  <2>1. ProtocolInv' /\ Grows
    BY <1>1, <1>3, StandsStill
  <2>2. script' = script
    BY <1>3 DEF protocol
  <2>3. item[p] \in 1..Len(script)
    BY <1>2, <1>3
  <2> QED
    BY <1>1, <1>3, <2>1, <2>2, <2>3 DEF ProtocolInv, CloseIsLast
<1>4. CASE item[p] = Len(script) + 1 /\ Decide(it)
  BY <1>1, <1>2, <1>4, DecideGrows DEF ProtocolInv
<1> QED
  BY <1>3, <1>4 DEF Call

LEMMA PosTyped ==
  ASSUME ProtocolInv, NEW q \in Party, NEW i \in 1..Len(script) + 1
  PROVE  pos[q][i] \in Nat /\ cnt[q][i] \in Nat
<1>1. /\ pos[q] \in Seq(Nat) /\ Len(pos[q]) = Len(script) + 1
      /\ cnt[q] \in Seq(Nat) /\ Len(cnt[q]) = Len(script) + 1
  BY DEF ProtocolInv, ProtocolTyped, Layout
<1> QED
  BY <1>1

LEMMA ItemTyped ==
  ASSUME ProtocolInv, NEW j \in 1..Len(script)
  PROVE  script[j] \in Item /\ script[j].len \in Nat
<1>1. script[j] \in Item
  BY DEF ProtocolInv, ProtocolTyped
<1> QED
  BY <1>1, ItemFacts

-----------------------------------------------------------------------------
(* What p's stream holds *)

LEMMA ConcatFacts ==
  ASSUME NEW s \in Seq(Nat), NEW t \in Seq(Nat)
  PROVE  /\ s \o t \in Seq(Nat)
         /\ Len(s) \in Nat /\ Len(t) \in Nat
         /\ Len(s \o t) \in Nat
         /\ Len(s \o t) = Len(s) + Len(t)
         /\ Len(s) <= Len(s \o t)
         /\ \A i \in 1..Len(s) : (s \o t)[i] = s[i]
         /\ \A i \in 1..Len(t) : (s \o t)[Len(s) + i] = t[i]
  OBVIOUS

LEMMA StreamTyped ==
  ASSUME TypeOK, NEW p \in Party
  PROVE  /\ Stream(p) \in Seq(Nat)
         /\ Len(Stream(p)) \in Nat
         /\ Len(out[p]) \in Nat
         /\ Len(sbuf[p]) \in Nat
         /\ Len(Stream(p)) = Len(out[p]) + Len(sbuf[p])
         /\ Len(out[p]) <= Len(Stream(p))
         /\ \A i \in 1..Len(out[p]) : Stream(p)[i] = out[p][i]
<1>1. out[p] \in Seq(Nat) /\ sbuf[p] \in Seq(Nat)
  BY DEF TypeOK
<1> QED
  BY <1>1, ConcatFacts DEF Stream

(* Where the parties stand in their streams never leaves the protocol. *)
LEMMA PastBound ==
  ASSUME IInv, NEW p \in Party
  PROVE  /\ item[p] \in 1..Len(script) + 1
         /\ Past(p) \in 1..Len(script) + 1
         /\ item[p] <= Past(p)
         /\ Len(script) \in Nat
         /\ Len(Stream(p)) = pos[p][Past(p)]
<1>1. /\ item[p] \in Nat \ {0} /\ script \in Seq(Item) /\ AtItem(p) /\ Sender(p)
  BY DEF IInv, TypeOK, PartyInv
<1>2. Len(script) \in Nat
  BY <1>1
<1> QED
  BY <1>1, <1>2 DEF AtItem, Sender, Past

(* A longer protocol says nothing new of the bytes already in a stream. *)
LEMMA ContentGrows ==
  ASSUME IInv, NEW p \in Party, ProtocolInv', Grows, Stream(p)' = Stream(p)
  PROVE  Content(p)'
<1> SUFFICES ASSUME NEW j \in 1..Len(script')
             PROVE  /\ script'[j].from = p => \A i \in 1..script'[j].len :
                         pos'[p][j] + i <= Len(Stream(p)) =>
                           Stream(p)[pos'[p][j] + i] = cnt'[p][j] + i
                    /\ script'[j].from # p => \A i \in pos'[p][j] + 1 .. pos'[p][j + 1] :
                         i <= Len(Stream(p)) => Stream(p)[i] = Junk
  BY DEF Content
<1>1. /\ Len(script) \in Nat /\ Len(script') \in Nat
      /\ Len(Stream(p)) = pos[p][Past(p)] /\ Past(p) \in 1..Len(script) + 1
  BY PastBound DEF ProtocolInv, ProtocolTyped
<1>2. CASE j \in 1..Len(script)
  <2>1. /\ script'[j] = script[j]
        /\ pos'[p][j] = pos[p][j] /\ cnt'[p][j] = cnt[p][j]
        /\ pos'[p][j + 1] = pos[p][j + 1]
    BY <1>1, <1>2 DEF Grows
  <2>2. Content(p)
    BY DEF IInv, PartyInv
  <2> QED
    BY <1>2, <2>1, <2>2 DEF Content
<1>3. CASE j > Len(script)
  <2>0. j \in 1..Len(script') + 1 /\ Past(p) \in 1..Len(script') + 1 /\ Past(p) <= j
    BY <1>1, <1>3 DEF Grows
  <2>1. pos'[p][Past(p)] <= pos'[p][j]
    BY <2>0 DEF ProtocolInv, Monotone
  <2>2. pos'[p][Past(p)] = pos[p][Past(p)]
    BY <1>1 DEF Grows
  <2>3. pos'[p][j] \in Nat
    <3>1. pos'[p] \in Seq(Nat) /\ Len(pos'[p]) = Len(script') + 1
      BY DEF ProtocolInv, ProtocolTyped, Layout
    <3> QED
      BY <2>0, <3>1
  <2>4. Len(Stream(p)) <= pos'[p][j] /\ Len(Stream(p)) \in Nat
    BY <1>1, <2>1, <2>2, StreamTyped DEF IInv
  <2>5. ASSUME NEW i \in 1..script'[j].len
        PROVE  ~(pos'[p][j] + i <= Len(Stream(p)))
    BY <2>3, <2>4
  <2>6. ASSUME NEW i \in pos'[p][j] + 1 .. pos'[p][j + 1]
        PROVE  ~(i <= Len(Stream(p)))
    BY <2>3, <2>4
  <2> QED
    BY <2>5, <2>6
<1> QED
  BY <1>1, <1>2, <1>3

(* What p's step leaves of the state of its peer o. *)
Undisturbed(o) ==
  /\ item'[o] = item[o]
  /\ pc'[o] = pc[o]
  /\ fsm'[o] = fsm[o]
  /\ sbuf'[o] = sbuf[o]
  /\ out'[o] = out[o]
  /\ pushed'[o] = pushed[o]
  /\ taken'[o] = taken[o]
  /\ rbuf'[o] = rbuf[o]
  /\ rptr'[o] = rptr[o]
  /\ want'[o] = want[o]
  /\ alive'[o] = alive[o]
  /\ nsent'[o] = nsent[o]
  /\ rcvd'[o] = rcvd[o]

(* p's stream only gets longer. *)
StreamGrows(p) ==
  /\ Len(Stream(p)) <= Len(Stream(p)')
  /\ \A i \in 1..Len(Stream(p)) : Stream(p)'[i] = Stream(p)[i]

(* A step of p keeps its peer's part of the invariant. *)
LEMMA Frame ==
  ASSUME IInv, NEW o \in Party, NEW p \in Party, p = Peer(o),
         ProtocolInv', Grows, Undisturbed(o), StreamGrows(p),
         taken[o] <= pushed'[p]
  PROVE  PartyInv(o)'
<1> USE DEF Undisturbed
<1>1. Stream(o)' = Stream(o) /\ Receiving(o)' = Receiving(o) /\ Past(o)' = Past(o)
  BY DEF Stream, Receiving, Past
<1>2. /\ AtItem(o) /\ Sender(o) /\ Content(o) /\ Receiver(o) /\ Delivered(o)
      /\ item[o] \in 1..Len(script) + 1
      /\ Past(o) \in 1..Len(script) + 1
      /\ Len(script) \in Nat /\ Len(script') \in Nat
      /\ Len(script) <= Len(script')
      /\ \A i \in 1..Len(script) : script'[i] = script[i]
  <2>1. AtItem(o) /\ Sender(o) /\ Content(o) /\ Receiver(o) /\ Delivered(o)
    BY DEF IInv, PartyInv
  <2>2. /\ Len(script) <= Len(script')
        /\ \A i \in 1..Len(script) : script'[i] = script[i]
    BY DEF Grows
  <2>3. Len(script') \in Nat
    BY DEF ProtocolInv, ProtocolTyped
  <2> QED
    BY <2>1, <2>2, <2>3, PastBound
<1>3. AtItem(o)'
  <2>1. item'[o] <= Len(script') + 1
    BY <1>2
  <2>2. Receiving(o) => /\ item[o] <= Len(script')
                        /\ script'[item[o]] = script[item[o]]
    BY <1>2 DEF AtItem
  <2>3. pc[o] \in {"fclose", "closed"} => Len(script') = Len(script) /\ script'[Len(script)] = script[Len(script)]
    <3>1. SUFFICES ASSUME pc[o] \in {"fclose", "closed"}
                   PROVE  Len(script') = Len(script)
      BY <1>2 DEF AtItem
    <3>2. Len(script) \in 1..Len(script) /\ script[Len(script)] = Close
      BY <1>2, <3>1 DEF AtItem
    <3>3. ~(Len(script) < Len(script'))
      BY <3>2 DEF Grows
    <3> QED
      BY <3>3, <1>2
  <2> QED
    BY <1>1, <1>2, <2>1, <2>2, <2>3 DEF AtItem
<1>4. Sender(o)'
  <2>1. pos'[o][Past(o)] = pos[o][Past(o)] /\ cnt'[o][Past(o)] = cnt[o][Past(o)]
    BY <1>2 DEF Grows
  <2> QED
    BY <1>1, <1>2, <2>1 DEF Sender
<1>5. Content(o)'
  BY <1>1, ContentGrows
<1>6. Receiver(o)'
  <2>0. p \in Party /\ Peer(o) = p /\ TypeOK
    BY DEF IInv
  <2>1. /\ pos'[p][item[o]] = pos[p][item[o]]
        /\ cnt'[p][item[o]] = cnt[p][item[o]]
    BY <1>2, <2>0 DEF Grows
  <2>2. Receiving(o) => /\ pos'[p][item[o] + 1] = pos[p][item[o] + 1]
                        /\ cnt'[p][item[o] + 1] = cnt[p][item[o] + 1]
                        /\ script'[item[o]] = script[item[o]]
    <3> SUFFICES ASSUME Receiving(o)
                 PROVE  item[o] + 1 \in 1..Len(script) + 1 /\ item[o] \in 1..Len(script)
      BY <2>0, <1>2 DEF Grows
    <3> QED
      BY <1>2 DEF AtItem
  <2>3. taken[o] \in Nat /\ Len(rbuf[o]) \in Nat /\ Len(Stream(p)) \in Nat /\ Len(out[p]) \in Nat
        /\ Len(out[p]) <= Len(Stream(p)) /\ pushed[p] \in Nat
    <3>1. taken[o] \in Nat /\ rbuf[o] \in Seq(Nat) /\ pushed[p] \in Nat
      BY <2>0 DEF TypeOK
    <3>2. Len(Stream(p)) \in Nat /\ Len(out[p]) \in Nat /\ Len(out[p]) <= Len(Stream(p))
      BY <2>0, StreamTyped
    <3>3. Len(rbuf[o]) \in Nat
      BY ONLY <3>1
    <3> QED
      BY ONLY <3>1, <3>2, <3>3
  <2>4. taken[o] <= Len(Stream(p))
    <3>1. taken[o] <= pushed[p]
      BY <1>2, <2>0 DEF Receiver
    <3>2. pushed[p] <= Len(out[p])
      BY <2>0 DEF IInv, PartyInv, Sender
    <3> QED
      BY <3>1, <3>2, <2>3
  <2>5. ASSUME Copied(o), Len(rbuf[o]) <= taken[o]
        PROVE  Copied(o)'
    <3> SUFFICES ASSUME NEW i \in 1..Len(rbuf[o])
                 PROVE  rbuf[o][i] = Stream(p)'[taken[o] - Len(rbuf[o]) + i]
      BY <2>0 DEF Copied
    <3>1. taken[o] - Len(rbuf[o]) + i \in 1..Len(Stream(p))
      BY <2>3, <2>4, <2>5
    <3>2. rbuf[o][i] = Stream(p)[taken[o] - Len(rbuf[o]) + i]
      BY <2>5, <2>0 DEF Copied
    <3> QED
      BY <3>1, <3>2 DEF StreamGrows
  <2>6. pc[o] = "fread" => Filling(o)'
    <3> SUFFICES ASSUME pc[o] = "fread" PROVE Filling(o)'
      OBVIOUS
    <3>1. Filling(o) /\ Receiving(o)
      BY <1>2 DEF Receiver, Receiving
    <3> QED
      BY <3>1, <2>0, <2>2, <2>5 DEF Filling
  <2>7. pc[o] # "fread" => Filled(o)'
    <3> SUFFICES ASSUME pc[o] # "fread" PROVE Filled(o)'
      OBVIOUS
    <3>1. Filled(o)
      BY <1>2 DEF Receiver
    <3> QED
      BY <3>1, <2>0, <2>1, <2>5 DEF Filled
  <2>8. pc[o] = "turn" => want[o] = script'[item[o]].len
    BY <1>2, <2>2 DEF Receiver, Receiving
  <2> QED
    BY <2>0, <2>6, <2>7, <2>8 DEF Receiver
<1>7. Delivered(o)'
  BY <1>2 DEF Delivered
<1> QED
  BY <1>3, <1>4, <1>5, <1>6, <1>7 DEF PartyInv

-----------------------------------------------------------------------------
(* Parts of the steps of one party *)

LEMMA SubSeqFacts ==
  ASSUME NEW s \in Seq(Nat), NEW a \in Nat, NEW b \in Nat, a <= b, b <= Len(s)
  PROVE  /\ SubSeq(s, a + 1, b) \in Seq(Nat)
         /\ Len(SubSeq(s, a + 1, b)) = b - a
         /\ \A i \in 1..b - a : SubSeq(s, a + 1, b)[i] = s[a + i]
  OBVIOUS

LEMMA ConcatAssoc ==
  ASSUME NEW s \in Seq(Nat), NEW t \in Seq(Nat), NEW u \in Seq(Nat)
  PROVE  /\ (s \o t) \o u = s \o (t \o u)
         /\ s \o <<>> = s
<1>1. /\ s \o (t \o u) \in Seq(Nat)
      /\ (s \o t) \o u \in Seq(Nat)
      /\ s \o <<>> \in Seq(Nat)
  OBVIOUS
<1>2. (s \o t) \o u = s \o (t \o u)
  BY <1>1, ConcatAssociative, SMTT(20)
<1>3. s \o <<>> = s
  BY ConcatEmptySeq
<1> QED
  BY <1>2, <1>3

(* The stream after call k: what it held, and the bytes call k is due.     *)
LEMMA ContentExtends ==
  ASSUME IInv, NEW p \in Party, ProtocolInv', Grows, ~Receiving(p),
         item[p] \in 1..Len(script'),
         StreamGrows(p),
         Len(Stream(p)') = pos'[p][item[p] + 1],
         script'[item[p]].from = p => \A i \in 1..script'[item[p]].len :
           Stream(p)'[pos'[p][item[p]] + i] = cnt'[p][item[p]] + i,
         script'[item[p]].from # p => \A i \in pos'[p][item[p]] + 1 .. pos'[p][item[p] + 1] :
           Stream(p)'[i] = Junk
  PROVE  Content(p)'
<1> DEFINE k == item[p]
<1> SUFFICES ASSUME NEW j \in 1..Len(script')
             PROVE  /\ script'[j].from = p => \A i \in 1..script'[j].len :
                         pos'[p][j] + i <= Len(Stream(p)') =>
                           Stream(p)'[pos'[p][j] + i] = cnt'[p][j] + i
                    /\ script'[j].from # p => \A i \in pos'[p][j] + 1 .. pos'[p][j + 1] :
                         i <= Len(Stream(p)') => Stream(p)'[i] = Junk
  BY DEF Content
<1>1. /\ Len(script) \in Nat /\ Len(script') \in Nat
      /\ Len(Stream(p)) = pos[p][k]
      /\ k \in 1..Len(script) + 1
      /\ Len(Stream(p)) = pos'[p][k]
  <2>1. Past(p) = k
    BY DEF Past
  <2>2. Len(script') \in Nat
    BY DEF ProtocolInv, ProtocolTyped
  <2> QED
    BY <2>1, <2>2, PastBound DEF Grows
<1>2. \A i \in 1..Len(script') + 1 : pos'[p][i] \in Nat
  <2>1. pos'[p] \in Seq(Nat) /\ Len(pos'[p]) = Len(script') + 1
    BY DEF ProtocolInv, ProtocolTyped, Layout
  <2> QED
    BY ONLY <2>1
<1>3. \A a, b \in 1..Len(script') + 1 : a <= b => pos'[p][a] <= pos'[p][b]
  BY DEF ProtocolInv, Monotone
<1>4. CASE j < k
  <2>1. /\ j \in 1..Len(script) /\ j + 1 \in 1..Len(script) + 1
        /\ j \in 1..Len(script) + 1
        /\ j + 1 <= k /\ j + 1 \in 1..Len(script') + 1 /\ k \in 1..Len(script') + 1
        /\ j \in 1..Len(script') + 1
    BY <1>1, <1>4
  <2>2. /\ script'[j] = script[j]
        /\ pos'[p][j] = pos[p][j] /\ cnt'[p][j] = cnt[p][j]
        /\ pos'[p][j + 1] = pos[p][j + 1]
    BY <2>1 DEF Grows
  <2>3. pos'[p][j + 1] <= Len(Stream(p))
    BY <2>1, <1>1, <1>3
  <2>4. /\ pos'[p][j] \in Nat /\ pos'[p][j + 1] \in Nat /\ Len(Stream(p)) \in Nat
    BY <2>1, <1>1, <1>2
  <2>5. Content(p)
    BY DEF IInv, PartyInv
  <2>6. ASSUME script'[j].from = p, NEW i \in 1..script'[j].len
        PROVE  Stream(p)'[pos'[p][j] + i] = cnt'[p][j] + i
    <3>1. script[j].len \in Nat
      BY <2>1, InvProtocol, ItemTyped
    <3>2. pos'[p][j + 1] = pos'[p][j] + script'[j].len
      BY <2>6 DEF ProtocolInv, Layout
    <3>3. pos'[p][j] + i \in 1..Len(Stream(p))
      BY ONLY <3>1, <3>2, <2>2, <2>3, <2>4, SMTT(20)
    <3>4. Stream(p)'[pos'[p][j] + i] = Stream(p)[pos'[p][j] + i]
      BY <3>3 DEF StreamGrows
    <3>5. Stream(p)[pos[p][j] + i] = cnt[p][j] + i
      BY <2>1, <2>2, <2>5, <2>6, <3>3 DEF Content
    <3> QED
      BY <3>4, <3>5, <2>2
  <2>7. ASSUME script'[j].from # p, NEW i \in pos'[p][j] + 1 .. pos'[p][j + 1]
        PROVE  Stream(p)'[i] = Junk
    <3>1. i \in 1..Len(Stream(p))
      BY <2>3, <2>4
    <3>2. Stream(p)[i] = Junk
      BY <2>1, <2>2, <2>5, <2>7, <3>1 DEF Content
    <3> QED
      BY <3>1, <3>2 DEF StreamGrows
  <2> QED
    BY <2>6, <2>7
<1>5. CASE j = k
  BY <1>5
<1>6. CASE j > k
  <2>1. /\ k + 1 \in 1..Len(script') + 1 /\ j \in 1..Len(script') + 1 /\ k + 1 <= j
    BY <1>1, <1>6
  <2>2. Len(Stream(p)') <= pos'[p][j] /\ pos'[p][j] \in Nat /\ Len(Stream(p)') \in Nat
    BY <2>1, <1>2, <1>3
  <2> QED
    BY <2>2, SMTT(20)
<1> QED
  BY <1>1, <1>4, <1>5, <1>6

LEMMA PadIndex == ASSUME NEW c \in Nat, NEW n \in Nat, NEW i \in c + 1 .. c + n
  PROVE  i - c \in 1..n /\ c + (i - c) = i
  OBVIOUS

(* The flush of the sender pads its stream up to where the protocol goes   *)
(* on after a call in which p does not send.                               *)
LEMMA SenderPads ==
  ASSUME IInv, NEW p \in Party, ProtocolInv', Grows, pc[p] = "run",
         item[p] \in 1..Len(script'), script'[item[p]].from # p, SenderFlush(p)
  PROVE  /\ StreamGrows(p)
         /\ Content(p)'
         /\ Len(Stream(p)') = pos'[p][item[p] + 1]
         /\ nsent[p] = cnt'[p][item[p] + 1]
         /\ sbuf'[p] = <<>>
         /\ out'[p] \in Seq(Nat)
         /\ Len(out'[p]) % B = 0
         /\ Len(out[p]) <= Len(out'[p])
<1> DEFINE k == item[p]
           c == Len(Stream(p))
           pad == [i \in 1..PadLen(c) |-> Junk]
<1>1. /\ Stream(p) \in Seq(Nat) /\ c \in Nat
      /\ c = Len(out[p]) + Len(sbuf[p])
      /\ Len(out[p]) \in Nat /\ Len(out[p]) <= c
  BY StreamTyped DEF IInv
<1>2. /\ Round(c) \in Nat /\ PadLen(c) \in Nat /\ Round(c) % B = 0 /\ c <= Round(c)
      /\ Round(c) = c + PadLen(c)
  BY <1>1, RoundFacts DEF Round
<1>3. pad \in Seq(Nat) /\ Len(pad) = PadLen(c) /\ \A i \in 1..PadLen(c) : pad[i] = Junk
  BY <1>2 DEF Junk
<1>4. out'[p] = Stream(p) \o pad /\ sbuf'[p] = <<>>
  <2>1. out \in [Party -> Seq(Nat)] /\ sbuf \in [Party -> Seq(Nat)]
    BY DEF IInv, TypeOK
  <2> QED
    BY <2>1, <1>1 DEF SenderFlush, Stream
<1>5. /\ out'[p] \in Seq(Nat)
      /\ Len(out'[p]) = Round(c)
      /\ \A i \in 1..c : out'[p][i] = Stream(p)[i]
      /\ \A i \in 1..PadLen(c) : out'[p][c + i] = Junk
  <2> HIDE DEF c, pad
  <2>1. /\ Stream(p) \o pad \in Seq(Nat)
        /\ Len(Stream(p) \o pad) = Len(Stream(p)) + Len(pad)
        /\ \A i \in 1..Len(Stream(p)) : (Stream(p) \o pad)[i] = Stream(p)[i]
        /\ \A i \in 1..Len(pad) : (Stream(p) \o pad)[Len(Stream(p)) + i] = pad[i]
    BY ONLY <1>1, <1>3, ConcatFacts
  <2>2. c = Len(Stream(p))
    BY DEF c
  <2> QED
    BY ONLY <1>2, <1>3, <1>4, <2>1, <2>2
<1>6. Stream(p)' = out'[p]
  BY <1>4, <1>5, ConcatAssoc DEF Stream
<1>7. StreamGrows(p)
  BY <1>1, <1>2, <1>5, <1>6 DEF StreamGrows
<1>8. Past(p) = k /\ ~Receiving(p)
  BY DEF Past, Receiving
<1>9. /\ k \in 1..Len(script) + 1
      /\ c = pos'[p][k] /\ nsent[p] = cnt'[p][k]
  <2>1. nsent[p] = cnt[p][k] /\ c = pos[p][k]
    BY <1>8 DEF IInv, PartyInv, Sender
  <2> QED
    BY <1>8, <2>1, PastBound DEF Grows
<1>10. pos'[p][k + 1] = Round(c) /\ cnt'[p][k + 1] = nsent[p]
  <2>1. /\ pos'[p][k + 1] = Round(pos'[p][k])
        /\ cnt'[p][k + 1] = cnt'[p][k]
    BY DEF ProtocolInv, Layout
  <2> QED
    BY ONLY <2>1, <1>9
<1>11. Content(p)'
  <2>1. \A i \in pos'[p][k] + 1 .. pos'[p][k + 1] : Stream(p)'[i] = Junk
    <3> SUFFICES ASSUME NEW i \in c + 1 .. c + PadLen(c)
                 PROVE  out'[p][i] = Junk
      BY <1>2, <1>6, <1>9, <1>10
    <3>1. i - c \in 1..PadLen(c) /\ c + (i - c) = i
      BY <1>1, <1>2, PadIndex
    <3> QED
      BY <1>5, <3>1
  <2> QED
    BY <1>5, <1>6, <1>7, <1>8, <1>10, <2>1, ContentExtends
<1> QED
  <2> HIDE DEF c, k
  <2>1. Len(out[p]) <= Len(out'[p]) /\ Len(out'[p]) % B = 0
    <3>1. Len(out'[p]) = Round(c)
      BY ONLY <1>5
    <3>2. Len(out[p]) <= Round(c)
      <4>1. Len(out[p]) \in Nat /\ Len(out[p]) <= c /\ c \in Nat
        BY <1>1
      <4>2. c <= Round(c) /\ Round(c) \in Nat
        BY <1>2
      <4> QED
        BY ONLY <4>1, <4>2
    <3> QED
      BY ONLY <1>2, <3>1, <3>2
  <2> QED
    BY <1>4, <1>5, <1>6, <1>7, <1>10, <1>11, <2>1 DEF k

(* After a call in which its peer does not send, a receiver that drops the *)
(* rest of its block is where the protocol goes on.                        *)
LEMMA ReceiverDrops ==
  ASSUME IInv, NEW p \in Party, NEW q \in Party, q = Peer(p),
         ProtocolInv', Grows, pc[p] = "run",
         item[p] \in 1..Len(script'), script'[item[p]].from # q,
         item'[p] = item[p] + 1, pc'[p] \notin {"fread", "turn"},
         rptr'[p] = B, taken'[p] = taken[p], rbuf'[p] = rbuf[p],
         rcvd'[p] = rcvd[p], pushed'[q] = pushed[q]
  PROVE  Receiver(p)' /\ Delivered(p)'
<1> DEFINE k == item[p]
<1>1. Receiver(p) /\ Delivered(p)
  BY DEF IInv, PartyInv
<1>2. Filled(p)
  BY <1>1 DEF Receiver
<1>3. /\ taken[p] \in Nat /\ rptr[p] \in 0..B /\ B \in Nat
  BY ChannelAssumption DEF IInv, TypeOK
<1>4. k \in 1..Len(script) + 1
  BY PastBound
<1>5. /\ pos'[q][k] = pos[q][k] /\ cnt'[q][k] = cnt[q][k]
      /\ pos[q][k] \in Nat
  BY <1>4, InvProtocol, PosTyped DEF Grows
<1>6. /\ pos'[q][k + 1] = Round(pos[q][k])
      /\ cnt'[q][k + 1] = cnt[q][k]
  BY <1>5 DEF ProtocolInv, Layout
<1>7. taken[p] = Round(pos[q][k])
  <2>1. /\ pos[q][k] <= taken[p] /\ taken[p] < pos[q][k] + B
        /\ taken[p] % B = 0
    <3>1. /\ taken[p] - B + rptr[p] = pos[q][k] /\ rptr[p] > 0
          /\ taken[p] % B = 0
      BY <1>2 DEF Filled
    <3> QED
      BY ONLY <3>1, <1>3, <1>5
  <2> QED
    BY <2>1, <1>3, <1>5, RoundUnique
<1>8. Filled(p)'
  BY <1>2, <1>3, <1>6, <1>7, ChannelAssumption DEF Filled
<1> QED
  BY <1>1, <1>8 DEF Receiver, Delivered

LEMMA DeliverFacts ==
  ASSUME NEW r \in Seq(Nat), \A i \in 1..Len(r) : r[i] = i,
         NEW s \in Seq(Nat), \A i \in 1..Len(s) : s[i] = Len(r) + i
  PROVE  /\ r \o s \in Seq(Nat)
         /\ Len(r \o s) = Len(r) + Len(s)
         /\ \A i \in 1..Len(r \o s) : (r \o s)[i] = i
<1>1. /\ r \o s \in Seq(Nat)
      /\ Len(r) \in Nat /\ Len(s) \in Nat
      /\ Len(r \o s) = Len(r) + Len(s)
      /\ \A i \in 1..Len(r) : (r \o s)[i] = r[i]
      /\ \A i \in 1..Len(s) : (r \o s)[Len(r) + i] = s[i]
  BY ConcatFacts
<1>2. ASSUME NEW i \in 1..Len(r \o s)
      PROVE  (r \o s)[i] = i
  <2>1. CASE i \in 1..Len(r)
    BY <1>1, <2>1
  <2>2. CASE i \notin 1..Len(r)
    <3>1. i - Len(r) \in 1..Len(s) /\ Len(r) + (i - Len(r)) = i
      BY <1>1, <1>2, <2>2
    <3> QED
      BY <1>1, <3>1
  <2> QED
    BY <2>1, <2>2
<1> QED
  BY <1>1, <1>2

LEMMA NatSeqAt == ASSUME NEW s \in Seq(Nat), NEW i \in 1..Len(s)
  PROVE  s[i] \in Nat
  OBVIOUS

(* The bytes between two offsets of call k's message, as ordinals.         *)
LEMMA MessageBytes ==
  ASSUME ProtocolInv', NEW q \in Party, Content(q)',
         NEW k \in 1..Len(script'), script'[k].from = q,
         NEW off \in Nat, NEW m \in Nat, 0 < m, off + m <= script'[k].len,
         pos'[q][k] + off + m <= Len(Stream(q)')
  PROVE  Stream(q)'[pos'[q][k] + off + m] = cnt'[q][k] + off + m
<1>1. script'[k].len \in Nat
  <2>1. script'[k] \in Item
    BY DEF ProtocolInv, ProtocolTyped
  <2> QED
    BY <2>1, ItemFacts
<1>2. pos'[q][k] \in Nat /\ cnt'[q][k] \in Nat
  <2>1. /\ pos'[q] \in Seq(Nat) /\ Len(pos'[q]) = Len(script') + 1
        /\ cnt'[q] \in Seq(Nat) /\ Len(cnt'[q]) = Len(script') + 1
        /\ Len(script') \in Nat
    BY DEF ProtocolInv, ProtocolTyped, Layout
  <2>2. k \in 1..Len(pos'[q]) /\ k \in 1..Len(cnt'[q])
    BY <2>1
  <2> QED
    BY <2>1, <2>2, NatSeqAt
<1>3. off + m \in 1..script'[k].len
  BY <1>1
<1>4. \A i \in 1..script'[k].len :
        pos'[q][k] + i <= Len(Stream(q)') => Stream(q)'[pos'[q][k] + i] = cnt'[q][k] + i
  BY DEF Content
<1>5. /\ pos'[q][k] + (off + m) = pos'[q][k] + off + m
      /\ cnt'[q][k] + (off + m) = cnt'[q][k] + off + m
  BY <1>2, SMTT(20)
<1> QED
  BY <1>3, <1>4, <1>5

(* recv_data, served from the block or begun with a drained one.           *)
LEMMA RecvDataKeeps ==
  ASSUME IInv, NEW p \in Party, NEW q \in Party, q = Peer(p),
         ProtocolInv', Grows, pc[p] \in {"run", "turn"},
         item[p] \in 1..Len(script'),
         script'[item[p]] \in Xfer, script'[item[p]].from = q,
         RecvData(p, script'[item[p]].len),
         taken'[p] = taken[p], pushed'[q] = pushed[q], Stream(q)' = Stream(q)
  PROVE  /\ Receiver(p)' /\ Delivered(p)'
         /\ rcvd'[p] \in Seq(Nat)
         /\ rbuf'[p] \in Seq(Nat)
         /\ rptr'[p] \in 0..B
         /\ want'[p] \in Nat
         /\ pc'[p] \in {"run", "fread"}
         /\ pc'[p] = "run" => item'[p] = item[p] + 1 /\ fsm'[p] = 1
         /\ pc'[p] = "fread" => item'[p] = item[p] /\ fsm'[p] = fsm[p]
<1> DEFINE k == item[p]
           n == script'[k].len
           room == B - rptr[p]
           c == IF n <= room THEN n ELSE room
<1>1. /\ taken[p] \in Nat /\ B \in Nat /\ B > 0
      /\ rptr[p] \in 0..B /\ rptr[p] \in Nat
      /\ rcvd[p] \in Seq(Nat) /\ rbuf[p] \in Seq(Nat)
      /\ item[p] \in Nat
  <2>1. /\ taken[p] \in Nat /\ rptr[p] \in 0..B
        /\ rcvd[p] \in Seq(Nat) /\ rbuf[p] \in Seq(Nat)
        /\ item[p] \in Nat
    BY DEF IInv, TypeOK
  <2>2. B \in Nat /\ B > 0
    BY ChannelAssumption
  <2> QED
    BY <2>1, <2>2
<1>2. n \in Nat
  BY ItemFacts DEF Item
<1> HIDE DEF n
<1>3. /\ room = B - rptr[p]
      /\ room \in Nat /\ c \in Nat /\ c <= room /\ c <= n /\ rptr[p] + c <= B
      /\ n # c => c = room /\ c < n
  <2>1. B \in Nat /\ rptr[p] \in 0..B
    BY <1>1
  <2> QED
    BY ONLY <1>2, <2>1
<1>4. /\ rcvd'[p] = rcvd[p] \o SubSeq(rbuf[p], rptr[p] + 1, rptr[p] + c)
      /\ rptr'[p] = rptr[p] + c
      /\ want'[p] = n - c
      /\ n = c => /\ pc'[p] = "run" /\ fsm'[p] = 1
                  /\ item'[p] = item[p] + 1 /\ rbuf'[p] = rbuf[p]
      /\ n # c => /\ pc'[p] = "fread" /\ rbuf'[p] = <<>>
                  /\ fsm'[p] = fsm[p] /\ item'[p] = item[p]
  <2>1. /\ pc \in [Party -> {"run", "fwrite", "fflush", "turn", "fread", "fclose", "closed"}]
        /\ rcvd \in [Party -> Seq(Nat)] /\ rptr \in [Party -> 0..B]
        /\ want \in [Party -> Nat] /\ rbuf \in [Party -> Seq(Nat)]
        /\ fsm \in [Party -> 0..2] /\ item \in [Party -> Nat \ {0}]
    BY DEF IInv, TypeOK
  <2> QED
    BY <2>1 DEF RecvData, n
<1> HIDE DEF room, c
<1>5. Filled(p) /\ Delivered(p)
  BY DEF IInv, PartyInv, Receiver
<1>6. /\ k \in 1..Len(script) + 1
      /\ pos'[q][k] = pos[q][k] /\ cnt'[q][k] = cnt[q][k]
      /\ pos[q][k] \in Nat /\ cnt[q][k] \in Nat
      /\ pos'[q][k + 1] = pos[q][k] + n
      /\ cnt'[q][k + 1] = cnt[q][k] + n
  <2>1. k \in 1..Len(script) + 1
    BY PastBound
  <2>2. pos'[q][k] = pos[q][k] /\ cnt'[q][k] = cnt[q][k]
    BY <2>1 DEF Grows
  <2>3. pos[q][k] \in Nat /\ cnt[q][k] \in Nat
    BY <2>1, InvProtocol, PosTyped
  <2>4. pos'[q][k + 1] = pos'[q][k] + n /\ cnt'[q][k + 1] = cnt'[q][k] + n
    BY DEF ProtocolInv, Layout, n
  <2> QED
    BY ONLY <2>1, <2>2, <2>3, <2>4
<1>7. /\ Len(rbuf[p]) = B
      /\ taken[p] % B = 0
      /\ rptr[p] > 0
      /\ taken[p] - B + rptr[p] = pos[q][k]
      /\ Len(rcvd[p]) = cnt[q][k]
      /\ rptr[p] < B => B <= taken[p] /\ fsm[p] = 1 /\ Copied(p)
  BY <1>5 DEF Filled
<1>8. Content(q)'
  BY ContentGrows
<1>9. taken[p] <= Len(Stream(q)) /\ Len(Stream(q)) \in Nat
  <2>1. taken[p] <= pushed[q]
    BY DEF IInv, PartyInv, Receiver
  <2>2. pushed[q] <= Len(out[q]) /\ pushed[q] \in Nat
    BY DEF IInv, PartyInv, Sender, TypeOK
  <2>3. /\ Len(out[q]) <= Len(Stream(q)) /\ Len(out[q]) \in Nat
        /\ Len(Stream(q)) \in Nat
    BY StreamTyped DEF IInv
  <2> QED
    BY ONLY <1>1, <2>1, <2>2, <2>3
<1>10. DEFINE chunk == SubSeq(rbuf[p], rptr[p] + 1, rptr[p] + c)
<1>11. /\ chunk \in Seq(Nat) /\ Len(chunk) = c
       /\ \A m \in 1..c : chunk[m] = rbuf[p][rptr[p] + m]
  <2>1. /\ rptr[p] \in Nat /\ rptr[p] + c \in Nat /\ rptr[p] <= rptr[p] + c
        /\ rptr[p] + c <= Len(rbuf[p]) /\ (rptr[p] + c) - rptr[p] = c
        /\ rbuf[p] \in Seq(Nat)
    BY <1>1, <1>3, <1>7
  <2>2. /\ chunk \in Seq(Nat)
        /\ Len(chunk) = (rptr[p] + c) - rptr[p]
        /\ \A i \in 1..(rptr[p] + c) - rptr[p] : chunk[i] = rbuf[p][rptr[p] + i]
    BY ONLY <2>1, SubSeqFacts DEF chunk
  <2> QED
    BY ONLY <2>1, <2>2
<1>12. ASSUME NEW m \in 1..c PROVE chunk[m] = Len(rcvd[p]) + m
  <2>1. m \in Nat /\ 0 < m /\ m <= room /\ m <= n
    <3>1. /\ room \in Nat /\ c \in Nat /\ c <= room /\ c <= n
      BY <1>3
    <3>2. m \in Nat /\ 0 < m /\ m <= c
      BY <3>1
    <3> QED
      BY ONLY <1>2, <3>1, <3>2
  <2>2. /\ rptr[p] < B /\ rptr[p] + m \in 1..B
        /\ taken[p] - B + (rptr[p] + m) = pos[q][k] + m
        /\ pos[q][k] + m <= taken[p]
    <3>1. /\ taken[p] \in Nat /\ B \in Nat /\ rptr[p] \in Nat
          /\ taken[p] - B + rptr[p] = pos[q][k]
          /\ pos[q][k] \in Nat
      BY <1>1, <1>6, <1>7
    <3>2. m <= B - rptr[p]
      BY <1>3, <2>1
    <3> QED
      BY ONLY <2>1, <3>1, <3>2
  <2>3. rbuf[p][rptr[p] + m] = Stream(q)[pos[q][k] + m]
    <3>1. Copied(p)
      BY <1>7, <2>2
    <3>2. \A i \in 1..B : rbuf[p][i] = Stream(q)[taken[p] - B + i]
      BY <1>7, <3>1 DEF Copied
    <3> QED
      BY <2>2, <3>2
  <2>4. /\ pos'[q][k] + 0 + m = pos[q][k] + m /\ cnt'[q][k] + 0 + m = cnt[q][k] + m
        /\ 0 + m <= n /\ pos[q][k] + m <= Len(Stream(q))
    <3>1. /\ pos[q][k] \in Nat /\ cnt[q][k] \in Nat
          /\ pos'[q][k] = pos[q][k] /\ cnt'[q][k] = cnt[q][k]
          /\ taken[p] \in Nat /\ taken[p] <= Len(Stream(q)) /\ Len(Stream(q)) \in Nat
      BY <1>1, <1>6, <1>9
    <3> QED
      BY <2>1, <2>2, <3>1, SMTT(20)
  <2>5. Stream(q)'[pos'[q][k] + 0 + m] = cnt'[q][k] + 0 + m
    BY <1>8, <2>1, <2>4, MessageBytes DEF n
  <2> QED
    BY <1>7, <1>11, <2>3, <2>4, <2>5
<1> HIDE DEF chunk, c
<1>13. /\ rcvd'[p] \in Seq(Nat)
       /\ Len(rcvd'[p]) = Len(rcvd[p]) + c
       /\ Delivered(p)'
  <2>1. \A i \in 1..Len(rcvd[p]) : rcvd[p][i] = i
    BY <1>5 DEF Delivered
  <2>2. \A i \in 1..Len(chunk) : chunk[i] = Len(rcvd[p]) + i
    BY <1>11, <1>12
  <2>3. /\ rcvd[p] \o chunk \in Seq(Nat)
        /\ Len(rcvd[p] \o chunk) = Len(rcvd[p]) + Len(chunk)
        /\ \A i \in 1..Len(rcvd[p] \o chunk) : (rcvd[p] \o chunk)[i] = i
    BY <1>1, <1>11, <2>1, <2>2, DeliverFacts
  <2> QED
    BY <1>4, <1>11, <2>3 DEF chunk, Delivered
<1>14. CASE n = c
  <2>1. /\ rptr'[p] > 0 /\ rptr'[p] \in 0..B
        /\ taken[p] - B + rptr'[p] = pos'[q][k + 1]
        /\ Len(rcvd'[p]) = cnt'[q][k + 1]
        /\ rptr'[p] < B => rptr[p] < B
        /\ want'[p] \in Nat
    <3>1. /\ rptr'[p] = rptr[p] + n /\ want'[p] = 0
          /\ Len(rcvd'[p]) = Len(rcvd[p]) + n
          /\ Len(rcvd[p]) = cnt[q][k] /\ cnt'[q][k + 1] = cnt[q][k] + n
          /\ cnt[q][k] \in Nat
      BY <1>2, <1>4, <1>6, <1>7, <1>13, <1>14
    <3>2. /\ taken[p] - B + rptr[p] = pos[q][k] /\ pos'[q][k + 1] = pos[q][k] + n
          /\ pos[q][k] \in Nat /\ taken[p] \in Nat /\ rptr[p] > 0
          /\ B \in Nat /\ rptr[p] \in Nat
      BY <1>1, <1>6, <1>7
    <3>3. rptr[p] + n <= B
      BY <1>3, <1>14
    <3>4. rptr'[p] > 0 /\ rptr'[p] \in 0..B
      BY ONLY <1>2, <3>1, <3>2, <3>3, SMTT(20)
    <3>5. taken[p] - B + rptr'[p] = pos'[q][k + 1]
      BY ONLY <1>2, <3>1, <3>2, SMTT(20)
    <3>6. Len(rcvd'[p]) = cnt'[q][k + 1]
      BY ONLY <3>1
    <3>7. rptr'[p] < B => rptr[p] < B
      BY ONLY <1>2, <3>1, <3>2
    <3>8. want'[p] \in Nat
      BY ONLY <3>1
    <3> QED
      BY ONLY <3>4, <3>5, <3>6, <3>7, <3>8
  <2>2. Copied(p) => Copied(p)'
    BY <1>4, <1>14 DEF Copied
  <2>3. Filled(p)'
    BY <1>4, <1>7, <1>14, <2>1, <2>2 DEF Filled
  <2>4. taken[p] <= pushed[q]
    BY DEF IInv, PartyInv, Receiver
  <2>5. Receiver(p)'
    BY <1>4, <1>14, <2>3, <2>4 DEF Receiver
  <2> QED
    BY <1>1, <1>4, <1>13, <1>14, <2>1, <2>5
<1>15. CASE n # c
  <2>1. c = room /\ c < n
    BY <1>3, <1>15
  <2>2. /\ rptr'[p] \in 0..B
        /\ want'[p] \in Nat /\ want'[p] > 0 /\ want'[p] <= n
        /\ taken[p] - 0 + want'[p] = pos'[q][k + 1]
        /\ Len(rcvd'[p]) + want'[p] = cnt'[q][k + 1]
        /\ taken[p] - 0 = taken[p]
        /\ 0 < B
        /\ 0 <= taken[p]
    <3>1. /\ rptr'[p] = rptr[p] + c /\ want'[p] = n - c
          /\ Len(rcvd'[p]) = Len(rcvd[p]) + c
          /\ Len(rcvd[p]) = cnt[q][k] /\ cnt'[q][k + 1] = cnt[q][k] + n
          /\ cnt[q][k] \in Nat
      BY <1>4, <1>6, <1>7, <1>13
    <3>2. /\ taken[p] - B + rptr[p] = pos[q][k] /\ pos'[q][k + 1] = pos[q][k] + n
          /\ pos[q][k] \in Nat /\ taken[p] \in Nat
          /\ B \in Nat /\ B > 0 /\ rptr[p] \in Nat
      BY <1>1, <1>6, <1>7
    <3>3. /\ c = B - rptr[p] /\ c \in Nat /\ c < n /\ n \in Nat
      BY <1>2, <1>3, <2>1
    <3>4. rptr'[p] \in 0..B
      BY ONLY <3>1, <3>2, <3>3
    <3>5. want'[p] \in Nat /\ want'[p] > 0 /\ want'[p] <= n
      BY ONLY <3>1, <3>3
    <3>6. taken[p] - 0 + want'[p] = pos'[q][k + 1]
      <4>1. /\ taken[p] \in Nat /\ B \in Nat /\ rptr[p] \in Nat /\ c \in Nat /\ n \in Nat
            /\ taken[p] - B + rptr[p] = pos[q][k] /\ c = B - rptr[p]
        BY <3>2, <3>3
      <4>2. pos[q][k] = taken[p] - c
        BY ONLY <4>1
      <4>3. taken[p] - 0 + (n - c) = (taken[p] - c) + n
        BY ONLY <4>1
      <4>4. want'[p] = n - c /\ pos'[q][k + 1] = pos[q][k] + n
        BY <3>1, <3>2
      <4> QED
        BY ONLY <4>2, <4>3, <4>4
    <3>7. Len(rcvd'[p]) + want'[p] = cnt'[q][k + 1]
      BY ONLY <3>1, <3>3
    <3>8. taken[p] - 0 = taken[p] /\ 0 < B /\ 0 <= taken[p]
      BY ONLY <3>2
    <3> QED
      BY ONLY <3>4, <3>5, <3>6, <3>7, <3>8
  <2>3. /\ rbuf'[p] = <<>> /\ Len(rbuf'[p]) = 0 /\ item'[p] = k /\ pc'[p] = "fread"
        /\ rbuf'[p] \in Seq(Nat)
    <3>1. rbuf'[p] = <<>> /\ item'[p] = k /\ pc'[p] = "fread"
      BY <1>4, <1>15
    <3>2. Len(<<>>) = 0 /\ <<>> \in Seq(Nat)
      OBVIOUS
    <3> QED
      BY ONLY <3>1, <3>2
  <2>4. Copied(p)'
    BY <2>3 DEF Copied
  <2>5. Filling(p)'
    <3>1. /\ Len(rbuf'[p]) < B /\ Len(rbuf'[p]) <= taken'[p]
          /\ (taken'[p] - Len(rbuf'[p])) % B = 0
      BY <1>7, <2>2, <2>3
    <3>2. /\ taken'[p] - Len(rbuf'[p]) + want'[p] = pos'[q][item'[p] + 1]
          /\ Len(rcvd'[p]) + want'[p] = cnt'[q][item'[p] + 1]
          /\ want'[p] <= script'[item'[p]].len
      BY <2>2, <2>3 DEF n
    <3> QED
      BY <2>2, <2>4, <3>1, <3>2 DEF Filling
  <2>6. taken[p] <= pushed[q]
    BY DEF IInv, PartyInv, Receiver
  <2>7. Receiver(p)'
    BY <2>3, <2>5, <2>6 DEF Receiver
  <2> QED
    BY <1>4, <1>13, <1>15, <2>2, <2>3, <2>7
<1> QED
  BY <1>14, <1>15

LEMMA Transitive == ASSUME NEW a \in Nat, NEW b \in Nat, NEW c \in Nat, a <= b, b <= c
  PROVE  a <= c
  OBVIOUS

LEMMA Combine ==
  ASSUME NEW p \in Party, TypeOK', ProtocolInv', PartyInv(p)', PartyInv(Peer(p))'
  PROVE  IInv'
  BY PeerFacts DEF IInv, ProtocolInv

(* What changes in a step of p alone is p's. *)
LEMMA SendKeeps == ASSUME IInv, NEW p \in Party, Send(p) PROVE IInv'
<1> DEFINE q == Peer(p)
           k == item[p]
<1>0. q \in Party /\ q # p /\ p = Peer(q) /\ p # "NONE"
  BY PeerFacts
<1>1. PICK it \in Xfer :
        /\ it.from = p
        /\ Call(p, it)
        /\ IF fsm[p] = 1 THEN RecverFlush(p) ELSE UNCHANGED rptr
        /\ SendData(p, [i \in 1..it.len |-> nsent[p] + i])
        /\ nsent' = [nsent EXCEPT ![p] = @ + it.len]
        /\ fsm' = [fsm EXCEPT ![p] = 2]
        /\ item' = [item EXCEPT ![p] = @ + 1]
        /\ UNCHANGED <<pushed, taken, rbuf, want, rcvd, alive>>
  BY DEF Send
<1> DEFINE data == [i \in 1..it.len |-> nsent[p] + i]
<1>2. it \in Item /\ it.len \in Nat
  BY ItemFacts DEF Item
<1>3. /\ ProtocolInv' /\ Grows
      /\ k \in 1..Len(script') /\ script'[k] = it
  BY <1>1, <1>2, CallGrows
<1>4. pc[p] = "run" /\ ~Receiving(p) /\ Past(p) = k
  BY <1>1 DEF Call, Receiving, Past
<1>5. TypeOK
  BY DEF IInv
<1>6. data \in Seq(Nat) /\ Len(data) = it.len /\ \A i \in 1..it.len : data[i] = nsent[p] + i
  <2>1. nsent[p] \in Nat
    BY <1>5 DEF TypeOK
  <2> QED
    BY <1>2, <2>1
<1>7. out[p] \in Seq(Nat) /\ sbuf[p] \in Seq(Nat)
  BY <1>5 DEF TypeOK
<1> HIDE DEF data
<1>8. \/ /\ sbuf' = [sbuf EXCEPT ![p] = @ \o data]
         /\ out' = out /\ pc' = pc
      \/ /\ out' = [out EXCEPT ![p] = (@ \o sbuf[p]) \o data]
         /\ sbuf' = [sbuf EXCEPT ![p] = <<>>]
         /\ pc' = [pc EXCEPT ![p] = "fwrite"]
  BY <1>1 DEF SendData, data
<1>9. /\ out'[p] \in Seq(Nat) /\ sbuf'[p] \in Seq(Nat)
      /\ out'[q] = out[q] /\ sbuf'[q] = sbuf[q] /\ pc'[q] = pc[q]
      /\ Stream(p)' = Stream(p) \o data
      /\ Len(out[p]) <= Len(out'[p])
      /\ pc'[p] \in {"run", "fwrite"}
  <2>1. CASE sbuf' = [sbuf EXCEPT ![p] = @ \o data] /\ out' = out /\ pc' = pc
    <3>1. sbuf'[p] = sbuf[p] \o data /\ out'[p] = out[p] /\ sbuf'[q] = sbuf[q]
      BY <1>0, <1>5, <2>1 DEF TypeOK
    <3>2. Stream(p)' = Stream(p) \o data
      <4>1. (out[p] \o sbuf[p]) \o data = out[p] \o (sbuf[p] \o data)
        BY <1>6, <1>7, ConcatAssoc
      <4> QED
        BY <3>1, <4>1 DEF Stream
    <3>3. sbuf[p] \o data \in Seq(Nat) /\ Len(out[p]) <= Len(out[p])
      BY <1>6, <1>7, ConcatFacts
    <3> QED
      BY <1>4, <1>7, <2>1, <3>1, <3>2, <3>3
  <2>2. CASE /\ out' = [out EXCEPT ![p] = (@ \o sbuf[p]) \o data]
             /\ sbuf' = [sbuf EXCEPT ![p] = <<>>]
             /\ pc' = [pc EXCEPT ![p] = "fwrite"]
    <3>1. /\ sbuf'[p] = <<>> /\ out'[p] = (out[p] \o sbuf[p]) \o data
          /\ out'[q] = out[q] /\ sbuf'[q] = sbuf[q] /\ pc'[q] = pc[q] /\ pc'[p] = "fwrite"
      BY <1>0, <1>5, <2>2 DEF TypeOK
    <3>2. /\ out[p] \o sbuf[p] \in Seq(Nat)
          /\ Len(out[p]) \in Nat /\ Len(out[p] \o sbuf[p]) \in Nat
          /\ Len(out[p]) <= Len(out[p] \o sbuf[p])
      BY <1>7, ConcatFacts
    <3>3. /\ (out[p] \o sbuf[p]) \o data \in Seq(Nat)
          /\ Len((out[p] \o sbuf[p]) \o data) \in Nat
          /\ Len(out[p] \o sbuf[p]) <= Len((out[p] \o sbuf[p]) \o data)
      BY <1>6, <3>2, ConcatFacts
    <3>4. Stream(p)' = Stream(p) \o data
      <4>1. ((out[p] \o sbuf[p]) \o data) \o <<>> = (out[p] \o sbuf[p]) \o data
        BY <3>3, ConcatAssoc
      <4> QED
        BY <3>1, <4>1 DEF Stream
    <3>5. Len(out[p]) <= Len((out[p] \o sbuf[p]) \o data)
      BY ONLY <3>2, <3>3, Transitive
    <3>6. <<>> \in Seq(Nat)
      OBVIOUS
    <3> QED
      BY <3>1, <3>3, <3>4, <3>5, <3>6
  <2> QED
    BY <1>8, <2>1, <2>2
<1>10. /\ rptr'[p] = B /\ rptr'[q] = rptr[q]
       /\ nsent'[p] = nsent[p] + it.len /\ nsent'[q] = nsent[q]
       /\ fsm'[p] = 2 /\ fsm'[q] = fsm[q]
       /\ item'[p] = k + 1 /\ item'[q] = item[q]
  <2>1. fsm[p] # 1 => rptr[p] = B
    <3>1. Filled(p)
      BY <1>4 DEF IInv, PartyInv, Receiver
    <3>2. rptr[p] \in 0..B /\ B \in Nat
      BY <1>5, ChannelAssumption DEF TypeOK
    <3> QED
      BY <3>1, <3>2 DEF Filled
  <2> QED
    BY <1>0, <1>1, <1>5, <2>1 DEF TypeOK, RecverFlush
<1>11. /\ Stream(p) \in Seq(Nat) /\ Len(Stream(p)) \in Nat
       /\ Len(Stream(p)') = Len(Stream(p)) + it.len
       /\ \A i \in 1..Len(Stream(p)) : Stream(p)'[i] = Stream(p)[i]
       /\ \A i \in 1..it.len : Stream(p)'[Len(Stream(p)) + i] = nsent[p] + i
  <2>1. Stream(p) \in Seq(Nat) /\ Len(Stream(p)) \in Nat
    BY <1>5, StreamTyped
  <2>2. /\ Len(Stream(p) \o data) = Len(Stream(p)) + Len(data)
        /\ \A i \in 1..Len(Stream(p)) : (Stream(p) \o data)[i] = Stream(p)[i]
        /\ \A i \in 1..Len(data) : (Stream(p) \o data)[Len(Stream(p)) + i] = data[i]
    BY ONLY <1>6, <2>1, ConcatFacts
  <2> QED
    BY ONLY <1>6, <1>9, <2>1, <2>2
<1>12. StreamGrows(p)
  BY <1>2, <1>11 DEF StreamGrows
<1>13. /\ k \in 1..Len(script) + 1
       /\ Len(Stream(p)) = pos'[p][k] /\ nsent[p] = cnt'[p][k]
  <2>1. Len(Stream(p)) = pos[p][k] /\ nsent[p] = cnt[p][k]
    BY <1>4 DEF IInv, PartyInv, Sender
  <2>2. k \in 1..Len(script) + 1
    BY PastBound
  <2> QED
    BY <1>3, <2>1, <2>2 DEF Grows
<1>14. /\ pos'[p][k + 1] = pos'[p][k] + it.len
       /\ cnt'[p][k + 1] = cnt'[p][k] + it.len
  BY <1>1, <1>3 DEF ProtocolInv, Layout
<1>15. Content(p)'
  <2>1. \A i \in 1..script'[k].len : Stream(p)'[pos'[p][k] + i] = cnt'[p][k] + i
    BY <1>3, <1>11, <1>13
  <2>2. script'[k].from = p
    BY <1>1, <1>3
  <2>3. Len(Stream(p)') = pos'[p][k + 1]
    BY <1>11, <1>13, <1>14
  <2> QED
    BY <1>3, <1>4, <1>12, <2>1, <2>2, <2>3, ContentExtends
<1>16. Past(p)' = k + 1 /\ ~Receiving(p)'
  BY <1>9, <1>10 DEF Past, Receiving
<1>17. AtItem(p)'
  <2>1. k \in Nat /\ Len(script') \in Nat /\ k <= Len(script')
    BY <1>3 DEF ProtocolInv, ProtocolTyped
  <2> QED
    BY <1>9, <1>10, <1>16, <2>1 DEF AtItem
<1>18. Sender(p)'
  <2>1. Len(Stream(p)') = pos'[p][Past(p)'] /\ nsent'[p] = cnt'[p][Past(p)']
    BY <1>10, <1>11, <1>13, <1>14, <1>16
  <2>2. pushed[p] <= Len(out'[p])
    <3>1. pushed[p] <= Len(out[p]) /\ pushed[p] \in Nat
      BY <1>5 DEF IInv, PartyInv, Sender, TypeOK
    <3>2. Len(out[p]) \in Nat /\ Len(out'[p]) \in Nat
      BY <1>7, <1>9
    <3> QED
      BY <1>9, <3>1, <3>2
  <2> QED
    BY <1>1, <1>9, <1>10, <1>16, <2>1, <2>2 DEF Sender
<1>19. Receiver(p)' /\ Delivered(p)'
  <2>1. script'[k].from # q /\ pc'[p] \notin {"fread", "turn"}
    BY <1>0, <1>1, <1>3, <1>9
  <2> QED
    BY <1>0, <1>1, <1>3, <1>4, <1>10, <2>1, ReceiverDrops
<1>20. PartyInv(p)'
  BY <1>15, <1>17, <1>18, <1>19 DEF PartyInv
<1>21. PartyInv(q)'
  <2>1. Undisturbed(q)
    BY <1>1, <1>9, <1>10 DEF Undisturbed
  <2>2. taken[q] <= pushed'[p]
    BY <1>0, <1>1 DEF IInv, PartyInv, Receiver
  <2> QED
    BY <1>0, <1>3, <1>12, <2>1, <2>2, Frame
<1>22. TypeOK'
  <2>1. /\ script' \in Seq(Item)
        /\ pos' \in [Party -> Seq(Nat)]
        /\ cnt' \in [Party -> Seq(Nat)]
    BY <1>3 DEF ProtocolInv, ProtocolTyped
  <2>2. /\ sbuf' \in [Party -> Seq(Nat)] /\ out' \in [Party -> Seq(Nat)]
        /\ pc' \in [Party -> {"run", "fwrite", "fflush", "turn", "fread", "fclose", "closed"}]
    BY <1>5, <1>8, <1>9 DEF TypeOK
  <2>3. rptr' \in [Party -> 0..B]
    <3>1. rptr \in [Party -> 0..B] /\ B \in 0..B
      BY <1>5, ChannelAssumption DEF TypeOK
    <3>2. rptr' = [rptr EXCEPT ![p] = B] \/ rptr' = rptr
      BY <1>1 DEF RecverFlush
    <3> QED
      BY ONLY <3>1, <3>2
  <2>4. /\ nsent' \in [Party -> Nat] /\ fsm' \in [Party -> 0..2]
        /\ item' \in [Party -> Nat \ {0}]
    <3>1. /\ nsent \in [Party -> Nat] /\ fsm \in [Party -> 0..2]
          /\ item \in [Party -> Nat \ {0}]
      BY <1>5 DEF TypeOK
    <3>2. /\ nsent' = [nsent EXCEPT ![p] = @ + it.len]
          /\ fsm' = [fsm EXCEPT ![p] = 2]
          /\ item' = [item EXCEPT ![p] = @ + 1]
      BY <1>1
    <3>3. nsent' \in [Party -> Nat]
      BY ONLY <1>2, <3>1, <3>2
    <3>4. fsm' \in [Party -> 0..2]
      BY ONLY <3>1, <3>2
    <3>5. item' \in [Party -> Nat \ {0}]
      BY ONLY <3>1, <3>2
    <3> QED
      BY <3>3, <3>4, <3>5
  <2> QED
    BY <1>1, <1>5, <2>1, <2>2, <2>3, <2>4 DEF TypeOK
<1> QED
  BY <1>3, <1>20, <1>21, <1>22, Combine

LEMMA RecvDataTyped ==
  ASSUME TypeOK, NEW p \in Party, NEW n, RecvData(p, n),
         rcvd'[p] \in Seq(Nat), rbuf'[p] \in Seq(Nat), rptr'[p] \in 0..B,
         want'[p] \in Nat
  PROVE  /\ rcvd' \in [Party -> Seq(Nat)] /\ rbuf' \in [Party -> Seq(Nat)]
         /\ rptr' \in [Party -> 0..B] /\ want' \in [Party -> Nat]
         /\ pc' \in [Party -> {"run", "fwrite", "fflush", "turn", "fread", "fclose", "closed"}]
         /\ fsm' \in [Party -> 0..2] /\ item' \in [Party -> Nat \ {0}]
         /\ \A r \in Party : r # p =>
              /\ rcvd'[r] = rcvd[r] /\ rbuf'[r] = rbuf[r] /\ rptr'[r] = rptr[r]
              /\ want'[r] = want[r] /\ pc'[r] = pc[r] /\ fsm'[r] = fsm[r]
              /\ item'[r] = item[r]
<1>1. /\ rcvd \in [Party -> Seq(Nat)] /\ rbuf \in [Party -> Seq(Nat)]
      /\ rptr \in [Party -> 0..B] /\ want \in [Party -> Nat]
      /\ pc \in [Party -> {"run", "fwrite", "fflush", "turn", "fread", "fclose", "closed"}]
      /\ fsm \in [Party -> 0..2] /\ item \in [Party -> Nat \ {0}]
  BY DEF TypeOK
<1>2. PICK s, x, w :
        /\ rcvd' = [rcvd EXCEPT ![p] = s]
        /\ rptr' = [rptr EXCEPT ![p] = x]
        /\ want' = [want EXCEPT ![p] = w]
  BY DEF RecvData
<1>3. \/ /\ pc' = [pc EXCEPT ![p] = "run"]
         /\ fsm' = [fsm EXCEPT ![p] = 1]
         /\ item' = [item EXCEPT ![p] = @ + 1]
         /\ rbuf' = rbuf
      \/ /\ pc' = [pc EXCEPT ![p] = "fread"]
         /\ rbuf' = [rbuf EXCEPT ![p] = <<>>]
         /\ fsm' = fsm /\ item' = item
  BY DEF RecvData
<1>4. rcvd' \in [Party -> Seq(Nat)]
  BY <1>1, <1>2
<1>5. rptr' \in [Party -> 0..B]
  BY <1>1, <1>2
<1>6. want' \in [Party -> Nat]
  BY <1>1, <1>2
<1>7. rbuf' \in [Party -> Seq(Nat)]
  BY <1>1, <1>3
<1>8. /\ pc' \in [Party -> {"run", "fwrite", "fflush", "turn", "fread", "fclose", "closed"}]
      /\ fsm' \in [Party -> 0..2]
  <2>1. pc' = [pc EXCEPT ![p] = "run"] \/ pc' = [pc EXCEPT ![p] = "fread"]
    BY <1>3
  <2>2. fsm' = [fsm EXCEPT ![p] = 1] \/ fsm' = fsm
    BY <1>3
  <2>3. pc' \in [Party -> {"run", "fwrite", "fflush", "turn", "fread", "fclose", "closed"}]
    BY ONLY <1>1, <2>1
  <2>4. fsm' \in [Party -> 0..2]
    <3>1. fsm \in [Party -> 0..2] /\ 1 \in 0..2
      BY <1>1
    <3> QED
      BY ONLY <2>2, <3>1
  <2> QED
    BY <2>3, <2>4
<1>9. item' \in [Party -> Nat \ {0}]
  <2>1. item' = [item EXCEPT ![p] = @ + 1] \/ item' = item
    BY <1>3
  <2>2. item \in [Party -> Nat \ {0}]
    BY <1>1
  <2> QED
    BY ONLY <2>1, <2>2
<1>10. \A r \in Party : r # p =>
              /\ rcvd'[r] = rcvd[r] /\ rptr'[r] = rptr[r]
              /\ want'[r] = want[r]
  BY <1>1, <1>2
<1>11. \A r \in Party : r # p =>
              /\ rbuf'[r] = rbuf[r] /\ pc'[r] = pc[r] /\ fsm'[r] = fsm[r]
              /\ item'[r] = item[r]
  BY <1>1, <1>3
<1> QED
  BY <1>4, <1>5, <1>6, <1>7, <1>8, <1>9, <1>10, <1>11

(* A call in which p receives, once p has flushed what it sent.            *)
LEMMA ReceiveKeeps ==
  ASSUME IInv, NEW p \in Party, NEW q \in Party, q = Peer(p),
         ProtocolInv', Grows, pc[p] \in {"run", "turn"},
         item[p] \in 1..Len(script'),
         script'[item[p]] \in Xfer, script'[item[p]].from = q,
         RecvData(p, script'[item[p]].len),
         UNCHANGED <<sender, pushed, taken, alive>>,
         sbuf[p] = <<>>, Len(out[p]) % B = 0, pushed[p] = Len(out[p]),
         Len(Stream(p)) = pos'[p][item[p] + 1],
         nsent[p] = cnt'[p][item[p] + 1]
  PROVE  IInv'
<1>0. q # p /\ p = Peer(q)
  BY PeerFacts
<1>1. /\ sbuf' = sbuf /\ out' = out /\ nsent' = nsent
      /\ pushed' = pushed /\ taken' = taken /\ alive' = alive
      /\ Stream(p)' = Stream(p) /\ Stream(q)' = Stream(q)
  BY DEF sender, Stream
<1>2. /\ Receiver(p)' /\ Delivered(p)'
      /\ rcvd'[p] \in Seq(Nat) /\ rbuf'[p] \in Seq(Nat)
      /\ rptr'[p] \in 0..B /\ want'[p] \in Nat
      /\ pc'[p] \in {"run", "fread"}
      /\ pc'[p] = "run" => item'[p] = item[p] + 1 /\ fsm'[p] = 1
      /\ pc'[p] = "fread" => item'[p] = item[p] /\ fsm'[p] = fsm[p]
  BY <1>1, RecvDataKeeps
<1>3. /\ rcvd' \in [Party -> Seq(Nat)] /\ rbuf' \in [Party -> Seq(Nat)]
      /\ rptr' \in [Party -> 0..B] /\ want' \in [Party -> Nat]
      /\ pc' \in [Party -> {"run", "fwrite", "fflush", "turn", "fread", "fclose", "closed"}]
      /\ fsm' \in [Party -> 0..2] /\ item' \in [Party -> Nat \ {0}]
      /\ \A r \in Party : r # p =>
           /\ rcvd'[r] = rcvd[r] /\ rbuf'[r] = rbuf[r] /\ rptr'[r] = rptr[r]
           /\ want'[r] = want[r] /\ pc'[r] = pc[r] /\ fsm'[r] = fsm[r]
           /\ item'[r] = item[r]
  BY <1>2, RecvDataTyped DEF IInv
<1>4. TypeOK'
  <2>1. /\ script' \in Seq(Item) /\ pos' \in [Party -> Seq(Nat)]
        /\ cnt' \in [Party -> Seq(Nat)]
    BY DEF ProtocolInv, ProtocolTyped
  <2> QED
    BY <1>1, <1>3, <2>1 DEF IInv, TypeOK
<1>5. Past(p)' = item[p] + 1
  BY <1>2 DEF Past, Receiving
<1>6. AtItem(p)'
  <2>1. /\ item[p] \in Nat /\ Len(script') \in Nat /\ item[p] <= Len(script')
    BY SMTT(20) DEF ProtocolInv, ProtocolTyped
  <2>2. item'[p] <= Len(script') + 1
    BY <1>2, <2>1
  <2>3. pc'[p] = "fread" => /\ item'[p] <= Len(script')
                            /\ script'[item'[p]] \in Xfer
                            /\ script'[item'[p]].from = q
    BY <1>2, <2>1
  <2> QED
    BY <1>2, <2>2, <2>3 DEF AtItem, Receiving
<1>7. Sender(p)'
  <2>1. Len(Stream(p)') = pos'[p][Past(p)'] /\ nsent'[p] = cnt'[p][Past(p)']
    BY <1>1, <1>5
  <2>2. pushed'[p] = Len(out'[p]) /\ pushed'[p] <= Len(out'[p])
    <3>1. pushed[p] \in Nat
      BY DEF IInv, TypeOK
    <3> QED
      BY <1>1, <3>1
  <2>3. sbuf'[p] = <<>> /\ Len(out'[p]) % B = 0
    BY <1>1
  <2> QED
    BY ONLY <2>1, <2>2, <2>3 DEF Sender
<1>8. Content(p)'
  BY <1>1, ContentGrows
<1>9. PartyInv(p)'
  BY <1>2, <1>6, <1>7, <1>8 DEF PartyInv
<1>10. PartyInv(q)'
  <2>1. Undisturbed(q)
    BY <1>0, <1>1, <1>3 DEF Undisturbed
  <2>2. taken[q] <= pushed'[p]
    BY <1>0, <1>1 DEF IInv, PartyInv, Receiver
  <2>3. StreamGrows(p)
    <3>1. Len(Stream(p)) \in Nat
      BY StreamTyped DEF IInv
    <3> QED
      BY <1>1, <3>1 DEF StreamGrows
  <2> QED
    BY <1>0, <2>1, <2>2, <2>3, Frame
<1> QED
  BY <1>4, <1>9, <1>10, Combine

LEMMA RecvKeeps == ASSUME IInv, NEW p \in Party, Recv(p) PROVE IInv'
<1> DEFINE q == Peer(p)
           k == item[p]
<1>0. q \in Party /\ q # p
  BY PeerFacts
<1>1. PICK it \in Xfer :
        /\ it.from = q
        /\ Call(p, it)
        /\ fsm[p] # 2
        /\ RecvData(p, it.len)
        /\ UNCHANGED <<sender, pushed, taken, alive>>
  BY DEF Recv
<1>2. it \in Item
  BY DEF Item
<1>3. /\ ProtocolInv' /\ Grows
      /\ k \in 1..Len(script') /\ script'[k] = it
  BY <1>1, <1>2, CallGrows
<1>4. pc[p] = "run" /\ alive[p] /\ Past(p) = k
  BY <1>1 DEF Call, Past, Receiving
<1>5. Sender(p)
  BY DEF IInv, PartyInv
<1>6. /\ sbuf[p] = <<>> /\ Len(out[p]) % B = 0 /\ pushed[p] = Len(out[p])
  BY <1>1, <1>4, <1>5 DEF Sender
<1>7. k \in 1..Len(script) + 1
  BY PastBound
<1>8. /\ Len(Stream(p)) = pos'[p][k] /\ nsent[p] = cnt'[p][k]
  BY <1>3, <1>4, <1>5, <1>7 DEF Sender, Grows
<1>9. /\ pos'[p][k + 1] = Round(pos'[p][k]) /\ cnt'[p][k + 1] = cnt'[p][k]
  BY <1>0, <1>1, <1>3 DEF ProtocolInv, Layout
<1>10. Round(Len(Stream(p))) = Len(Stream(p))
  <2>1. Len(Stream(p)) = Len(out[p]) /\ Len(Stream(p)) \in Nat
    <3>1. /\ Len(Stream(p)) = Len(out[p]) + Len(sbuf[p]) /\ Len(out[p]) \in Nat
          /\ Len(Stream(p)) \in Nat
      BY StreamTyped DEF IInv
    <3>2. Len(sbuf[p]) = 0
      BY <1>6
    <3> QED
      BY ONLY <3>1, <3>2
  <2> QED
    BY <1>6, <2>1, WholeAdd
<1> QED
  BY <1>0, <1>1, <1>3, <1>4, <1>6, <1>8, <1>9, <1>10, ReceiveKeeps

LEMMA TurnedKeeps == ASSUME IInv, NEW p \in Party, Turned(p) PROVE IInv'
<1> DEFINE q == Peer(p)
           k == item[p]
<1>0. q \in Party /\ q # p
  BY PeerFacts
<1>1. /\ alive[p] /\ pc[p] = "turn" /\ ~Writing(p)
      /\ RecvData(p, want[p])
      /\ UNCHANGED <<protocol, sender, pushed, taken, alive>>
  BY DEF Turned
<1>2. ProtocolInv' /\ Grows /\ script' = script /\ pos' = pos /\ cnt' = cnt
  BY <1>1, InvProtocol, StandsStill DEF protocol
<1>3. AtItem(p) /\ Sender(p) /\ Receiver(p)
  BY DEF IInv, PartyInv
<1>4. Receiving(p) /\ Past(p) = k + 1
  BY <1>1 DEF Receiving, Past
<1>5. k \in 1..Len(script)
  BY <1>3, <1>4, PastBound DEF AtItem
<1>6. script'[k] \in Xfer /\ script'[k].from = q /\ want[p] = script'[k].len
  BY <1>1, <1>2, <1>3, <1>4 DEF AtItem, Receiver
<1>7. sbuf[p] = <<>> /\ Len(out[p]) % B = 0
  BY <1>3, <1>4 DEF Sender
<1>8. pushed[p] = Len(out[p])
  <2>1. ~(Len(out[p]) - pushed[p] > 0)
    BY <1>1 DEF Writing, Pending
  <2>2. pushed[p] <= Len(out[p])
    BY <1>3 DEF Sender
  <2>3. pushed[p] \in Nat /\ Len(out[p]) \in Nat
    BY StreamTyped DEF IInv, TypeOK
  <2> QED
    BY ONLY <2>1, <2>2, <2>3
<1>9. Len(Stream(p)) = pos'[p][k + 1] /\ nsent[p] = cnt'[p][k + 1]
  BY <1>2, <1>3, <1>4 DEF Sender
<1> QED
  BY <1>0, <1>1, <1>2, <1>5, <1>6, <1>7, <1>8, <1>9, ReceiveKeeps

(* p stays where it is as a receiver. *)
LEMMA ReceiverStays ==
  ASSUME IInv, NEW p \in Party, NEW q \in Party, q = Peer(p), Grows,
         Stream(q)' = Stream(q), pc[p] # "fread", pc'[p] # "fread",
         item'[p] = item[p], taken'[p] = taken[p], rbuf'[p] = rbuf[p],
         rptr'[p] = rptr[p], rcvd'[p] = rcvd[p], fsm'[p] = fsm[p],
         taken[p] <= pushed'[q],
         pc'[p] = "turn" => want'[p] = script'[item[p]].len
  PROVE  Receiver(p)' /\ Delivered(p)'
<1>1. item[p] \in 1..Len(script) + 1
  BY PastBound
<1>2. pos'[q][item[p]] = pos[q][item[p]] /\ cnt'[q][item[p]] = cnt[q][item[p]]
  BY <1>1 DEF Grows
<1>3. Filled(p) /\ Delivered(p)
  BY DEF IInv, PartyInv, Receiver
<1>4. Filled(p)'
  BY <1>2, <1>3 DEF Filled, Copied
<1> QED
  BY <1>3, <1>4 DEF Receiver, Delivered

LEMMA TurnKeeps == ASSUME IInv, NEW p \in Party, Turn(p) PROVE IInv'
<1> DEFINE q == Peer(p)
           k == item[p]
<1>0. q \in Party /\ q # p /\ p = Peer(q)
  BY PeerFacts
<1>1. PICK it \in Xfer :
        /\ it.from = q
        /\ Call(p, it)
        /\ fsm[p] = 2
        /\ SenderFlush(p)
        /\ want' = [want EXCEPT ![p] = it.len]
        /\ pc' = [pc EXCEPT ![p] = "turn"]
        /\ UNCHANGED <<item, fsm, nsent, pushed, taken, rbuf, rptr, rcvd, alive>>
  BY DEF Turn
<1>2. it \in Item /\ it.len \in Nat
  BY ItemFacts DEF Item
<1>3. /\ ProtocolInv' /\ Grows
      /\ k \in 1..Len(script') /\ script'[k] = it
  BY <1>1, <1>2, CallGrows
<1>4. pc[p] = "run"
  BY <1>1 DEF Call
<1>5. /\ StreamGrows(p) /\ Content(p)'
      /\ Len(Stream(p)') = pos'[p][k + 1]
      /\ nsent[p] = cnt'[p][k + 1]
      /\ sbuf'[p] = <<>> /\ out'[p] \in Seq(Nat) /\ Len(out'[p]) % B = 0
      /\ Len(out[p]) <= Len(out'[p])
  BY <1>0, <1>1, <1>3, <1>4, SenderPads
<1>6. /\ pc'[p] = "turn" /\ pc'[q] = pc[q]
      /\ want'[p] = it.len /\ want'[q] = want[q]
      /\ sbuf'[q] = sbuf[q] /\ out'[q] = out[q]
  BY <1>0, <1>1 DEF IInv, TypeOK, SenderFlush
<1>7. TypeOK'
  <2>1. /\ script' \in Seq(Item) /\ pos' \in [Party -> Seq(Nat)]
        /\ cnt' \in [Party -> Seq(Nat)]
    BY <1>3 DEF ProtocolInv, ProtocolTyped
  <2>2. /\ want \in [Party -> Nat] /\ out \in [Party -> Seq(Nat)]
        /\ sbuf \in [Party -> Seq(Nat)]
        /\ pc \in [Party -> {"run", "fwrite", "fflush", "turn", "fread", "fclose", "closed"}]
    BY DEF IInv, TypeOK
  <2>3. want' \in [Party -> Nat]
    BY <1>1, <1>2, <2>2
  <2>4. pc' \in [Party -> {"run", "fwrite", "fflush", "turn", "fread", "fclose", "closed"}]
    BY <1>1, <2>2
  <2>5. sbuf' \in [Party -> Seq(Nat)] /\ out' \in [Party -> Seq(Nat)]
    BY <1>1, <1>5, <2>2 DEF SenderFlush
  <2> QED
    BY <1>1, <2>1, <2>3, <2>4, <2>5 DEF IInv, TypeOK
<1>8. AtItem(p)'
  <2>1. k \in Nat /\ Len(script') \in Nat /\ k <= Len(script')
    BY <1>3 DEF ProtocolInv, ProtocolTyped
  <2>2. item'[p] = k /\ fsm'[p] = 2
    BY <1>1
  <2> QED
    BY <1>1, <1>3, <1>6, <2>1, <2>2 DEF AtItem, Receiving
<1>9. Sender(p)'
  <2>1. Past(p)' = k + 1
    BY <1>1, <1>6 DEF Past, Receiving
  <2>2. pushed[p] <= Len(out'[p])
    <3>1. pushed[p] <= Len(out[p]) /\ pushed[p] \in Nat /\ Len(out[p]) \in Nat
      BY StreamTyped DEF IInv, PartyInv, Sender, TypeOK
    <3>2. Len(out'[p]) \in Nat
      BY <1>5
    <3> QED
      BY <1>5, <3>1, <3>2, Transitive
  <2> QED
    BY <1>1, <1>5, <1>6, <2>1, <2>2 DEF Sender
<1>10. Receiver(p)' /\ Delivered(p)'
  <2>1. Stream(q)' = Stream(q)
    BY <1>6 DEF Stream
  <2>2. taken[p] <= pushed'[q]
    BY <1>1 DEF IInv, PartyInv, Receiver
  <2> QED
    BY <1>0, <1>1, <1>3, <1>4, <1>6, <2>1, <2>2, ReceiverStays
<1>11. PartyInv(p)'
  BY <1>5, <1>8, <1>9, <1>10 DEF PartyInv
<1>12. PartyInv(q)'
  <2>1. Undisturbed(q)
    BY <1>1, <1>6 DEF Undisturbed
  <2>2. taken[q] <= pushed'[p]
    BY <1>0, <1>1 DEF IInv, PartyInv, Receiver
  <2> QED
    BY <1>0, <1>3, <1>5, <2>1, <2>2, Frame
<1> QED
  BY <1>3, <1>7, <1>11, <1>12, Combine

LEMMA FlushKeeps == ASSUME IInv, NEW p \in Party, Flush(p) PROVE IInv'
<1> DEFINE q == Peer(p)
           k == item[p]
<1>0. q \in Party /\ q # p /\ p = Peer(q)
  BY PeerFacts
<1>1. PICK it \in {Sync, Close} :
        /\ Call(p, it)
        /\ SenderFlush(p)
        /\ RecverFlush(p)
        /\ fsm' = [fsm EXCEPT ![p] = 0]
        /\ pc' = [pc EXCEPT ![p] = IF it = Close THEN "fclose" ELSE "fflush"]
        /\ item' = [item EXCEPT ![p] = @ + 1]
        /\ UNCHANGED <<nsent, pushed, taken, rbuf, want, rcvd, alive>>
  BY DEF Flush
<1>2. it \in Item /\ it.from # p /\ it.from # q
  BY <1>0 DEF Item, Sync, Close, Party
<1>3. /\ ProtocolInv' /\ Grows
      /\ k \in 1..Len(script') /\ script'[k] = it
      /\ it = Close => k = Len(script')
  BY <1>1, <1>2, CallGrows
<1>4. pc[p] = "run"
  BY <1>1 DEF Call
<1>5. /\ StreamGrows(p) /\ Content(p)'
      /\ Len(Stream(p)') = pos'[p][k + 1]
      /\ nsent[p] = cnt'[p][k + 1]
      /\ sbuf'[p] = <<>> /\ out'[p] \in Seq(Nat) /\ Len(out'[p]) % B = 0
      /\ Len(out[p]) <= Len(out'[p])
  BY <1>1, <1>2, <1>3, <1>4, SenderPads
<1>6. /\ pc'[p] = (IF it = Close THEN "fclose" ELSE "fflush") /\ pc'[q] = pc[q]
      /\ rptr'[p] = B /\ rptr'[q] = rptr[q]
      /\ fsm'[p] = 0 /\ fsm'[q] = fsm[q]
      /\ item'[p] = k + 1 /\ item'[q] = item[q]
      /\ sbuf'[q] = sbuf[q] /\ out'[q] = out[q]
  <2>1. /\ pc \in [Party -> {"run", "fwrite", "fflush", "turn", "fread", "fclose", "closed"}]
        /\ rptr \in [Party -> 0..B] /\ fsm \in [Party -> 0..2]
        /\ item \in [Party -> Nat \ {0}]
        /\ sbuf \in [Party -> Seq(Nat)] /\ out \in [Party -> Seq(Nat)]
    BY DEF IInv, TypeOK
  <2> QED
    BY <1>0, <1>1, <2>1 DEF SenderFlush, RecverFlush
<1>7. TypeOK'
  <2>1. /\ script' \in Seq(Item) /\ pos' \in [Party -> Seq(Nat)]
        /\ cnt' \in [Party -> Seq(Nat)]
    BY <1>3 DEF ProtocolInv, ProtocolTyped
  <2>2. /\ rptr \in [Party -> 0..B] /\ out \in [Party -> Seq(Nat)]
        /\ sbuf \in [Party -> Seq(Nat)] /\ fsm \in [Party -> 0..2]
        /\ item \in [Party -> Nat \ {0}]
        /\ pc \in [Party -> {"run", "fwrite", "fflush", "turn", "fread", "fclose", "closed"}]
        /\ B \in 0..B
    BY ChannelAssumption, SMTT(20) DEF IInv, TypeOK
  <2>3. rptr' \in [Party -> 0..B]
    BY <1>1, <2>2 DEF RecverFlush
  <2>4. pc' \in [Party -> {"run", "fwrite", "fflush", "turn", "fread", "fclose", "closed"}]
    BY <1>1, <2>2
  <2>5. sbuf' \in [Party -> Seq(Nat)] /\ out' \in [Party -> Seq(Nat)]
    BY <1>1, <1>5, <2>2 DEF SenderFlush
  <2>6. fsm' \in [Party -> 0..2]
    BY <1>1, <2>2
  <2>7. item' \in [Party -> Nat \ {0}]
    <3>1. item' = [item EXCEPT ![p] = @ + 1]
      BY <1>1
    <3> QED
      BY ONLY <2>2, <3>1
  <2> QED
    BY <1>1, <2>1, <2>3, <2>4, <2>5, <2>6, <2>7 DEF IInv, TypeOK
<1>8. ~Receiving(p)' /\ Past(p)' = k + 1
  BY <1>6 DEF Past, Receiving
<1>9. AtItem(p)'
  <2>1. k \in Nat /\ k > 0 /\ Len(script') \in Nat /\ k <= Len(script')
    BY <1>3 DEF ProtocolInv, ProtocolTyped
  <2>2. it = Close => Len(script') > 0 /\ script'[Len(script')] = Close /\ k = Len(script')
    BY <1>3, <2>1
  <2> QED
    BY <1>6, <1>8, <2>1, <2>2 DEF AtItem
<1>10. Sender(p)'
  <2>1. pushed[p] <= Len(out'[p])
    <3>1. pushed[p] <= Len(out[p]) /\ pushed[p] \in Nat /\ Len(out[p]) \in Nat
      BY StreamTyped DEF IInv, PartyInv, Sender, TypeOK
    <3>2. Len(out'[p]) \in Nat
      BY <1>5
    <3> QED
      BY <1>5, <3>1, <3>2, Transitive
  <2> QED
    BY <1>1, <1>5, <1>6, <1>8, <2>1 DEF Sender
<1>11. Receiver(p)' /\ Delivered(p)'
  <2>1. script'[k].from # q /\ pc'[p] \notin {"fread", "turn"}
    BY <1>2, <1>3, <1>6
  <2> QED
    BY <1>0, <1>1, <1>3, <1>4, <1>6, <2>1, ReceiverDrops
<1>12. PartyInv(p)'
  BY <1>5, <1>9, <1>10, <1>11 DEF PartyInv
<1>13. PartyInv(q)'
  <2>1. Undisturbed(q)
    BY <1>1, <1>6 DEF Undisturbed
  <2>2. taken[q] <= pushed'[p]
    BY <1>0, <1>1 DEF IInv, PartyInv, Receiver
  <2> QED
    BY <1>0, <1>3, <1>5, <2>1, <2>2, Frame
<1> QED
  BY <1>3, <1>7, <1>12, <1>13, Combine

-----------------------------------------------------------------------------
(* Steps of the FILE, the kernel and the process: nothing moves but pc,    *)
(* pushed and alive.                                                       *)
LEMMA QuietKeeps ==
  ASSUME IInv, UNCHANGED <<protocol, item, fsm, sender, receiver>>,
         pc' \in [Party -> {"run", "fwrite", "fflush", "turn", "fread", "fclose", "closed"}],
         pushed' \in [Party -> Nat], alive' \in [Party -> BOOLEAN],
         \A r \in Party :
           /\ pc'[r] = pc[r] \/ (pc[r] \in {"fwrite", "fflush"} /\ pc'[r] = "run")
                             \/ (pc[r] = "fclose" /\ pc'[r] = "closed")
           /\ pushed'[r] <= Len(out[r])
           /\ taken[Peer(r)] <= pushed'[r]
           /\ (alive'[r] /\ (pc'[r] \in {"fread", "closed"} \/ (pc'[r] = "run" /\ fsm[r] # 2)))
                => pushed'[r] = Len(out[r])
  PROVE  IInv'
<1>1. /\ script' = script /\ pos' = pos /\ cnt' = cnt /\ item' = item /\ fsm' = fsm
      /\ sbuf' = sbuf /\ out' = out /\ nsent' = nsent /\ taken' = taken
      /\ rbuf' = rbuf /\ rptr' = rptr /\ want' = want /\ rcvd' = rcvd
  BY DEF protocol, sender, receiver
<1>2. TypeOK'
  BY <1>1 DEF IInv, TypeOK
<1>3. ProtocolInv' /\ Grows
  BY InvProtocol, StandsStill
<1>4. ASSUME NEW p \in Party PROVE PartyInv(p)'
  <2>0. Peer(p) \in Party /\ Peer(Peer(p)) = p
    BY PeerFacts
  <2>1. AtItem(p) /\ Sender(p) /\ Content(p) /\ Receiver(p) /\ Delivered(p)
    BY DEF IInv, PartyInv
  <2>2. /\ Stream(p)' = Stream(p) /\ Stream(Peer(p))' = Stream(Peer(p))
        /\ Receiving(p)' = Receiving(p) /\ Past(p)' = Past(p)
    <3>1. Receiving(p)' = Receiving(p)
      BY DEF Receiving
    <3> QED
      BY <1>1, <3>1 DEF Stream, Past
  <2>3. AtItem(p)'
    BY <1>1, <2>1, <2>2 DEF AtItem
  <2>4. Sender(p)'
    BY <1>1, <2>1, <2>2 DEF Sender
  <2>5. Content(p)'
    BY <1>1, <2>1, <2>2 DEF Content
  <2>6. Receiver(p)'
    <3>1. taken'[p] <= pushed'[Peer(p)]
      BY <1>1, <2>0
    <3>2. Copied(p)' = Copied(p)
      BY <1>1, <2>2 DEF Copied
    <3>3. Filling(p)' = Filling(p) /\ Filled(p)' = Filled(p)
      BY <1>1, <3>2 DEF Filling, Filled
    <3>4. /\ pc'[p] = "fread" <=> pc[p] = "fread"
          /\ pc'[p] = "turn" <=> pc[p] = "turn"
      OBVIOUS
    <3> QED
      BY <1>1, <2>1, <3>1, <3>3, <3>4 DEF Receiver
  <2>7. Delivered(p)'
    BY <1>1, <2>1 DEF Delivered
  <2> QED
    BY <2>3, <2>4, <2>5, <2>6, <2>7 DEF PartyInv
<1> QED
  BY <1>2, <1>3, <1>4 DEF IInv, ProtocolInv

(* Bounds of one direction of the connection. *)
LEMMA WireFacts ==
  ASSUME IInv, NEW p \in Party
  PROVE  /\ pushed[p] \in Nat /\ taken[Peer(p)] \in Nat /\ Len(out[p]) \in Nat
         /\ pushed[p] <= Len(out[p])
         /\ taken[Peer(p)] <= pushed[p]
         /\ (alive[p] /\ (pc[p] \in {"fread", "closed"} \/ (pc[p] = "run" /\ fsm[p] # 2)))
              => pushed[p] = Len(out[p])
<1>1. Peer(p) \in Party /\ Peer(Peer(p)) = p
  BY PeerFacts
<1>2. /\ pushed[p] \in Nat /\ taken[Peer(p)] \in Nat /\ Len(out[p]) \in Nat
  BY <1>1, StreamTyped DEF IInv, TypeOK
<1>3. Sender(p) /\ Receiver(Peer(p))
  BY <1>1 DEF IInv, PartyInv
<1> QED
  BY <1>1, <1>2, <1>3 DEF Sender, Receiver

LEMMA PushKeeps == ASSUME IInv, NEW p \in Party, Push(p) PROVE IInv'
<1>1. PICK n \in 1..Pending(p) : pushed' = [pushed EXCEPT ![p] = @ + n]
  BY DEF Push
<1>2. UNCHANGED <<protocol, item, pc, fsm, sender, receiver, alive>> /\ Writing(p)
  BY DEF Push
<1>3. /\ pushed \in [Party -> Nat] /\ alive \in [Party -> BOOLEAN]
      /\ pc \in [Party -> {"run", "fwrite", "fflush", "turn", "fread", "fclose", "closed"}]
  BY DEF IInv, TypeOK
<1>4. n \in Nat /\ n <= Len(out[p]) - pushed[p]
  <2>1. Pending(p) \in Int /\ Pending(p) = Len(out[p]) - pushed[p]
    BY WireFacts DEF Pending
  <2> QED
    BY <1>1, <2>1
<1>5. pushed' \in [Party -> Nat]
  BY <1>1, <1>3, <1>4
<1>6. ASSUME NEW r \in Party
      PROVE  /\ pushed'[r] <= Len(out[r])
             /\ taken[Peer(r)] <= pushed'[r]
             /\ (alive[r] /\ (pc[r] \in {"fread", "closed"} \/ (pc[r] = "run" /\ fsm[r] # 2)))
                  => pushed'[r] = Len(out[r])
  <2>1. CASE r = p
    <3>1. pushed'[r] = pushed[p] + n
      BY <1>1, <1>3, <2>1
    <3>2. /\ pushed[p] \in Nat /\ taken[Peer(p)] \in Nat /\ Len(out[p]) \in Nat
          /\ taken[Peer(p)] <= pushed[p]
      BY WireFacts
    <3>3. pushed[p] + n <= Len(out[p]) /\ taken[Peer(p)] <= pushed[p] + n
      BY ONLY <1>4, <3>2
    <3>4. pc[p] \in {"fwrite", "fflush", "turn", "fclose"}
      BY <1>2 DEF Writing
    <3> QED
      BY <2>1, <3>1, <3>3, <3>4
  <2>2. CASE r # p
    BY <1>1, <1>3, <2>2, WireFacts
  <2> QED
    BY <2>1, <2>2
<1> QED
  BY <1>2, <1>3, <1>5, <1>6, QuietKeeps

LEMMA ReturnKeeps == ASSUME IInv, NEW p \in Party, Return(p) PROVE IInv'
<1>1. /\ alive[p] /\ pc[p] \in {"fwrite", "fflush", "fclose"} /\ ~Writing(p)
      /\ pc' = [pc EXCEPT ![p] = IF @ = "fclose" THEN "closed" ELSE "run"]
      /\ UNCHANGED <<protocol, item, fsm, sender, pushed, receiver, alive>>
  BY DEF Return
<1>2. /\ pushed \in [Party -> Nat] /\ alive \in [Party -> BOOLEAN]
      /\ pc \in [Party -> {"run", "fwrite", "fflush", "turn", "fread", "fclose", "closed"}]
  BY DEF IInv, TypeOK
<1>3. pc' \in [Party -> {"run", "fwrite", "fflush", "turn", "fread", "fclose", "closed"}]
  BY <1>1, <1>2
<1>4. ASSUME NEW r \in Party
      PROVE  /\ pc'[r] = pc[r] \/ (pc[r] \in {"fwrite", "fflush"} /\ pc'[r] = "run")
                               \/ (pc[r] = "fclose" /\ pc'[r] = "closed")
             /\ (alive[r] /\ (pc'[r] \in {"fread", "closed"} \/ (pc'[r] = "run" /\ fsm[r] # 2)))
                  => pushed[r] = Len(out[r])
  <2>1. CASE r = p
    <3>1. pc'[p] = IF pc[p] = "fclose" THEN "closed" ELSE "run"
      BY <1>1, <1>2
    <3>2. pc[p] = "fwrite" => fsm[p] = 2
      BY DEF IInv, PartyInv, AtItem
    <3>3. pc[p] \in {"fflush", "fclose"} => pushed[p] = Len(out[p])
      <4>1. SUFFICES ASSUME pc[p] \in {"fflush", "fclose"}
                     PROVE  pushed[p] = Len(out[p])
        OBVIOUS
      <4>2. ~(Len(out[p]) - pushed[p] > 0)
        BY <1>1, <4>1 DEF Writing, Pending
      <4>3. pushed[p] \in Nat /\ Len(out[p]) \in Nat /\ pushed[p] <= Len(out[p])
        BY WireFacts
      <4> QED
        BY ONLY <4>2, <4>3
    <3> QED
      BY <1>1, <2>1, <3>1, <3>2, <3>3
  <2>2. CASE r # p
    BY <1>1, <1>2, <2>2, WireFacts
  <2> QED
    BY <2>1, <2>2
<1> QED
  BY <1>1, <1>2, <1>3, <1>4, WireFacts, QuietKeeps

LEMMA DieKeeps ==
  ASSUME IInv, NEW p \in Party, alive' = [alive EXCEPT ![p] = FALSE],
         NEW n \in taken[Peer(p)]..pushed[p], pushed' = [pushed EXCEPT ![p] = n],
         UNCHANGED <<protocol, item, pc, fsm, sender, receiver>>
  PROVE  IInv'
<1>1. /\ pushed \in [Party -> Nat] /\ alive \in [Party -> BOOLEAN]
      /\ pc \in [Party -> {"run", "fwrite", "fflush", "turn", "fread", "fclose", "closed"}]
  BY DEF IInv, TypeOK
<1>2. n \in Nat /\ taken[Peer(p)] <= n /\ n <= Len(out[p])
  <2>1. /\ pushed[p] \in Nat /\ taken[Peer(p)] \in Nat /\ Len(out[p]) \in Nat
        /\ pushed[p] <= Len(out[p])
    BY WireFacts
  <2>2. n \in Nat /\ taken[Peer(p)] <= n /\ n <= pushed[p]
    BY <2>1
  <2> QED
    BY ONLY <2>1, <2>2
<1>3. pushed' \in [Party -> Nat] /\ alive' \in [Party -> BOOLEAN]
  BY <1>1, <1>2
<1>4. ASSUME NEW r \in Party
      PROVE  /\ pushed'[r] <= Len(out[r])
             /\ taken[Peer(r)] <= pushed'[r]
             /\ (alive'[r] /\ (pc[r] \in {"fread", "closed"} \/ (pc[r] = "run" /\ fsm[r] # 2)))
                  => pushed'[r] = Len(out[r])
  <2>1. CASE r = p
    BY <1>1, <1>2, <2>1
  <2>2. CASE r # p
    <3>1. pushed'[r] = pushed[r] /\ alive'[r] = alive[r]
      BY <1>1, <2>2
    <3> QED
      BY <3>1, WireFacts
  <2> QED
    BY <2>1, <2>2
<1> QED
  BY <1>1, <1>3, <1>4, QuietKeeps

LEMMA BrokenPipeKeeps == ASSUME IInv, NEW p \in Party, BrokenPipe(p) PROVE IInv'
<1>1. pushed[p] \in taken[Peer(p)]..pushed[p]
  BY WireFacts
<1>2. pushed' = [pushed EXCEPT ![p] = pushed[p]]
  BY DEF BrokenPipe, IInv, TypeOK
<1> QED
  BY <1>1, <1>2, DieKeeps DEF BrokenPipe

LEMMA CrashKeeps == ASSUME IInv, NEW p \in Party, Crash(p) PROVE IInv'
  BY DieKeeps DEF Crash

-----------------------------------------------------------------------------
(* Where a byte that fread adds to the block lies in the stream. *)
LEMMA IndexFacts ==
  ASSUME NEW t \in Nat, NEW l \in Nat, NEW m \in Nat, NEW u \in Nat, NEW o \in Nat,
         NEW s \in Nat, l <= t, t + m <= u, u <= o, o <= s, NEW i \in 1..l + m
  PROVE  /\ (t - l) + i \in 1..s
         /\ i \notin 1..l => t + (i - l) \in 1..o
  OBVIOUS

(* One fread: a part of a block, or the rest of it with what it delivers.  *)
LEMMA FreadKeeps == ASSUME IInv, NEW p \in Party, Fread(p) PROVE IInv'
<1> DEFINE q == Peer(p)
           kk == item[p]
           avail == pushed[q] - taken[p]
           room == B - Len(rbuf[p])
           k == IF avail <= room THEN avail ELSE room
           chunk == SubSeq(out[q], taken[p] + 1, taken[p] + k)
           blk == rbuf[p] \o chunk
           n == IF want[p] <= B THEN want[p] ELSE B
           base == taken[p] - Len(rbuf[p])
<1>0. q \in Party /\ q # p /\ p = Peer(q)
  BY PeerFacts
<1>1. /\ alive[p] /\ pc[p] = "fread" /\ avail > 0
      /\ taken' = [taken EXCEPT ![p] = @ + k]
      /\ IF k < room
         THEN /\ rbuf' = [rbuf EXCEPT ![p] = blk]
              /\ UNCHANGED <<rcvd, rptr, want, pc, fsm, item>>
         ELSE /\ rcvd' = [rcvd EXCEPT ![p] = @ \o SubSeq(blk, 1, n)]
              /\ want' = [want EXCEPT ![p] = @ - n]
              /\ IF n = want[p]
                 THEN /\ rbuf' = [rbuf EXCEPT ![p] = blk]
                      /\ rptr' = [rptr EXCEPT ![p] = n]
                      /\ pc' = [pc EXCEPT ![p] = "run"]
                      /\ fsm' = [fsm EXCEPT ![p] = 1]
                      /\ item' = [item EXCEPT ![p] = @ + 1]
                 ELSE /\ rbuf' = [rbuf EXCEPT ![p] = <<>>]
                      /\ UNCHANGED <<rptr, pc, fsm, item>>
      /\ UNCHANGED <<protocol, sender, pushed, alive>>
  BY DEF Fread
<1>2. AtItem(p) /\ Sender(p) /\ Content(p) /\ Receiver(p) /\ Delivered(p) /\ Content(q)
  BY <1>0 DEF IInv, PartyInv
<1>3. Filling(p) /\ Receiving(p) /\ Past(p) = kk + 1
  BY <1>1, <1>2 DEF Receiver, Receiving, Past
<1>4. /\ script' = script /\ pos' = pos /\ cnt' = cnt /\ sbuf' = sbuf /\ out' = out
      /\ nsent' = nsent /\ pushed' = pushed /\ alive' = alive
  BY <1>1 DEF protocol, sender
<1>5. ProtocolInv' /\ Grows
  BY <1>4, InvProtocol, StandsStill DEF protocol
<1>6. /\ rcvd \in [Party -> Seq(Nat)] /\ rbuf \in [Party -> Seq(Nat)]
      /\ rptr \in [Party -> 0..B] /\ want \in [Party -> Nat] /\ taken \in [Party -> Nat]
      /\ pc \in [Party -> {"run", "fwrite", "fflush", "turn", "fread", "fclose", "closed"}]
      /\ fsm \in [Party -> 0..2] /\ item \in [Party -> Nat \ {0}]
  BY DEF IInv, TypeOK
<1>7. /\ rcvd[p] \in Seq(Nat) /\ rbuf[p] \in Seq(Nat) /\ Len(rbuf[p]) \in Nat
      /\ Len(rcvd[p]) \in Nat /\ want[p] \in Nat /\ taken[p] \in Nat
      /\ out[q] \in Seq(Nat) /\ B \in Nat /\ B > 0
      /\ item[p] \in Nat
  <2>1. /\ rcvd[p] \in Seq(Nat) /\ rbuf[p] \in Seq(Nat) /\ want[p] \in Nat
        /\ taken[p] \in Nat /\ item[p] \in Nat
    BY <1>6
  <2>2. out[q] \in Seq(Nat)
    BY <1>0 DEF IInv, TypeOK
  <2>3. B \in Nat /\ B > 0
    BY ChannelAssumption
  <2> QED
    BY <2>1, <2>2, <2>3
<1>8. /\ Len(rbuf[p]) < B /\ Len(rbuf[p]) <= taken[p]
      /\ (taken[p] - Len(rbuf[p])) % B = 0
      /\ want[p] > 0 /\ want[p] <= script[kk].len
      /\ taken[p] - Len(rbuf[p]) + want[p] = pos[q][kk + 1]
      /\ Len(rcvd[p]) + want[p] = cnt[q][kk + 1]
      /\ \A i \in 1..Len(rbuf[p]) : rbuf[p][i] = Stream(q)[taken[p] - Len(rbuf[p]) + i]
  BY <1>3 DEF Filling, Copied
<1>9. /\ pushed[q] \in Nat /\ Len(out[q]) \in Nat /\ pushed[q] <= Len(out[q])
      /\ Len(Stream(q)) \in Nat /\ Len(out[q]) <= Len(Stream(q))
      /\ \A i \in 1..Len(out[q]) : Stream(q)[i] = out[q][i]
  BY <1>0, WireFacts, StreamTyped DEF IInv
<1>10. /\ room \in Nat /\ room > 0 /\ k \in Nat /\ k > 0 /\ k <= room
       /\ taken[p] + k <= pushed[q]
  <2>1. /\ taken[p] \in Nat /\ pushed[q] \in Nat /\ Len(rbuf[p]) \in Nat /\ B \in Nat
        /\ Len(rbuf[p]) < B /\ pushed[q] - taken[p] > 0
    BY <1>1, <1>7, <1>8, <1>9
  <2> QED
    BY ONLY <2>1
<1>11. room = B - Len(rbuf[p]) /\ base = taken[p] - Len(rbuf[p]) /\ base \in Nat
  BY <1>7, <1>8
<1>12. /\ chunk \in Seq(Nat) /\ Len(chunk) = k
       /\ \A i \in 1..k : chunk[i] = out[q][taken[p] + i]
  <2> HIDE DEF k
  <2>1. /\ taken[p] \in Nat /\ taken[p] + k \in Nat /\ taken[p] <= taken[p] + k
        /\ taken[p] + k <= Len(out[q]) /\ (taken[p] + k) - taken[p] = k
        /\ out[q] \in Seq(Nat)
    <3>1. /\ taken[p] \in Nat /\ k \in Nat /\ taken[p] + k <= pushed[q]
          /\ pushed[q] \in Nat /\ Len(out[q]) \in Nat /\ pushed[q] <= Len(out[q])
      BY <1>7, <1>9, <1>10
    <3> QED
      BY ONLY <3>1, <1>7
  <2>2. /\ chunk \in Seq(Nat)
        /\ Len(chunk) = (taken[p] + k) - taken[p]
        /\ \A i \in 1..(taken[p] + k) - taken[p] : chunk[i] = out[q][taken[p] + i]
    BY ONLY <2>1, SubSeqFacts
  <2> QED
    BY ONLY <2>1, <2>2
<1> HIDE DEF k, room, avail, chunk, base
<1>13. /\ blk \in Seq(Nat) /\ Len(blk) = Len(rbuf[p]) + k
       /\ \A i \in 1..Len(rbuf[p]) : blk[i] = rbuf[p][i]
       /\ \A i \in 1..k : blk[Len(rbuf[p]) + i] = chunk[i]
  BY <1>7, <1>12, ConcatFacts
<1>14. ASSUME NEW i \in 1..Len(rbuf[p]) + k
       PROVE  blk[i] = Stream(q)[base + i] /\ base + i \in 1..Len(Stream(q))
  <2>0. /\ taken[p] \in Nat /\ k \in Nat /\ taken[p] + k <= pushed[q]
        /\ pushed[q] \in Nat /\ Len(out[q]) \in Nat /\ pushed[q] <= Len(out[q])
        /\ Len(Stream(q)) \in Nat /\ Len(out[q]) <= Len(Stream(q))
        /\ Len(rbuf[p]) \in Nat /\ base \in Nat /\ base = taken[p] - Len(rbuf[p])
        /\ i \in 1..Len(rbuf[p]) + k
    BY <1>7, <1>9, <1>10, <1>11
  <2>1. base + i \in 1..Len(Stream(q))
    <3>1. Len(rbuf[p]) <= taken[p]
      BY <1>8
    <3>2. (taken[p] - Len(rbuf[p])) + i \in 1..Len(Stream(q))
      BY ONLY <2>0, <3>1, IndexFacts
    <3> QED
      BY ONLY <2>0, <3>2
  <2>2. CASE i \in 1..Len(rbuf[p])
    BY <1>8, <1>11, <1>13, <2>1, <2>2
  <2>3. CASE i \notin 1..Len(rbuf[p])
    <3> DEFINE j == i - Len(rbuf[p])
    <3>1. j \in 1..k /\ Len(rbuf[p]) + j = i /\ taken[p] + j = base + i
      BY ONLY <2>0, <2>3
    <3>2. taken[p] + j \in 1..Len(out[q])
      <4>1. Len(rbuf[p]) <= taken[p]
        BY <1>8
      <4>2. taken[p] + (i - Len(rbuf[p])) \in 1..Len(out[q])
        BY ONLY <2>0, <2>3, <4>1, IndexFacts
      <4> QED
        BY ONLY <4>2
    <3> HIDE DEF j
    <3>3. blk[i] = out[q][taken[p] + j]
      BY <1>12, <1>13, <3>1
    <3> QED
      BY <1>9, <2>1, <3>1, <3>2, <3>3
  <2> QED
    BY <2>2, <2>3
<1> HIDE DEF blk
<1>15. /\ Stream(p)' = Stream(p) /\ Stream(q)' = Stream(q)
       /\ taken'[p] = taken[p] + k /\ taken'[q] = taken[q]
       /\ taken'[p] \in Nat
       /\ taken'[p] <= pushed'[q]
  <2>1. taken'[p] = taken[p] + k /\ taken'[q] = taken[q]
    BY <1>0, <1>1, <1>6
  <2>2. Stream(p)' = Stream(p) /\ Stream(q)' = Stream(q)
    BY <1>4 DEF Stream
  <2> QED
    BY <1>4, <1>7, <1>10, <2>1, <2>2
<1>16. taken' \in [Party -> Nat]
  <2>1. /\ taken \in [Party -> Nat] /\ taken' = [taken EXCEPT ![p] = @ + k]
        /\ k \in Nat /\ p \in Party
    BY <1>1, <1>6, <1>10
  <2> QED
    BY ONLY <2>1
<1>17. kk \in 1..Len(script) /\ script[kk].from = q /\ script[kk] \in Xfer
  BY <1>2, <1>3, PastBound DEF AtItem
<1>18. Content(p)'
  BY <1>5, <1>15, ContentGrows
<1>19. Content(q)'
  BY <1>0, <1>5, <1>15, ContentGrows
<1>20. ASSUME Undisturbed(q) PROVE PartyInv(q)'
  <2>1. StreamGrows(p)
    <3>1. Len(Stream(p)) \in Nat
      BY StreamTyped DEF IInv
    <3> QED
      BY <1>15, <3>1 DEF StreamGrows
  <2>2. taken[q] <= pushed'[p]
    BY <1>0, <1>4 DEF IInv, PartyInv, Receiver
  <2> QED
    BY <1>0, <1>5, <1>20, <2>1, <2>2, Frame
<1>21. CASE k < room
  <2>1. /\ rbuf' = [rbuf EXCEPT ![p] = blk] /\ rcvd' = rcvd /\ rptr' = rptr
        /\ want' = want /\ pc' = pc /\ fsm' = fsm /\ item' = item
    BY <1>1, <1>21
  <2>2. rbuf'[p] = blk /\ rbuf'[q] = rbuf[q] /\ rbuf' \in [Party -> Seq(Nat)]
    BY <1>0, <1>6, <1>13, <2>1
  <2>3. TypeOK'
    BY <1>4, <1>16, <2>1, <2>2 DEF IInv, TypeOK
  <2>4. Past(p)' = Past(p) /\ Receiving(p)' = Receiving(p)
    BY <2>1 DEF Past, Receiving
  <2>5. AtItem(p)'
    BY <1>2, <1>4, <2>1, <2>4 DEF AtItem
  <2>6. Sender(p)'
    BY <1>2, <1>4, <1>15, <2>1, <2>4 DEF Sender
  <2>7. Filling(p)'
    <3>1. /\ Len(blk) < B /\ Len(blk) <= taken'[p]
          /\ taken'[p] - Len(blk) = base
      <4>1. /\ Len(rbuf[p]) \in Nat /\ k \in Nat /\ B \in Nat /\ taken[p] \in Nat
            /\ room = B - Len(rbuf[p]) /\ k < room /\ Len(rbuf[p]) <= taken[p]
            /\ base = taken[p] - Len(rbuf[p])
        BY <1>7, <1>8, <1>10, <1>11, <1>21
      <4>2. Len(blk) = Len(rbuf[p]) + k /\ taken'[p] = taken[p] + k
        BY <1>13, <1>15
      <4> QED
        BY ONLY <4>1, <4>2, SMTT(20)
    <3>2. /\ base % B = 0 /\ base + want[p] = pos[q][kk + 1]
      BY <1>8 DEF base
    <3>3. \A i \in 1..Len(blk) : blk[i] = Stream(q)[base + i]
      BY <1>13, <1>14
    <3>4. Copied(p)'
      BY <1>15, <2>2, <3>1, <3>3 DEF Copied
    <3> QED
      BY <1>4, <1>8, <2>1, <2>2, <3>1, <3>2, <3>4 DEF Filling
  <2>8. Receiver(p)' /\ Delivered(p)'
    BY <1>1, <1>2, <1>15, <2>1, <2>7 DEF Receiver, Delivered
  <2>9. Undisturbed(q)
    BY <1>4, <1>15, <2>1, <2>2 DEF Undisturbed
  <2>10. PartyInv(p)' /\ PartyInv(q)'
    BY <1>18, <1>20, <2>5, <2>6, <2>8, <2>9 DEF PartyInv
  <2> QED
    BY <1>5, <2>3, <2>10, Combine
<1>22. CASE ~(k < room)
  <2>1. k = room /\ Len(blk) = B /\ taken'[p] = base + B
    <3>1. /\ Len(rbuf[p]) \in Nat /\ k \in Nat /\ B \in Nat /\ taken[p] \in Nat
          /\ room = B - Len(rbuf[p]) /\ room \in Nat /\ k <= room /\ ~(k < room)
          /\ base = taken[p] - Len(rbuf[p])
      BY <1>7, <1>8, <1>10, <1>11, <1>22
    <3>2. Len(blk) = Len(rbuf[p]) + k /\ taken'[p] = taken[p] + k
      BY <1>13, <1>15
    <3>3. k = room
      BY ONLY <3>1
    <3>4. Len(blk) = B
      BY ONLY <3>1, <3>2, <3>3
    <3>5. taken'[p] = base + B
      BY ONLY <3>1, <3>2, <3>3
    <3> QED
      BY <3>3, <3>4, <3>5
  <2>2. n \in Nat /\ n > 0 /\ n <= B /\ n <= want[p] /\ (n # want[p] => n = B /\ n < want[p])
    BY <1>7, <1>8
  <2>3. /\ rcvd' = [rcvd EXCEPT ![p] = @ \o SubSeq(blk, 1, n)]
        /\ want' = [want EXCEPT ![p] = @ - n]
        /\ IF n = want[p]
           THEN /\ rbuf' = [rbuf EXCEPT ![p] = blk]
                /\ rptr' = [rptr EXCEPT ![p] = n]
                /\ pc' = [pc EXCEPT ![p] = "run"]
                /\ fsm' = [fsm EXCEPT ![p] = 1]
                /\ item' = [item EXCEPT ![p] = @ + 1]
           ELSE /\ rbuf' = [rbuf EXCEPT ![p] = <<>>]
                /\ UNCHANGED <<rptr, pc, fsm, item>>
    BY <1>1, <1>22
  <2> HIDE DEF n
  <2> DEFINE part == SubSeq(blk, 1, n)
  <2>4. /\ part \in Seq(Nat) /\ Len(part) = n
        /\ \A m \in 1..n : part[m] = blk[m]
    <3>1. /\ 0 \in Nat /\ 0 <= n /\ n <= Len(blk) /\ n - 0 = n /\ 0 + 1 = 1
          /\ \A m \in 1..n : 0 + m = m
      BY <2>1, <2>2
    <3>2. /\ SubSeq(blk, 0 + 1, n) \in Seq(Nat)
          /\ Len(SubSeq(blk, 0 + 1, n)) = n - 0
          /\ \A i \in 1..n - 0 : SubSeq(blk, 0 + 1, n)[i] = blk[0 + i]
      BY <1>13, <2>2, <3>1, SubSeqFacts
    <3> QED
      BY <3>1, <3>2
  <2> HIDE DEF part
  <2>5. ASSUME NEW m \in 1..n PROVE part[m] = Len(rcvd[p]) + m
    <3>1. m \in Nat /\ 0 < m /\ m <= want[p] /\ m <= B /\ m \in 1..Len(rbuf[p]) + k
      BY <1>7, <1>13, <2>1, <2>2, SMTT(20)
    <3>2. part[m] = Stream(q)[base + m] /\ base + m \in 1..Len(Stream(q))
      BY <1>14, <2>4, <3>1
    <3>3. PICK len \in Nat : len = script[kk].len
      BY <1>17, InvProtocol, ItemTyped
    <3>4. /\ pos[q][kk + 1] = pos[q][kk] + len /\ cnt[q][kk + 1] = cnt[q][kk] + len
          /\ pos[q][kk] \in Nat /\ cnt[q][kk] \in Nat
      <4>1. pos[q][kk + 1] = pos[q][kk] + len /\ cnt[q][kk + 1] = cnt[q][kk] + len
        BY <1>0, <1>17, <3>3, InvProtocol DEF ProtocolInv, Layout
      <4>2. kk \in 1..Len(script) + 1
        BY PastBound
      <4> QED
        BY <1>0, <4>1, <4>2, InvProtocol, PosTyped
    <3>5. PICK off \in Nat : off = len - want[p] /\ off + m <= len
      <4>1. want[p] \in Nat /\ want[p] <= len
        BY <1>7, <1>8, <3>3
      <4>2. m \in Nat /\ m <= want[p] /\ len \in Nat
        BY <3>1, <3>3
      <4> QED
        BY ONLY <4>1, <4>2
    <3>6. /\ pos[q][kk] + off + m = base + m
          /\ cnt[q][kk] + off + m = Len(rcvd[p]) + m
      <4>1. base + want[p] = pos[q][kk] + len /\ Len(rcvd[p]) + want[p] = cnt[q][kk] + len
        BY <1>8, <3>4 DEF base
      <4>2. want[p] \in Nat /\ Len(rcvd[p]) \in Nat /\ base \in Nat
        BY <1>7, <1>11
      <4>3. m \in Nat /\ len \in Nat /\ pos[q][kk] \in Nat /\ cnt[q][kk] \in Nat
        BY <3>1, <3>3, <3>4
      <4>4. off = len - want[p]
        BY <3>5
      <4>5. PICK w \in Nat : w = want[p]
        BY <4>2
      <4>6. off + w = len
        BY <4>3, <4>4, <4>5
      <4>7. PICK a \in Nat : a = pos[q][kk]
        BY <4>3
      <4>8. PICK b \in Nat : b = base
        BY <4>2
      <4>9. PICK c \in Nat : c = cnt[q][kk]
        BY <4>3
      <4>10. PICK r \in Nat : r = Len(rcvd[p])
        BY <4>2
      <4>11. b + w = a + len /\ r + w = c + len
        BY <4>1, <4>5, <4>7, <4>8, <4>9, <4>10
      <4>12. a + off = b /\ c + off = r
        BY ONLY <4>6, <4>11
      <4> QED
        BY <4>7, <4>8, <4>9, <4>10, <4>12
    <3>7. base + m <= Len(Stream(q))
      BY <1>9, <3>2
    <3>8. Stream(q)'[pos'[q][kk] + off + m] = cnt'[q][kk] + off + m
      <4>1. /\ kk \in 1..Len(script') /\ script'[kk].from = q /\ script'[kk].len = len
            /\ pos'[q][kk] = pos[q][kk] /\ Len(Stream(q)') = Len(Stream(q))
        BY <1>4, <1>15, <1>17, <3>3
      <4>2. off \in Nat /\ m \in Nat /\ 0 < m /\ off + m <= len
        BY <3>1, <3>5
      <4>3. pos'[q][kk] + off + m <= Len(Stream(q)')
        BY <3>6, <3>7, <4>1
      <4>4. ProtocolInv' /\ q \in Party /\ Content(q)'
        BY <1>0, <1>5, <1>19
      <4> QED
        BY <4>1, <4>2, <4>3, <4>4, MessageBytes
    <3> QED
      BY <1>4, <1>15, <3>2, <3>6, <3>8
  <2>6. /\ rcvd'[p] \in Seq(Nat) /\ Len(rcvd'[p]) = Len(rcvd[p]) + n
        /\ Delivered(p)'
    <3>1. /\ \A i \in 1..Len(rcvd[p]) : rcvd[p][i] = i
          /\ \A i \in 1..Len(part) : part[i] = Len(rcvd[p]) + i
      BY <1>2, <2>4, <2>5 DEF Delivered
    <3>2. /\ rcvd[p] \o part \in Seq(Nat)
          /\ Len(rcvd[p] \o part) = Len(rcvd[p]) + Len(part)
          /\ \A i \in 1..Len(rcvd[p] \o part) : (rcvd[p] \o part)[i] = i
      BY <1>7, <2>4, <3>1, DeliverFacts
    <3>3. rcvd'[p] = rcvd[p] \o part
      BY <1>6, <2>3 DEF part
    <3> QED
      BY <2>4, <3>2, <3>3 DEF Delivered
  <2>7. /\ rcvd' \in [Party -> Seq(Nat)] /\ rcvd'[q] = rcvd[q]
        /\ want' \in [Party -> Nat] /\ want'[q] = want[q]
        /\ want'[p] = want[p] - n
    <3>1. /\ rcvd \in [Party -> Seq(Nat)] /\ rcvd' = [rcvd EXCEPT ![p] = @ \o SubSeq(blk, 1, n)]
          /\ want \in [Party -> Nat] /\ want' = [want EXCEPT ![p] = @ - n]
          /\ p \in Party /\ q \in Party /\ q # p
      BY <1>0, <1>6, <2>3
    <3>2. rcvd'[q] = rcvd[q] /\ want'[q] = want[q] /\ want'[p] = want[p] - n
      BY ONLY <3>1
    <3>3. want[p] - n \in Nat
      <4>1. want[p] \in Nat /\ n \in Nat /\ n <= want[p]
        BY <1>7, <2>2
      <4> QED
        BY ONLY <4>1
    <3>4. want' \in [Party -> Nat]
      BY ONLY <3>1, <3>3
    <3>5. rcvd[p] \o SubSeq(blk, 1, n) \in Seq(Nat)
      BY <2>6, <3>1
    <3>6. rcvd' \in [Party -> Seq(Nat)]
      BY ONLY <3>1, <3>5
    <3> QED
      BY ONLY <3>2, <3>4, <3>6
  <2>8. CASE n = want[p]
    <3>1. /\ rbuf' = [rbuf EXCEPT ![p] = blk] /\ rptr' = [rptr EXCEPT ![p] = n]
          /\ pc' = [pc EXCEPT ![p] = "run"] /\ fsm' = [fsm EXCEPT ![p] = 1]
          /\ item' = [item EXCEPT ![p] = @ + 1]
      BY <2>3, <2>8
    <3>2. /\ rbuf'[p] = blk /\ rptr'[p] = n /\ pc'[p] = "run" /\ fsm'[p] = 1
          /\ item'[p] = kk + 1
      BY <1>6, <3>1
    <3>3. /\ rbuf'[q] = rbuf[q] /\ rptr'[q] = rptr[q] /\ pc'[q] = pc[q]
          /\ fsm'[q] = fsm[q] /\ item'[q] = item[q]
      BY <1>0, <1>6, <3>1
    <3>4. TypeOK'
      <4>1. rbuf' \in [Party -> Seq(Nat)]
        BY <1>6, <1>13, <3>1
      <4>2. rptr' \in [Party -> 0..B]
        BY <1>6, <1>7, <2>2, <3>1
      <4>3. pc' \in [Party -> {"run", "fwrite", "fflush", "turn", "fread", "fclose", "closed"}]
        BY <1>6, <3>1
      <4>4. fsm' \in [Party -> 0..2]
        <5>1. fsm \in [Party -> 0..2] /\ 1 \in 0..2
          BY <1>6
        <5> QED
          BY ONLY <3>1, <5>1
      <4>5. item' \in [Party -> Nat \ {0}]
        <5>1. item \in [Party -> Nat \ {0}]
          BY <1>6
        <5> QED
          BY ONLY <3>1, <5>1
      <4> QED
        BY <1>4, <1>16, <2>7, <4>1, <4>2, <4>3, <4>4, <4>5 DEF IInv, TypeOK
    <3>5. ~Receiving(p)' /\ Past(p)' = kk + 1
      BY <3>2 DEF Receiving, Past
    <3>6. AtItem(p)'
      <4>1. kk + 1 <= Len(script') + 1
        BY <1>4, <1>7, <1>17, PastBound
      <4> QED
        BY <3>2, <3>5, <4>1 DEF AtItem
    <3>7. Sender(p)'
      BY <1>1, <1>2, <1>3, <1>4, <1>15, <3>2, <3>5 DEF Sender
    <3>8. Filled(p)'
      <4>1. taken'[p] % B = 0
        BY <1>7, <1>8, <1>11, <2>1, WholeAdd
      <4>2. taken'[p] - B + n = pos[q][kk + 1]
        <5>1. base + want[p] = pos[q][kk + 1]
          BY <1>8 DEF base
        <5>2. (base + B) - B + n = base + n
          BY <1>7, <1>11, <2>2
        <5> QED
          BY <2>1, <2>8, <5>1, <5>2
      <4>3. Len(rcvd'[p]) = cnt[q][kk + 1]
        BY <1>8, <2>6, <2>8
      <4>4. Copied(p)'
        <5>1. taken'[p] - Len(blk) = base
          BY <1>7, <1>11, <2>1
        <5>2. \A i \in 1..Len(blk) : blk[i] = Stream(q)[base + i]
          BY <1>13, <1>14
        <5> QED
          BY <1>15, <3>2, <5>1, <5>2 DEF Copied
      <4>5. B <= taken'[p]
        BY <1>7, <1>11, <2>1
      <4> QED
        BY <1>4, <2>1, <2>2, <3>2, <4>1, <4>2, <4>3, <4>4, <4>5 DEF Filled
    <3>9. Receiver(p)'
      BY <1>15, <3>2, <3>8 DEF Receiver
    <3>10. Undisturbed(q)
      BY <1>4, <1>15, <2>7, <3>3 DEF Undisturbed
    <3>11. PartyInv(p)' /\ PartyInv(q)'
      BY <1>18, <1>20, <2>6, <3>6, <3>7, <3>9, <3>10 DEF PartyInv
    <3> QED
      BY <1>5, <3>4, <3>11, Combine
  <2>9. CASE n # want[p]
    <3>1. /\ rbuf' = [rbuf EXCEPT ![p] = <<>>] /\ rptr' = rptr
          /\ pc' = pc /\ fsm' = fsm /\ item' = item
      BY <2>3, <2>9
    <3>2. /\ rbuf'[p] = <<>> /\ rbuf'[q] = rbuf[q] /\ Len(rbuf'[p]) = 0
          /\ rbuf' \in [Party -> Seq(Nat)]
      BY <1>0, <1>6, <3>1
    <3>3. TypeOK'
      BY <1>4, <1>16, <2>7, <3>1, <3>2 DEF IInv, TypeOK
    <3>4. Past(p)' = Past(p) /\ Receiving(p)' = Receiving(p)
      BY <3>1 DEF Past, Receiving
    <3>5. AtItem(p)'
      BY <1>2, <1>4, <3>1, <3>4 DEF AtItem
    <3>6. Sender(p)'
      BY <1>2, <1>4, <1>15, <3>1, <3>4 DEF Sender
    <3>7. Filling(p)'
      <4>1. n = B /\ want'[p] = want[p] - B /\ want[p] > B
        BY <1>7, <2>2, <2>7, <2>9
      <4>2. (taken'[p] - Len(rbuf'[p])) % B = 0
        <5>1. (base + B) % B = 0
          BY <1>8, <1>11, WholeAdd
        <5>2. taken'[p] - 0 = base + B
          BY <1>15, <2>1
        <5> QED
          BY <3>2, <5>1, <5>2
      <4>3. taken'[p] - Len(rbuf'[p]) + want'[p] = pos[q][kk + 1]
        <5>1. base + want[p] = pos[q][kk + 1]
          BY <1>8 DEF base
        <5>2. (base + B) - 0 + (want[p] - B) = base + want[p]
          BY <1>7, <1>11
        <5> QED
          BY <2>1, <3>2, <4>1, <5>1, <5>2
      <4>4. Len(rcvd'[p]) + want'[p] = cnt[q][kk + 1]
        <5>1. Len(rcvd[p]) + n + (want[p] - n) = Len(rcvd[p]) + want[p]
          <6>1. Len(rcvd[p]) \in Nat /\ want[p] \in Nat /\ n \in Nat
            BY <1>7, <2>2
          <6> QED
            BY ONLY <6>1
        <5> QED
          BY <1>8, <2>6, <2>7, <5>1
      <4>5. want'[p] > 0 /\ want'[p] <= script[kk].len
        <5>1. script[kk].len \in Nat
          BY <1>17, InvProtocol, ItemTyped
        <5> QED
          BY <1>7, <1>8, <4>1, <5>1, SMTT(20)
      <4>6. Copied(p)'
        BY <3>2 DEF Copied
      <4>7. Len(rbuf'[p]) < B /\ Len(rbuf'[p]) <= taken'[p]
        BY <1>7, <1>15, <3>2
      <4> QED
        BY <1>4, <3>1, <4>2, <4>3, <4>4, <4>5, <4>6, <4>7 DEF Filling
    <3>8. Receiver(p)'
      BY <1>1, <1>2, <1>15, <3>1, <3>7 DEF Receiver
    <3>9. Undisturbed(q)
      BY <1>4, <1>15, <2>7, <3>1, <3>2 DEF Undisturbed
    <3>10. PartyInv(p)' /\ PartyInv(q)'
      BY <1>18, <1>20, <2>6, <3>5, <3>6, <3>8, <3>9 DEF PartyInv
    <3> QED
      BY <1>5, <3>3, <3>10, Combine
  <2> QED
    BY <2>8, <2>9
<1> QED
  BY <1>21, <1>22

-----------------------------------------------------------------------------
(* The invariant holds *)

LEMMA InitInv == ASSUME Init PROVE IInv
<1>1. B \in Nat /\ B > 0 /\ 0 % B = 0 /\ 0 \in Nat /\ B \in 0..B
  <2>1. B \in Nat /\ B > 0
    BY ChannelAssumption
  <2>2. 0 = 0 * B + 0 /\ 0 \in 0..(B-1)
    BY <2>1
  <2>3. 0 % B = 0
    BY <2>2, ModUnique
  <2> QED
    BY <2>1, <2>3
<1>2. script = <<>> /\ Len(script) = 0 /\ script \in Seq(Item)
  BY DEF Init
<1>3. /\ <<0>> \in Seq(Nat) /\ Len(<<0>>) = 1 /\ <<0>>[1] = 0
      /\ <<>> \in Seq(Nat) /\ <<>> \o <<>> = <<>> /\ Len(<<>>) = 0
  OBVIOUS
<1>4. /\ [i \in 1..B |-> Junk] \in Seq(Nat)
      /\ Len([i \in 1..B |-> Junk]) = B
  BY <1>1 DEF Junk
<1>5. TypeOK
  <2>1. /\ pos \in [Party -> Seq(Nat)] /\ cnt \in [Party -> Seq(Nat)]
        /\ sbuf \in [Party -> Seq(Nat)] /\ out \in [Party -> Seq(Nat)]
        /\ rcvd \in [Party -> Seq(Nat)]
    BY <1>3 DEF Init
  <2>2. /\ rbuf \in [Party -> Seq(Nat)] /\ rptr \in [Party -> 0..B]
    BY <1>1, <1>4 DEF Init
  <2>3. /\ pushed \in [Party -> Nat] /\ taken \in [Party -> Nat] /\ want \in [Party -> Nat]
        /\ nsent \in [Party -> Nat] /\ item \in [Party -> Nat \ {0}]
        /\ fsm \in [Party -> 0..2] /\ alive \in [Party -> BOOLEAN]
    BY DEF Init
  <2>4. pc \in [Party -> {"run", "fwrite", "fflush", "turn", "fread", "fclose", "closed"}]
    BY DEF Init
  <2> QED
    BY <1>2, <2>1, <2>2, <2>3, <2>4 DEF TypeOK
<1>6. \A q \in Party : /\ Len(pos[q]) = 1 /\ Len(cnt[q]) = 1
                       /\ pos[q][1] = 0 /\ cnt[q][1] = 0
  BY <1>3 DEF Init
<1>7. Layout /\ CloseIsLast
  BY <1>2, <1>6 DEF Layout, CloseIsLast
<1>8. Monotone
  <2>1. \A i \in 1..Len(script) + 1 : i = 1
    BY <1>2
  <2> QED
    BY <1>6, <2>1 DEF Monotone
<1>9. ASSUME NEW p \in Party PROVE PartyInv(p)
  <2>1. /\ item[p] = 1 /\ pc[p] = "run" /\ fsm[p] = 0 /\ sbuf[p] = <<>> /\ out[p] = <<>>
        /\ pushed[p] = 0 /\ taken[p] = 0 /\ rptr[p] = B /\ want[p] = 0 /\ nsent[p] = 0
        /\ rcvd[p] = <<>> /\ rbuf[p] = [i \in 1..B |-> Junk]
    BY DEF Init
  <2>2. Peer(p) \in Party /\ pushed[Peer(p)] = 0
    BY PeerFacts DEF Init
  <2>3. ~Receiving(p) /\ Past(p) = 1 /\ Stream(p) = <<>>
    BY <1>3, <2>1 DEF Receiving, Past, Stream
  <2>4. AtItem(p)
    BY <1>2, <2>1, <2>3 DEF AtItem
  <2>5. Sender(p)
    BY <1>1, <1>3, <1>6, <2>1, <2>3 DEF Sender
  <2>6. Content(p)
    BY <1>2 DEF Content
  <2>7. Filled(p)
    <3>1. 0 - B + B = 0 /\ ~(B < B)
      BY <1>1
    <3> QED
      BY <1>1, <1>3, <1>4, <1>6, <2>1, <2>2, <3>1 DEF Filled
  <2>8. Receiver(p)
    BY <2>1, <2>2, <2>7 DEF Receiver
  <2>9. Delivered(p)
    BY <2>1 DEF Delivered
  <2> QED
    BY <2>4, <2>5, <2>6, <2>8, <2>9 DEF PartyInv
<1> QED
  BY <1>5, <1>7, <1>8, <1>9 DEF IInv

LEMMA StutterKeeps == ASSUME IInv, UNCHANGED vars PROVE IInv'
<1>1. /\ UNCHANGED <<protocol, item, fsm, sender, receiver, pc, pushed, alive>>
  BY DEF vars
<1>2. /\ pushed \in [Party -> Nat] /\ alive \in [Party -> BOOLEAN]
      /\ pc \in [Party -> {"run", "fwrite", "fflush", "turn", "fread", "fclose", "closed"}]
  BY DEF IInv, TypeOK
<1> QED
  BY <1>1, <1>2, WireFacts, QuietKeeps

LEMMA NextKeeps == ASSUME IInv, [Next]_vars PROVE IInv'
<1>1. ASSUME NEW p \in Party, Send(p) PROVE IInv'
  BY <1>1, SendKeeps
<1>2. ASSUME NEW p \in Party, Recv(p) PROVE IInv'
  BY <1>2, RecvKeeps
<1>3. ASSUME NEW p \in Party, Turn(p) PROVE IInv'
  BY <1>3, TurnKeeps
<1>4. ASSUME NEW p \in Party, Flush(p) PROVE IInv'
  BY <1>4, FlushKeeps
<1>5. ASSUME NEW p \in Party, Push(p) PROVE IInv'
  BY <1>5, PushKeeps
<1>6. ASSUME NEW p \in Party, Return(p) PROVE IInv'
  BY <1>6, ReturnKeeps
<1>7. ASSUME NEW p \in Party, Turned(p) PROVE IInv'
  BY <1>7, TurnedKeeps
<1>8. ASSUME NEW p \in Party, Fread(p) PROVE IInv'
  BY <1>8, FreadKeeps
<1>9. ASSUME NEW p \in Party, BrokenPipe(p) PROVE IInv'
  BY <1>9, BrokenPipeKeeps
<1>10. ASSUME NEW p \in Party, Crash(p) PROVE IInv'
  BY <1>10, CrashKeeps
<1>11. ASSUME NEW p \in Party, Spin(p) PROVE IInv'
  BY <1>11, StutterKeeps DEF Spin
<1>12. CASE Terminated
  BY <1>12, StutterKeeps DEF Terminated
<1>13. CASE UNCHANGED vars
  BY <1>13, StutterKeeps
<1> QED
  BY <1>1, <1>2, <1>3, <1>4, <1>5, <1>6, <1>7, <1>8, <1>9, <1>10, <1>11, <1>12, <1>13
     DEF Next, PartyStep

THEOREM Invariance == Spec => []IInv
<1>1. Init => IInv
  BY InitInv
<1>2. IInv /\ [Next]_vars => IInv'
  BY NextKeeps
<1> QED
  BY <1>1, <1>2, PTL DEF Spec

THEOREM TypeCorrect == Spec => []TypeOK
<1>1. IInv => TypeOK
  BY DEF IInv
<1> QED
  BY <1>1, Invariance, PTL

-----------------------------------------------------------------------------
(* What the invariant says *)

(* A receiver whose data ends where its peer's stream is has no more data  *)
(* than its peer has sent, even if it is ahead in the protocol.            *)
LEMMA CountBelow ==
  ASSUME ProtocolInv, NEW q \in Party,
         NEW i \in 1..Len(script) + 1, NEW j \in 1..Len(script) + 1,
         pos[q][j] <= pos[q][i]
  PROVE  cnt[q][j] <= cnt[q][i]
<1>1. /\ pos[q][i] \in Nat /\ cnt[q][i] \in Nat
      /\ pos[q][j] \in Nat /\ cnt[q][j] \in Nat
  BY PosTyped
<1>2. /\ i <= j => pos[q][i] + cnt[q][j] <= pos[q][j] + cnt[q][i]
      /\ j <= i => cnt[q][j] <= cnt[q][i]
  BY DEF ProtocolInv, Monotone
<1>3. i <= j \/ j <= i
  OBVIOUS
<1> QED
  BY ONLY <1>1, <1>2, <1>3, pos[q][j] <= pos[q][i]

LEMMA InvInOrder == ASSUME IInv PROVE InOrder
<1>1. SUFFICES ASSUME NEW p \in Party
               PROVE  Len(rcvd[p]) <= nsent[Peer(p)]
  BY DEF InOrder, IInv, PartyInv, Delivered
<1> DEFINE q == Peer(p)
           N == Len(script) + 1
<1>2. q \in Party /\ Peer(q) = p
  BY PeerFacts
<1>3. /\ Past(q) \in 1..N /\ item[p] \in 1..N
      /\ Len(Stream(q)) = pos[q][Past(q)]
      /\ nsent[q] = cnt[q][Past(q)]
  BY <1>2, PastBound DEF IInv, PartyInv, Sender
<1>4. /\ taken[p] \in Nat /\ taken[p] <= pos[q][Past(q)]
  <2>1. /\ taken[p] \in Nat /\ pushed[q] \in Nat /\ Len(out[q]) \in Nat
        /\ taken[p] <= pushed[q] /\ pushed[q] <= Len(out[q])
    BY <1>2, WireFacts
  <2>2. Len(Stream(q)) \in Nat /\ Len(out[q]) <= Len(Stream(q))
    BY <1>2, StreamTyped DEF IInv
  <2>3. taken[p] <= Len(Stream(q))
    BY ONLY <2>1, <2>2
  <2> QED
    BY <1>3, <2>1, <2>3
<1>5. Receiver(p) /\ AtItem(p)
  BY DEF IInv, PartyInv
<1>6. /\ Len(rcvd[p]) \in Nat /\ want[p] \in Nat /\ Len(rbuf[p]) \in Nat
      /\ rptr[p] \in 0..B /\ B \in Nat
  BY ChannelAssumption DEF IInv, TypeOK
<1>7. /\ pos[q][Past(q)] \in Nat /\ cnt[q][Past(q)] \in Nat
      /\ pos[q][item[p]] \in Nat /\ cnt[q][item[p]] \in Nat
  BY <1>2, <1>3, InvProtocol, PosTyped
<1>8. CASE pc[p] # "fread"
  <2>1. /\ taken[p] - B + rptr[p] = pos[q][item[p]]
        /\ Len(rcvd[p]) = cnt[q][item[p]]
    BY <1>5, <1>8 DEF Receiver, Filled
  <2>2. pos[q][item[p]] <= pos[q][Past(q)]
    BY ONLY <1>4, <1>6, <1>7, <2>1
  <2>3. cnt[q][item[p]] <= cnt[q][Past(q)]
    BY <1>2, <1>3, <2>2, InvProtocol, CountBelow
  <2> QED
    BY <1>3, <2>1, <2>3
<1>9. CASE pc[p] = "fread"
  <2> DEFINE k == item[p]
  <2>1. /\ k \in 1..Len(script) /\ k + 1 \in 1..N /\ script[k].from = q
    BY <1>2, <1>3, <1>5, <1>9, PastBound DEF AtItem, Receiving
  <2>2. PICK len \in Nat : len = script[k].len
    BY <2>1, InvProtocol, ItemTyped
  <2>3. pos[q][k + 1] = pos[q][k] + len /\ cnt[q][k + 1] = cnt[q][k] + len
    BY <1>2, <2>1, <2>2 DEF IInv, Layout
  <2>4. /\ Len(rbuf[p]) <= taken[p] /\ want[p] > 0 /\ want[p] <= len
        /\ taken[p] - Len(rbuf[p]) + want[p] = pos[q][k + 1]
        /\ Len(rcvd[p]) + want[p] = cnt[q][k + 1]
    BY <1>5, <1>9, <2>2 DEF Receiver, Filling
  <2>5. CASE k + 1 <= Past(q)
    <3>1. cnt[q][k + 1] <= cnt[q][Past(q)]
      BY <1>2, <1>3, <2>1, <2>5 DEF IInv, Monotone
    <3>2. Len(rcvd[p]) + want[p] <= cnt[q][Past(q)]
      BY <2>4, <3>1
    <3>3. Len(rcvd[p]) <= cnt[q][Past(q)]
      BY ONLY <1>6, <1>7, <3>2
    <3> QED
      BY <1>3, <3>3
  <2>6. CASE Past(q) <= k
    <3>1. pos[q][Past(q)] <= pos[q][k]
      BY <1>2, <1>3, <2>1, <2>6 DEF IInv, Monotone
    <3>2. taken[p] - Len(rbuf[p]) + want[p] = pos[q][k] + len
      BY <2>3, <2>4
    <3>3. want[p] = len /\ pos[q][k] = pos[q][Past(q)]
      <4>1. /\ taken[p] \in Nat /\ Len(rbuf[p]) \in Nat /\ want[p] \in Nat /\ len \in Nat
            /\ pos[q][k] \in Nat /\ pos[q][Past(q)] \in Nat
            /\ want[p] <= len /\ taken[p] <= pos[q][Past(q)]
        BY <1>4, <1>6, <1>7, <2>4
      <4>2. pos[q][k] + len <= taken[p] + want[p]
        BY ONLY <3>2, <4>1
      <4>3. len <= want[p]
        BY ONLY <3>1, <4>1, <4>2
      <4>4. want[p] = len
        BY ONLY <4>1, <4>3
      <4>5. pos[q][k] <= pos[q][Past(q)]
        BY ONLY <4>1, <4>2, <4>4
      <4> QED
        BY ONLY <3>1, <4>1, <4>4, <4>5
    <3>4. Len(rcvd[p]) = cnt[q][k]
      <4>1. Len(rcvd[p]) + len = cnt[q][k] + len
        BY <2>3, <2>4, <3>3
      <4>2. Len(rcvd[p]) \in Nat /\ cnt[q][k] \in Nat /\ len \in Nat
        BY <1>6, <1>7
      <4> QED
        BY ONLY <4>1, <4>2
    <3>5. pos[q][k] <= pos[q][Past(q)]
      BY <1>7, <3>3
    <3>6. cnt[q][k] <= cnt[q][Past(q)]
      BY <1>2, <1>3, <3>5, InvProtocol, CountBelow
    <3> QED
      BY <1>3, <3>4, <3>6
  <2> QED
    <3>1. k \in Nat /\ Past(q) \in Nat
      BY <1>3
    <3>2. k + 1 <= Past(q) \/ Past(q) <= k
      BY ONLY <3>1
    <3> QED
      BY <2>5, <2>6, <3>2
<1> QED
  BY <1>8, <1>9

LEMMA InvWaitsFlushed == ASSUME IInv PROVE WaitsFlushed
  BY DEF WaitsFlushed, IInv, PartyInv, Sender, Receiving

LEMMA Squeeze == ASSUME NEW a \in Nat, NEW b \in Nat, NEW c \in Nat, a + b <= c, c <= a
  PROVE  c = a /\ b = 0
  OBVIOUS

(* p is closed: it has taken all its peer wrote, and leaves what it waits  *)
(* for.                                                                    *)
LEMMA InvCloseIsClean == ASSUME IInv PROVE CloseIsClean
<1>1. SUFFICES ASSUME NEW p \in Party, alive[p], pc[p] = "closed"
               PROVE  /\ sbuf[Peer(p)] = <<>>
                      /\ taken[p] = Len(out[Peer(p)])
                      /\ pc[Peer(p)] = "fread" => taken[Peer(p)] < pushed[p]
  BY DEF CloseIsClean
<1> DEFINE q == Peer(p)
           N == Len(script) + 1
<1>2. q \in Party /\ Peer(q) = p
  BY PeerFacts
<1>3. item[p] = N /\ fsm[p] = 0 /\ Past(p) = N /\ ~Receiving(p)
  BY <1>1 DEF IInv, PartyInv, AtItem, Past, Receiving
<1>4. /\ taken[p] \in Nat /\ pushed[q] \in Nat /\ Len(out[q]) \in Nat
      /\ taken[p] <= pushed[q] /\ pushed[q] <= Len(out[q])
  BY <1>2, WireFacts
<1>5. /\ Len(Stream(q)) \in Nat /\ Len(sbuf[q]) \in Nat
      /\ Len(Stream(q)) = Len(out[q]) + Len(sbuf[q])
  BY <1>2, StreamTyped DEF IInv
<1>6. Len(Stream(q)) = pos[q][Past(q)] /\ Past(q) \in 1..N /\ N \in 1..N
  BY <1>2, PastBound
<1>7. pos[q][Past(q)] <= pos[q][N] /\ pos[q][N] \in Nat
  <2>1. Past(q) <= N
    BY <1>6
  <2> QED
    BY <1>2, <1>6, <2>1, InvProtocol, PosTyped DEF IInv, Monotone
<1>8. taken[p] = pos[q][N]
  <2>1. Filled(p)
    BY <1>1 DEF IInv, PartyInv, Receiver
  <2>2. rptr[p] \in 0..B /\ B \in Nat
    BY ChannelAssumption DEF IInv, TypeOK
  <2>3. taken[p] - B + rptr[p] = pos[q][N] /\ ~(rptr[p] < B)
    BY <1>3, <2>1 DEF Filled
  <2> QED
    BY ONLY <1>4, <2>2, <2>3
<1>9. taken[p] = Len(out[q]) /\ Len(sbuf[q]) = 0
  <2>1. Len(out[q]) + Len(sbuf[q]) <= taken[p]
    BY <1>5, <1>6, <1>7, <1>8
  <2>2. Len(out[q]) \in Nat /\ Len(sbuf[q]) \in Nat /\ taken[p] \in Nat
    BY <1>4, <1>5
  <2>3. taken[p] <= Len(out[q])
    BY ONLY <1>4
  <2> QED
    BY ONLY <2>1, <2>2, <2>3, Squeeze
<1>10. sbuf[q] = <<>>
  <2>1. sbuf[q] \in Seq(Nat)
    BY <1>2 DEF IInv, TypeOK
  <2> QED
    BY <1>9, <2>1
<1>11. ASSUME pc[q] = "fread" PROVE taken[q] < pushed[p]
  <2>1. /\ pushed[p] = Len(out[p]) /\ sbuf[p] = <<>> /\ Len(out[p]) % B = 0
    BY <1>1, <1>3 DEF IInv, PartyInv, Sender
  <2>2. Len(Stream(p)) = pos[p][N]
    BY <1>3, PastBound
  <2>3. /\ Len(Stream(p)) = Len(out[p]) + Len(sbuf[p]) /\ Len(out[p]) \in Nat
    BY StreamTyped DEF IInv
  <2>4. pushed[p] = pos[p][N] /\ pushed[p] \in Nat /\ pushed[p] % B = 0
    <3>1. Len(sbuf[p]) = 0
      BY <2>1
    <3> QED
      BY <2>1, <2>2, <2>3, <3>1
  <2>5. Filling(q) /\ item[q] \in 1..Len(script)
    BY <1>2, <1>11, PastBound DEF IInv, PartyInv, Receiver, AtItem, Receiving
  <2>6. /\ Len(rbuf[q]) < B /\ Len(rbuf[q]) <= taken[q]
        /\ (taken[q] - Len(rbuf[q])) % B = 0
        /\ want[q] > 0
        /\ taken[q] - Len(rbuf[q]) + want[q] = pos[p][item[q] + 1]
    BY <1>2, <2>5 DEF Filling
  <2>7. pos[p][item[q] + 1] <= pos[p][N]
    <3>1. item[q] + 1 \in 1..N /\ item[q] + 1 <= N
      BY <2>5
    <3> QED
      BY <1>6, <3>1 DEF IInv, Monotone
  <2>8. /\ taken[q] \in Nat /\ want[q] \in Nat /\ Len(rbuf[q]) \in Nat /\ B \in Nat
        /\ taken[q] <= pushed[p]
    <3>1. want[q] \in Nat /\ Len(rbuf[q]) \in Nat /\ B \in Nat
      BY <1>2, ChannelAssumption DEF IInv, TypeOK
    <3> QED
      BY <1>2, <3>1, WireFacts
  <2>9. PICK base \in Nat : base = taken[q] - Len(rbuf[q])
    BY <2>6, <2>8
  <2>10. base % B = 0 /\ base < pushed[p]
    <3>1. base + want[q] <= pushed[p]
      BY <2>4, <2>6, <2>7, <2>9
    <3> QED
      BY <2>6, <2>4, <2>8, <2>9, <3>1
  <2>11. SUFFICES ASSUME ~(taken[q] < pushed[p]) PROVE FALSE
    OBVIOUS
  <2>12. pushed[p] < base + B /\ base < pushed[p] + B
    BY ONLY <2>4, <2>6, <2>8, <2>9, <2>10, <2>11, SMTT(20)
  <2>13. base = pushed[p]
    BY <2>4, <2>10, <2>12, WholeClose
  <2> QED
    BY <2>4, <2>10, <2>13
<1> QED
  BY <1>9, <1>10, <1>11

-----------------------------------------------------------------------------
(* What a step may do *)

LEMMA NobodyDies == ASSUME IInv, NoBrokenPipe, [Next]_vars PROVE NoBrokenPipe'
<1>1. CASE MayCrash
  BY <1>1 DEF NoBrokenPipe
<1>2. CASE ~MayCrash
  <2>1. \A p \in Party : alive[p]
    BY <1>2 DEF NoBrokenPipe
  <2>2. ASSUME NEW p \in Party, BrokenPipe(p) PROVE FALSE
    <3>1. Peer(p) \in Party /\ Peer(Peer(p)) = p
      BY PeerFacts
    <3>2. pc[Peer(p)] = "closed" /\ alive[Peer(p)]
      BY <2>1, <2>2, <3>1 DEF BrokenPipe, Gone
    <3>3. taken[Peer(p)] = Len(out[p])
      BY <3>1, <3>2, InvCloseIsClean DEF CloseIsClean
    <3>4. /\ pushed[p] \in Nat /\ Len(out[p]) \in Nat
          /\ pushed[p] <= Len(out[p]) /\ taken[Peer(p)] <= pushed[p]
      BY WireFacts
    <3>5. ~(Len(out[p]) - pushed[p] > 0)
      BY ONLY <3>3, <3>4
    <3>6. Len(out[p]) - pushed[p] > StdioCap \/ Len(out[p]) - pushed[p] > 0
      BY <2>2 DEF BrokenPipe, Writing, Pending
    <3>7. StdioCap \in Nat
      BY ChannelAssumption
    <3> QED
      BY ONLY <3>4, <3>5, <3>6, <3>7
  <2>3. ASSUME NEW p \in Party, Crash(p) PROVE FALSE
    BY <1>2, <2>3 DEF Crash
  <2>4. alive' = alive
    <3>1. ASSUME NEW p \in Party,
                 Send(p) \/ Recv(p) \/ Turn(p) \/ Flush(p) \/ Push(p) \/ Return(p)
                   \/ Turned(p) \/ Fread(p)
          PROVE  alive' = alive
      BY <3>1 DEF Send, Recv, Turn, Flush, Push, Return, Turned, Fread
    <3>2. ASSUME NEW p \in Party, Spin(p) PROVE alive' = alive
      BY <3>2 DEF Spin, vars
    <3>3. Terminated \/ UNCHANGED vars => alive' = alive
      BY DEF Terminated, vars
    <3> QED
      BY <2>2, <2>3, <3>1, <3>2, <3>3 DEF Next, PartyStep
  <2> QED
    BY <2>1, <2>4 DEF NoBrokenPipe
<1> QED
  BY <1>1, <1>2

(* recv_data returns as many bytes as it moves its pointer. *)
LEMMA RecvDataLength ==
  ASSUME IInv, NEW p \in Party, pc[p] # "fread", NEW n \in Nat, RecvData(p, n)
  PROVE  /\ Len(rcvd'[p]) \in Nat /\ Len(rcvd[p]) \in Nat
         /\ rptr'[p] \in Nat /\ rptr[p] \in Nat
         /\ rptr[p] <= rptr'[p]
         /\ Len(rcvd'[p]) = Len(rcvd[p]) + (rptr'[p] - rptr[p])
         /\ \A r \in Party : r # p => rcvd'[r] = rcvd[r] /\ rptr'[r] = rptr[r]
<1> DEFINE k == IF n <= B - rptr[p] THEN n ELSE B - rptr[p]
<1>1. /\ rcvd' = [rcvd EXCEPT ![p] = @ \o SubSeq(rbuf[p], rptr[p] + 1, rptr[p] + k)]
      /\ rptr' = [rptr EXCEPT ![p] = @ + k]
  BY DEF RecvData
<1>2. /\ rcvd \in [Party -> Seq(Nat)] /\ rptr \in [Party -> 0..B]
      /\ rbuf[p] \in Seq(Nat) /\ rcvd[p] \in Seq(Nat) /\ B \in Nat /\ rptr[p] \in 0..B
  BY ChannelAssumption DEF IInv, TypeOK
<1>3. Len(rbuf[p]) = B
  BY DEF IInv, PartyInv, Receiver, Filled
<1>4. k \in Nat /\ rptr[p] \in Nat /\ rptr[p] + k <= B
  BY ONLY <1>2, n \in Nat
<1> HIDE DEF k
<1>5. /\ SubSeq(rbuf[p], rptr[p] + 1, rptr[p] + k) \in Seq(Nat)
      /\ Len(SubSeq(rbuf[p], rptr[p] + 1, rptr[p] + k)) = k
  <2>1. /\ rptr[p] \in Nat /\ rptr[p] + k \in Nat /\ rptr[p] <= rptr[p] + k
        /\ rptr[p] + k <= Len(rbuf[p]) /\ (rptr[p] + k) - rptr[p] = k
    BY <1>3, <1>4
  <2> QED
    BY <1>2, <2>1, SubSeqFacts
<1>6. rcvd'[p] = rcvd[p] \o SubSeq(rbuf[p], rptr[p] + 1, rptr[p] + k)
  BY <1>1, <1>2
<1>7. rptr'[p] = rptr[p] + k
  BY <1>1, <1>2
<1>8. /\ Len(rcvd'[p]) \in Nat /\ Len(rcvd[p]) \in Nat
      /\ Len(rcvd'[p]) = Len(rcvd[p]) + k
  BY <1>2, <1>5, <1>6, ConcatFacts, SMTT(20)
<1>9. \A r \in Party : r # p => rcvd'[r] = rcvd[r] /\ rptr'[r] = rptr[r]
  BY <1>1, <1>2
<1>10. rptr'[p] \in Nat /\ rptr[p] <= rptr'[p] /\ rptr'[p] - rptr[p] = k
  BY ONLY <1>4, <1>7
<1> QED
  BY <1>4, <1>8, <1>9, <1>10

(* fread never takes bytes back, and completes a block only to deliver.    *)
LEMMA FreadLength ==
  ASSUME IInv, IInv', NEW p \in Party, Fread(p)
  PROVE  /\ Len(rcvd'[p]) \in Nat /\ Len(rcvd[p]) \in Nat
         /\ Len(rcvd[p]) <= Len(rcvd'[p])
         /\ rptr'[p] # rptr[p] => Len(rcvd[p]) < Len(rcvd'[p])
         /\ \A r \in Party : r # p => rcvd'[r] = rcvd[r] /\ rptr'[r] = rptr[r]
<1> DEFINE q == Peer(p)
<1>1. q \in Party
  BY PeerFacts
<1>2. Receiver(p) /\ Receiver(p)' /\ pc[p] = "fread" /\ pos' = pos /\ cnt' = cnt
  BY DEF IInv, PartyInv, Fread, protocol
<1>3. /\ want[p] > 0 /\ Len(rcvd[p]) + want[p] = cnt[q][item[p] + 1]
  BY <1>2 DEF Receiver, Filling
<1>4. /\ Len(rcvd[p]) \in Nat /\ Len(rcvd'[p]) \in Nat /\ want[p] \in Nat
      /\ want'[p] \in Nat
  <2>1. rcvd[p] \in Seq(Nat) /\ want[p] \in Nat
    BY DEF IInv, TypeOK
  <2>2. rcvd'[p] \in Seq(Nat) /\ want'[p] \in Nat
    BY DEF IInv, TypeOK
  <2> QED
    BY <2>1, <2>2
<1>5. \A r \in Party : r # p => rcvd'[r] = rcvd[r] /\ rptr'[r] = rptr[r]
  <2>1. rcvd \in [Party -> Seq(Nat)] /\ rptr \in [Party -> 0..B]
    BY DEF IInv, TypeOK
  <2>2. \/ rcvd' = rcvd
        \/ \E s : rcvd' = [rcvd EXCEPT ![p] = s]
    BY DEF Fread
  <2>3. \/ rptr' = rptr
        \/ \E m : rptr' = [rptr EXCEPT ![p] = m]
    BY DEF Fread
  <2> QED
    BY ONLY <2>1, <2>2, <2>3
<1>6. \/ rcvd' = rcvd /\ rptr' = rptr
      \/ pc'[p] = "fread" /\ item'[p] = item[p] /\ rptr' = rptr /\ want'[p] <= want[p]
      \/ pc'[p] = "run" /\ item'[p] = item[p] + 1
  <2>1. /\ want \in [Party -> Nat] /\ item \in [Party -> Nat \ {0}]
        /\ pc \in [Party -> {"run", "fwrite", "fflush", "turn", "fread", "fclose", "closed"}]
    BY DEF IInv, TypeOK
  <2> DEFINE n == IF want[p] <= B THEN want[p] ELSE B
  <2>2. \/ rcvd' = rcvd /\ rptr' = rptr
        \/ /\ want' = [want EXCEPT ![p] = @ - n]
           /\ pc' = pc /\ item' = item /\ rptr' = rptr
        \/ /\ pc' = [pc EXCEPT ![p] = "run"]
           /\ item' = [item EXCEPT ![p] = @ + 1]
    BY DEF Fread
  <2>3. want[p] \in Nat /\ B \in Nat
    BY <1>4, ChannelAssumption
  <2>4. want[p] - n <= want[p]
    BY ONLY <2>3
  <2> HIDE DEF n
  <2> QED
    BY <1>2, <2>1, <2>2, <2>4
<1>7. CASE rcvd' = rcvd /\ rptr' = rptr
  BY <1>4, <1>5, <1>7
<1>8. CASE pc'[p] = "fread" /\ item'[p] = item[p] /\ rptr' = rptr /\ want'[p] <= want[p]
  <2>1. Len(rcvd'[p]) + want'[p] = cnt[q][item[p] + 1]
    BY <1>2, <1>8 DEF Receiver, Filling
  <2>2. want'[p] <= want[p] /\ Len(rcvd'[p]) + want'[p] = Len(rcvd[p]) + want[p]
    BY <1>3, <1>8, <2>1
  <2>3. Len(rcvd[p]) <= Len(rcvd'[p])
    BY ONLY <1>4, <2>2
  <2> QED
    BY <1>4, <1>5, <1>8, <2>3
<1>9. CASE pc'[p] = "run" /\ item'[p] = item[p] + 1
  <2>1. Len(rcvd'[p]) = cnt[q][item[p] + 1]
    BY <1>2, <1>9 DEF Receiver, Filled
  <2>2. want[p] > 0 /\ Len(rcvd'[p]) = Len(rcvd[p]) + want[p]
    BY <1>3, <2>1
  <2>3. Len(rcvd[p]) < Len(rcvd'[p]) /\ Len(rcvd[p]) <= Len(rcvd'[p])
    BY ONLY <1>4, <2>2
  <2> QED
    BY <1>4, <1>5, <2>3
<1> QED
  BY <1>6, <1>7, <1>8, <1>9

(* The rest of a block after the last message before a change of direction *)
(* is the peer's padding.                                                  *)
LEMMA RestIsPadding ==
  ASSUME IInv, NEW p \in Party, NEW q \in Party, q = Peer(p),
         ProtocolInv', Grows, pc[p] = "run", Stream(q)' = Stream(q),
         item[p] \in 1..Len(script'), script'[item[p]].from # q,
         rptr[p] < B, NEW i \in rptr[p] + 1 .. B
  PROVE  rbuf[p][i] = Junk
<1> DEFINE k == item[p]
<1>1. Filled(p) /\ Receiver(p)
  BY DEF IInv, PartyInv, Receiver
<1>2. /\ Len(rbuf[p]) = B /\ taken[p] % B = 0 /\ rptr[p] > 0
      /\ taken[p] - B + rptr[p] = pos[q][k] /\ B <= taken[p]
      /\ \A j \in 1..Len(rbuf[p]) : rbuf[p][j] = Stream(q)[taken[p] - Len(rbuf[p]) + j]
  BY <1>1 DEF Filled, Copied
<1>3. /\ taken[p] \in Nat /\ rptr[p] \in 0..B /\ B \in Nat
  BY ChannelAssumption DEF IInv, TypeOK
<1>4. k \in 1..Len(script) + 1
  BY PastBound
<1>5. pos'[q][k] = pos[q][k] /\ pos[q][k] \in Nat
  BY <1>4, InvProtocol, PosTyped DEF Grows
<1>6. pos'[q][k + 1] = Round(pos[q][k])
  BY <1>5 DEF ProtocolInv, Layout
<1>7. taken[p] = Round(pos[q][k])
  <2>1. /\ pos[q][k] <= taken[p] /\ taken[p] < pos[q][k] + B
    BY ONLY <1>2, <1>3, <1>5, rptr[p] < B, SMTT(20)
  <2> QED
    BY <1>2, <2>1, <1>3, <1>5, RoundUnique
<1>8. taken[p] <= Len(Stream(q))
  <2>1. /\ pushed[q] \in Nat /\ Len(out[q]) \in Nat /\ Len(Stream(q)) \in Nat
        /\ taken[p] <= pushed[q] /\ pushed[q] <= Len(out[q])
        /\ Len(out[q]) <= Len(Stream(q))
    <3>1. Peer(q) = p
      BY PeerFacts
    <3> QED
      BY <3>1, WireFacts, StreamTyped DEF IInv
  <2> QED
    BY ONLY <1>3, <2>1
<1>9. Content(q)'
  BY ContentGrows
<1>10. PICK x \in Nat : x = taken[p] - B + i
  BY ONLY <1>2, <1>3, i \in rptr[p] + 1 .. B
<1>11. /\ i \in 1..B /\ x <= taken[p] /\ pos[q][k] + 1 <= x
  <2>1. i \in Int /\ rptr[p] + 1 <= i /\ i <= B
    BY ONLY <1>3, i \in rptr[p] + 1 .. B
  <2>2. taken[p] - B + rptr[p] = pos[q][k]
    BY <1>2
  <2>3. i \in 1..B
    BY ONLY <1>3, <2>1
  <2>4. x <= taken[p]
    BY ONLY <1>3, <1>10, <2>1
  <2>5. pos[q][k] + 1 <= x
    BY ONLY <1>3, <1>5, <1>10, <2>1, <2>2
  <2> QED
    BY <2>3, <2>4, <2>5
<1>12. rbuf[p][i] = Stream(q)[x]
  BY <1>2, <1>10, <1>11
<1>13. x \in pos'[q][k] + 1 .. pos'[q][k + 1]
  <2>1. taken[p] = pos'[q][k + 1] /\ pos[q][k] = pos'[q][k]
    BY <1>5, <1>6, <1>7
  <2>2. x \in pos[q][k] + 1 .. taken[p]
    BY ONLY <1>3, <1>5, <1>10, <1>11
  <2> QED
    BY <2>1, <2>2
<1>14. x <= Len(Stream(q)')
  <2>1. Len(Stream(q)) \in Nat
    BY StreamTyped DEF IInv
  <2>2. x <= Len(Stream(q))
    BY ONLY <1>3, <1>8, <1>10, <1>11, <2>1
  <2> QED
    BY <2>2
<1>15. Stream(q)'[x] = Junk
  BY <1>9, <1>13, <1>14 DEF Content
<1> QED
  BY <1>12, <1>15

(* Only a change of direction or a flush moves the pointer to the end of   *)
(* the block without delivering.                                           *)
DropsPadding == \A p \in Party :
  (rptr[p] < B /\ rptr'[p] = B /\ rcvd'[p] = rcvd[p]) =>
    \A i \in rptr[p] + 1 .. B : rbuf[p][i] = Junk

LEMMA OnlyPaddingDropped == ASSUME IInv, [Next]_vars PROVE DropsPadding
<1> SUFFICES ASSUME NEW p \in Party, rptr[p] < B, rptr'[p] = B, rcvd'[p] = rcvd[p],
                    NEW i \in rptr[p] + 1 .. B
             PROVE  rbuf[p][i] = Junk
  BY DEF DropsPadding
<1> DEFINE q == Peer(p)
<1>0. q \in Party /\ q # p /\ rptr[p] \in Nat /\ B \in Nat /\ rptr'[p] # rptr[p]
      /\ rptr \in [Party -> 0..B]
  <2>1. rptr \in [Party -> 0..B] /\ B \in Nat
    BY ChannelAssumption DEF IInv, TypeOK
  <2>2. rptr[p] \in Nat /\ B \in Nat
    BY ONLY <2>1, p \in Party
  <2>3. rptr[p] # B
    BY ONLY <2>2, rptr[p] < B
  <2> QED
    BY <2>1, <2>2, <2>3, PeerFacts
<1>1. IInv'
  BY NextKeeps
<1>2. ASSUME NEW r \in Party, NEW it \in Item, Call(r, it), rptr'[p] = B,
             RecverFlush(r) \/ UNCHANGED rptr, it.from # Peer(r),
             Stream(Peer(r))' = Stream(Peer(r))
      PROVE  rbuf[p][i] = Junk
  <2>1. r = p
    BY <1>0, <1>2 DEF RecverFlush
  <2>2. /\ ProtocolInv' /\ Grows /\ item[p] \in 1..Len(script') /\ script'[item[p]] = it
    BY <1>2, <2>1, CallGrows
  <2>3. pc[p] = "run"
    BY <1>2, <2>1 DEF Call
  <2> QED
    BY <1>0, <1>2, <2>1, <2>2, <2>3, RestIsPadding
<1>3. ASSUME NEW r \in Party, Send(r) PROVE rbuf[p][i] = Junk
  <2>1. PICK it \in Xfer : /\ it.from = r
                           /\ Call(r, it)
                           /\ IF fsm[r] = 1 THEN RecverFlush(r) ELSE UNCHANGED rptr
                           /\ SendData(r, [j \in 1..it.len |-> nsent[r] + j])
    BY <1>3 DEF Send
  <2>2. it \in Item /\ it.from # Peer(r) /\ Peer(r) \in Party
    BY <2>1, PeerFacts DEF Item
  <2>3. Stream(Peer(r))' = Stream(Peer(r))
    <3>1. out'[Peer(r)] = out[Peer(r)] /\ sbuf'[Peer(r)] = sbuf[Peer(r)]
      <4>1. /\ out \in [Party -> Seq(Nat)] /\ sbuf \in [Party -> Seq(Nat)]
            /\ Peer(r) \in Party /\ Peer(r) # r
        BY PeerFacts DEF IInv, TypeOK
      <4>2. \/ out' = out
            \/ \E s : out' = [out EXCEPT ![r] = s]
        BY <2>1 DEF SendData
      <4>3. \E s : sbuf' = [sbuf EXCEPT ![r] = s]
        BY <2>1 DEF SendData
      <4> QED
        BY ONLY <4>1, <4>2, <4>3
    <3> QED
      BY <3>1 DEF Stream
  <2> QED
    BY <1>2, <2>1, <2>2, <2>3
<1>4. ASSUME NEW r \in Party, Flush(r) PROVE rbuf[p][i] = Junk
  <2>1. PICK it \in {Sync, Close} : Call(r, it) /\ SenderFlush(r) /\ RecverFlush(r)
    BY <1>4 DEF Flush
  <2>2. it \in Item /\ it.from # Peer(r) /\ Peer(r) \in Party
    <3>1. Peer(r) \in Party /\ it.from = "NONE"
      BY <2>1, PeerFacts DEF Sync, Close
    <3>2. Peer(r) # "NONE"
      BY <3>1 DEF Party
    <3> QED
      BY <2>1, <3>1, <3>2 DEF Item
  <2>3. Stream(Peer(r))' = Stream(Peer(r))
    <3>1. out'[Peer(r)] = out[Peer(r)] /\ sbuf'[Peer(r)] = sbuf[Peer(r)]
      BY <2>1, <2>2, PeerFacts DEF SenderFlush, IInv, TypeOK
    <3> QED
      BY <3>1 DEF Stream
  <2> QED
    BY <1>2, <2>1, <2>2, <2>3
<1>5. ASSUME NEW r \in Party, NEW n \in Nat, pc[r] # "fread", RecvData(r, n) PROVE FALSE
  <2>1. /\ Len(rcvd'[r]) \in Nat /\ Len(rcvd[r]) \in Nat
        /\ rptr'[r] \in Nat /\ rptr[r] \in Nat /\ rptr[r] <= rptr'[r]
        /\ Len(rcvd'[r]) = Len(rcvd[r]) + (rptr'[r] - rptr[r])
    BY <1>5, RecvDataLength
  <2>2. \A s \in Party : s # r => rptr'[s] = rptr[s]
    BY <1>5, RecvDataLength
  <2>3. r = p
    BY <1>0, <2>2
  <2>4. Len(rcvd'[r]) = Len(rcvd[r]) /\ rptr'[r] # rptr[r]
    BY <1>0, <2>3
  <2> QED
    BY ONLY <2>1, <2>4
<1>6. ASSUME NEW r \in Party, Recv(r) \/ Turned(r) PROVE FALSE
  <2>1. CASE Recv(r)
    <3>1. PICK it \in Xfer : Call(r, it) /\ RecvData(r, it.len)
      BY <2>1 DEF Recv
    <3>2. it.len \in Nat /\ pc[r] # "fread"
      BY <3>1, ItemFacts DEF Item, Call
    <3> QED
      BY <1>5, <3>1, <3>2
  <2>2. CASE Turned(r)
    <3>1. RecvData(r, want[r]) /\ pc[r] # "fread" /\ want[r] \in Nat
      BY <2>2 DEF Turned, IInv, TypeOK
    <3> QED
      BY <1>5, <3>1
  <2> QED
    BY <1>6, <2>1, <2>2
<1>7. ASSUME NEW r \in Party, Fread(r) PROVE FALSE
  <2>1. /\ Len(rcvd'[r]) \in Nat /\ Len(rcvd[r]) \in Nat
        /\ rptr'[r] # rptr[r] => Len(rcvd[r]) < Len(rcvd'[r])
        /\ \A s \in Party : s # r => rptr'[s] = rptr[s]
    BY <1>1, <1>7, FreadLength
  <2>2. r = p
    BY <1>0, <2>1
  <2>3. Len(rcvd[r]) < Len(rcvd'[r]) /\ Len(rcvd'[r]) = Len(rcvd[r])
    BY <1>0, <2>1, <2>2
  <2> QED
    BY ONLY <2>1, <2>3
<1>8. ASSUME NEW r \in Party,
             Turn(r) \/ Push(r) \/ Return(r) \/ BrokenPipe(r) \/ Crash(r) \/ Spin(r)
      PROVE  FALSE
  <2>1. rptr' = rptr
    BY <1>8 DEF Turn, Push, Return, BrokenPipe, Crash, Spin, vars, receiver
  <2> QED
    BY <1>0, <2>1
<1>9. ASSUME Terminated \/ UNCHANGED vars PROVE FALSE
  <2>1. rptr' = rptr
    BY <1>9 DEF Terminated, vars, receiver
  <2> QED
    BY <1>0, <2>1
<1> QED
  BY <1>3, <1>4, <1>6, <1>7, <1>8, <1>9 DEF Next, PartyStep

-----------------------------------------------------------------------------
(* NetChannel implements ByteStream *)

(* Two stretches of the same counting sequence: the longer one extends the *)
(* shorter one by the numbers that follow.                                 *)
LEMMA Extension ==
  ASSUME NEW s \in Seq(Nat), NEW t \in Seq(Nat), Len(s) <= Len(t),
         \A i \in 1..Len(s) : s[i] = i, \A i \in 1..Len(t) : t[i] = i
  PROVE  t = s \o [i \in 1..Len(t) - Len(s) |-> Len(s) + i]
<1> DEFINE e == [i \in 1..Len(t) - Len(s) |-> Len(s) + i]
<1>1. Len(s) \in Nat /\ Len(t) \in Nat /\ Len(t) - Len(s) \in Nat
  OBVIOUS
<1>2. e \in Seq(Nat) /\ Len(e) = Len(t) - Len(s)
      /\ \A i \in 1..Len(e) : e[i] = Len(s) + i
  BY <1>1
<1> HIDE DEF e
<1>3. /\ s \o e \in Seq(Nat) /\ Len(s \o e) = Len(s) + Len(e)
      /\ \A i \in 1..Len(s \o e) : (s \o e)[i] = i
  BY <1>2, DeliverFacts
<1>4. Len(s \o e) = Len(t)
  BY ONLY <1>1, <1>2, <1>3
<1>5. ASSUME NEW i \in 1..Len(t) PROVE t[i] = (s \o e)[i]
  <2>1. i \in 1..Len(s \o e)
    BY <1>4
  <2>2. (s \o e)[i] = i
    BY <1>3, <2>1
  <2> QED
    BY <2>2
<1>6. t = s \o e
  BY <1>3, <1>4, <1>5, SeqEqual
<1> QED
  BY <1>6 DEF e

LEMMA ReceiveStep ==
  ASSUME IInv, IInv', InOrder', NEW p \in Party, UNCHANGED nsent,
         Len(rcvd[p]) <= Len(rcvd'[p]),
         \A r \in Party : r # p => rcvd'[r] = rcvd[r]
  PROVE  Streams!Next
<1> DEFINE n == Len(rcvd'[p]) - Len(rcvd[p])
<1>1. rcvd[p] \in Seq(Nat) /\ rcvd \in [Party -> Seq(Nat)]
  BY DEF IInv, TypeOK
<1>2. rcvd'[p] \in Seq(Nat) /\ rcvd' \in [Party -> Seq(Nat)]
  BY DEF IInv, TypeOK
<1>3. \A i \in 1..Len(rcvd[p]) : rcvd[p][i] = i
  BY DEF IInv, PartyInv, Delivered
<1>4. \A i \in 1..Len(rcvd'[p]) : rcvd'[p][i] = i
  BY DEF IInv, PartyInv, Delivered
<1>5. rcvd'[p] = rcvd[p] \o [i \in 1..n |-> Len(rcvd[p]) + i]
  BY <1>1, <1>2, <1>3, <1>4, Extension
<1>6. Len(rcvd[p]) \in Nat /\ Len(rcvd'[p]) \in Nat
  BY <1>1, <1>2
<1>8. Len(rcvd'[p]) <= nsent[Peer(p)]
  BY DEF InOrder
<1>9. n >= 0 /\ Len(rcvd[p]) + n = Len(rcvd'[p])
  BY ONLY <1>6, Len(rcvd[p]) <= Len(rcvd'[p])
<1>10. rcvd' = [rcvd EXCEPT ![p] = rcvd[p] \o [i \in 1..n |-> Len(rcvd[p]) + i]]
  BY <1>1, <1>2, <1>5
<1> HIDE DEF n
<1>11. Streams!Recv(p, n)
  BY <1>8, <1>9, <1>10 DEF Streams!Recv
<1> QED
  BY <1>11 DEF Streams!Next, n

LEMMA StepRefines == ASSUME IInv, InOrder', [Next]_vars PROVE [Streams!Next]_<<nsent, rcvd>>
<1>1. IInv'
  BY NextKeeps
<1>2. ASSUME NEW p \in Party, Send(p) PROVE Streams!Next
  <2>1. PICK it \in Xfer : nsent' = [nsent EXCEPT ![p] = @ + it.len] /\ rcvd' = rcvd
    BY <1>2 DEF Send
  <2>2. nsent \in [Party -> Nat] /\ it.len \in Nat
    BY ItemFacts DEF IInv, TypeOK, Item
  <2>3. nsent'[p] = nsent[p] + it.len /\ nsent[p] \in Nat
    BY <2>1, <2>2
  <2>4. nsent'[p] - nsent[p] = it.len /\ it.len >= 0
    BY ONLY <2>2, <2>3
  <2>5. Streams!Send(p, nsent'[p] - nsent[p])
    BY <2>1, <2>4 DEF Streams!Send
  <2> QED
    BY <2>5 DEF Streams!Next
<1>3. ASSUME NEW p \in Party, NEW n \in Nat, pc[p] # "fread", RecvData(p, n), UNCHANGED nsent
      PROVE  Streams!Next
  <2>1. /\ Len(rcvd'[p]) \in Nat /\ Len(rcvd[p]) \in Nat
        /\ rptr'[p] \in Nat /\ rptr[p] \in Nat /\ rptr[p] <= rptr'[p]
        /\ Len(rcvd'[p]) = Len(rcvd[p]) + (rptr'[p] - rptr[p])
    BY <1>3, RecvDataLength
  <2>2. \A r \in Party : r # p => rcvd'[r] = rcvd[r]
    BY <1>3, RecvDataLength
  <2>3. Len(rcvd[p]) <= Len(rcvd'[p])
    BY ONLY <2>1
  <2> QED
    BY <1>1, <1>3, <2>2, <2>3, ReceiveStep
<1>4. ASSUME NEW p \in Party, Recv(p) PROVE Streams!Next
  <2>1. PICK it \in Xfer : Call(p, it) /\ RecvData(p, it.len) /\ UNCHANGED nsent
    BY <1>4 DEF Recv, sender
  <2>2. it.len \in Nat /\ pc[p] # "fread"
    BY <2>1, ItemFacts DEF Item, Call
  <2> QED
    BY <1>3, <2>1, <2>2
<1>5. ASSUME NEW p \in Party, Turned(p) PROVE Streams!Next
  <2>1. RecvData(p, want[p]) /\ pc[p] # "fread" /\ want[p] \in Nat /\ UNCHANGED nsent
    BY <1>5 DEF Turned, IInv, TypeOK, sender
  <2> QED
    BY <1>3, <2>1
<1>6. ASSUME NEW p \in Party, Fread(p) PROVE Streams!Next
  <2>1. /\ Len(rcvd[p]) <= Len(rcvd'[p])
        /\ \A r \in Party : r # p => rcvd'[r] = rcvd[r]
    BY <1>1, <1>6, FreadLength
  <2>2. UNCHANGED nsent
    BY <1>6 DEF Fread, sender
  <2> QED
    BY <1>1, <2>1, <2>2, ReceiveStep
<1>7. ASSUME NEW p \in Party,
             Turn(p) \/ Flush(p) \/ Push(p) \/ Return(p) \/ BrokenPipe(p) \/ Crash(p) \/ Spin(p)
      PROVE  UNCHANGED <<nsent, rcvd>>
  BY <1>7 DEF Turn, Flush, Push, Return, BrokenPipe, Crash, Spin, vars, sender, receiver
<1>8. ASSUME Terminated \/ UNCHANGED vars PROVE UNCHANGED <<nsent, rcvd>>
  BY <1>8 DEF Terminated, vars, sender, receiver
<1> QED
  BY <1>2, <1>4, <1>5, <1>6, <1>7, <1>8 DEF Next, PartyStep

-----------------------------------------------------------------------------
(* The theorems, for every block size, stdio and kernel capacity, set of   *)
(* message lengths and number of calls.                                    *)

(* What recv_data returns is what the peer's send_data was given, from the *)
(* first byte on.                                                          *)
THEOREM ChannelInOrder == Spec => []InOrder
<1>1. IInv => InOrder
  BY InvInOrder
<1> QED
  BY <1>1, Invariance, PTL

(* A party that waits in recv_data has nothing left to send. *)
THEOREM ChannelWaitsFlushed == Spec => []WaitsFlushed
<1>1. IInv => WaitsFlushed
  BY InvWaitsFlushed
<1> QED
  BY <1>1, Invariance, PTL

(* A destructor that is done has read all its peer writes and has written  *)
(* all its peer reads.                                                     *)
THEOREM ChannelCloseIsClean == Spec => []CloseIsClean
<1>1. IInv => CloseIsClean
  BY InvCloseIsClean
<1> QED
  BY <1>1, Invariance, PTL

(* Unless somebody is killed, nobody writes to a closed socket. *)
THEOREM ChannelNoBrokenPipe == Spec => []NoBrokenPipe
<1>1. Init => NoBrokenPipe
  BY DEF Init, NoBrokenPipe
<1>2. IInv /\ NoBrokenPipe /\ [Next]_vars => NoBrokenPipe'
  BY NobodyDies
<1> QED
  BY <1>1, <1>2, Invariance, PTL DEF Spec

(* What RecverSubChannel::flush throws away is never data. *)
THEOREM ChannelDropsOnlyPadding == Spec => DropsOnlyPadding
<1>1. IInv /\ [Next]_vars => DropsPadding
  BY OnlyPaddingDropped
<1>2. Spec => [][DropsPadding]_vars
  BY <1>1, Invariance, PTL DEF Spec
<1> QED
  BY <1>2 DEF DropsOnlyPadding, DropsPadding

(* The two ends with their buffers, padding and FILEs are two byte streams.*)
THEOREM ChannelImplementsByteStream == Spec => ImplementsByteStream
<1>1. Init => Streams!Init
  BY DEF Init, Streams!Init
<1>2. IInv /\ InOrder' /\ [Next]_vars => [Streams!Next]_<<nsent, rcvd>>
  BY StepRefines
<1>3. Spec => Streams!Init /\ [][Streams!Next]_<<nsent, rcvd>>
  BY <1>1, <1>2, Invariance, ChannelInOrder, PTL DEF Spec
<1> QED
  BY <1>3 DEF ImplementsByteStream, Streams!Spec, Streams!vars
=============================================================================
