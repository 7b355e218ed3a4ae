----------------------------- MODULE NetChannel -----------------------------
(***************************************************************************)
(* HighSpeedNetIO (emp-tool/io/highspeed_net_io_channel.h): the channel    *)
(* the two parties of a computation talk through.  Each direction is a TCP *)
(* stream with its own block buffer at each end.                           *)
(*                                                                         *)
(*  - send_data gathers small messages in buf and sends an oversize one    *)
(*    directly; nothing marks where a message ends;                        *)
(*  - recv_data reads whole blocks of B bytes and serves messages from its *)
(*    buffer;                                                              *)
(*  - FSM remembers the last direction.  On a change of direction the      *)
(*    former sender pads its stream to a multiple of B and the former      *)
(*    receiver throws away the rest of its block, so both ends agree again *)
(*    on where the next message begins although neither tells the other.   *)
(*                                                                         *)
(* The parties run the same data-oblivious protocol: the k-th call of one  *)
(* is the k-th call of the other.  script is that protocol; whichever      *)
(* party is ahead decides the next call and the other one has to follow.   *)
(*                                                                         *)
(* A data byte is its ordinal among the bytes its party sends; Junk is a   *)
(* byte of padding or of a buffer nobody wrote.                            *)
(*                                                                         *)
(* An operator named Bad... is the one after it with a seeded fault; it is *)
(* used nowhere, and shows that the properties notice such a fault.        *)
(***************************************************************************)
EXTENDS Integers, Sequences

CONSTANTS B,         \* NETWORK_BUFFER_SIZE2, the block size
          StdioCap,  \* NETWORK_BUFFER_SIZE: what fwrite may keep in the FILE
          WireCap,   \* bytes the two kernels hold for one direction
          Lens,      \* lengths of messages
          MaxItems,  \* bound: calls before the channel is closed
          MayCrash   \* whether a party may be killed

ASSUME ChannelAssumption == /\ B \in Nat \ {0}
                            /\ StdioCap \in Nat
                            /\ WireCap \in Nat \ {0}
                            /\ Lens \subseteq Nat
                            /\ MaxItems \in Nat
                            /\ MayCrash \in BOOLEAN

Party == {"ALICE", "BOB"}
Peer(p) == IF p = "ALICE" THEN "BOB" ELSE "ALICE"

Xfer == [op : {"xfer"}, from : Party, len : Lens]   \* send_data on one side, recv_data on the other
Sync == [op |-> "flush", from |-> "NONE", len |-> 0]  \* io->flush() on both sides
Close == [op |-> "close", from |-> "NONE", len |-> 0] \* the destructors
Item == Xfer \cup {Sync, Close}

Junk == 0

VARIABLES
  script,   \* the calls agreed so far
  pos, cnt, \* auxiliary: pos[q][k], cnt[q][k] are q's stream offset and
            \*   data byte count that the rules above give before call k
  item,     \* item[p]: the call p is at
  pc,       \* where p is in that call
  fsm,      \* FSM: 0 fresh or flushed, 1 receiving, 2 sending
  sbuf,     \* schannel->buf up to ptr
  out,      \* every byte p has passed to fwrite; its length is counter
  pushed,   \* how many of them have left p's FILE for the kernel
  taken,    \* how many bytes of its peer's stream p has fread
  rbuf,     \* rchannel->buf as far as it is filled
  rptr,     \* rchannel->ptr
  want,     \* remain: what recv_data still has to deliver
  alive,    \* the process of p runs
  nsent,    \* history: data bytes p has passed to send_data
  rcvd      \* history: data bytes p's recv_data has returned

protocol == <<script, pos, cnt>>
sender == <<sbuf, out, nsent>>
receiver == <<taken, rbuf, rptr, want, rcvd>>
vars == <<protocol, item, pc, fsm, sender, pushed, receiver, alive>>

TypeOK ==
  /\ script \in Seq(Item)
  /\ pos \in [Party -> Seq(Nat)]
  /\ cnt \in [Party -> Seq(Nat)]
  /\ item \in [Party -> Nat \ {0}]
  /\ pc \in [Party -> {"run", "fwrite", "fflush", "turn", "fread", "fclose", "closed"}]
  /\ fsm \in [Party -> 0..2]
  /\ sbuf \in [Party -> Seq(Nat)]
  /\ out \in [Party -> Seq(Nat)]
  /\ pushed \in [Party -> Nat]
  /\ taken \in [Party -> Nat]
  /\ rbuf \in [Party -> Seq(Nat)]
  /\ rptr \in [Party -> 0..B]
  /\ want \in [Party -> Nat]
  /\ alive \in [Party -> BOOLEAN]
  /\ nsent \in [Party -> Nat]
  /\ rcvd \in [Party -> Seq(Nat)]

Init ==
  /\ script = <<>>
  /\ pos = [q \in Party |-> <<0>>]
  /\ cnt = [q \in Party |-> <<0>>]
  /\ item = [p \in Party |-> 1]
  /\ pc = [p \in Party |-> "run"]
  /\ fsm = [p \in Party |-> 0]
  /\ sbuf = [p \in Party |-> <<>>]
  /\ out = [p \in Party |-> <<>>]
  /\ pushed = [p \in Party |-> 0]
  /\ taken = [p \in Party |-> 0]
  /\ rbuf = [p \in Party |-> [i \in 1..B |-> Junk]]
  /\ rptr = [p \in Party |-> B]
  /\ want = [p \in Party |-> 0]
  /\ alive = [p \in Party |-> TRUE]
  /\ nsent = [p \in Party |-> 0]
  /\ rcvd = [p \in Party |-> <<>>]

-----------------------------------------------------------------------------
(* The protocol both parties follow. *)

BadPadLen(c) == B - (c % B)   \* a whole block of padding after a whole block
PadLen(c) == IF c % B # 0 THEN B - (c % B) ELSE 0
Round(c) == c + PadLen(c)

Offset(q, it) == LET c == pos[q][Len(pos[q])]
                 IN IF it.from = q THEN c + it.len ELSE Round(c)
Count(q, it) == LET c == cnt[q][Len(cnt[q])]
                IN IF it.from = q THEN c + it.len ELSE c

Decide(it) == /\ \A k \in 1..Len(script) : script[k] # Close
              /\ Len(script) < MaxItems \/ it = Close
              /\ script' = Append(script, it)
              /\ pos' = [q \in Party |-> Append(pos[q], Offset(q, it))]
              /\ cnt' = [q \in Party |-> Append(cnt[q], Count(q, it))]

(* p makes the call it: the one its peer made there, or a new one. *)
Call(p, it) == /\ alive[p]
               /\ pc[p] = "run"
               /\ \/ /\ item[p] <= Len(script)
                     /\ it = script[item[p]]
                     /\ UNCHANGED protocol
                  \/ /\ item[p] = Len(script) + 1
                     /\ Decide(it)

-----------------------------------------------------------------------------
(* SenderSubChannel *)

(* The message overtakes what was gathered before it. *)
BadSendData(p, data) ==
  IF Len(data) <= B - Len(sbuf[p])
  THEN /\ sbuf' = [sbuf EXCEPT ![p] = @ \o data]
       /\ UNCHANGED <<out, pc>>
  ELSE /\ out' = [out EXCEPT ![p] = (@ \o data) \o sbuf[p]]
       /\ sbuf' = [sbuf EXCEPT ![p] = <<>>]
       /\ pc' = [pc EXCEPT ![p] = "fwrite"]

(* send_data: gather, or hand the buffer and the message to fwrite. *)
SendData(p, data) ==
  IF Len(data) <= B - Len(sbuf[p])
  THEN /\ sbuf' = [sbuf EXCEPT ![p] = @ \o data]
       /\ UNCHANGED <<out, pc>>
  ELSE /\ out' = [out EXCEPT ![p] = (@ \o sbuf[p]) \o data]
       /\ sbuf' = [sbuf EXCEPT ![p] = <<>>]
       /\ pc' = [pc EXCEPT ![p] = "fwrite"]

(* The padding is reckoned from buf alone: an oversize message is forgotten.*)
BadSenderFlush(p) ==
  /\ out' = [out EXCEPT ![p] =
        (@ \o sbuf[p]) \o [i \in 1..PadLen(Len(sbuf[p])) |-> Junk]]
  /\ sbuf' = [sbuf EXCEPT ![p] = <<>>]

(* flush, up to its fflush: the buffer, then padding to a whole block. *)
SenderFlush(p) ==
  /\ out' = [out EXCEPT ![p] =
        (@ \o sbuf[p]) \o [i \in 1..PadLen(Len(@) + Len(sbuf[p])) |-> Junk]]
  /\ sbuf' = [sbuf EXCEPT ![p] = <<>>]

-----------------------------------------------------------------------------
(* RecverSubChannel *)

(* flush: drop what is left of the block. *)
BadRecverFlush(p) == rptr' = [rptr EXCEPT ![p] = @ + B]   \* ptr += size, not ptr = size
RecverFlush(p) == rptr' = [rptr EXCEPT ![p] = B]

(* The pointer is not moved past what was served from the block. *)
BadRecvData(p, n) ==
  LET k == IF n <= B - rptr[p] THEN n ELSE B - rptr[p] IN
  /\ rcvd' = [rcvd EXCEPT ![p] = @ \o SubSeq(rbuf[p], rptr[p] + 1, rptr[p] + k)]
  /\ want' = [want EXCEPT ![p] = n - k]
  /\ IF n = k
     THEN /\ pc' = [pc EXCEPT ![p] = "run"]
          /\ fsm' = [fsm EXCEPT ![p] = 1]
          /\ item' = [item EXCEPT ![p] = @ + 1]
          /\ UNCHANGED <<rbuf, rptr>>
     ELSE /\ pc' = [pc EXCEPT ![p] = "fread"]
          /\ rbuf' = [rbuf EXCEPT ![p] = <<>>]
          /\ UNCHANGED <<fsm, item, rptr>>

(* recv_data of n bytes: served from the block, or drain it and read on. *)
RecvData(p, n) ==
  LET k == IF n <= B - rptr[p] THEN n ELSE B - rptr[p] IN
  /\ rcvd' = [rcvd EXCEPT ![p] = @ \o SubSeq(rbuf[p], rptr[p] + 1, rptr[p] + k)]
  /\ rptr' = [rptr EXCEPT ![p] = @ + k]
  /\ want' = [want EXCEPT ![p] = n - k]
  /\ IF n = k
     THEN /\ pc' = [pc EXCEPT ![p] = "run"]
          /\ fsm' = [fsm EXCEPT ![p] = 1]
          /\ item' = [item EXCEPT ![p] = @ + 1]
          /\ UNCHANGED rbuf
     ELSE /\ pc' = [pc EXCEPT ![p] = "fread"]
          /\ rbuf' = [rbuf EXCEPT ![p] = <<>>]
          /\ UNCHANGED <<fsm, item>>

-----------------------------------------------------------------------------
(* HighSpeedNetIO: the calls a party makes. *)

Send(p) == \E it \in Xfer :
  /\ it.from = p
  /\ Call(p, it)
  /\ IF fsm[p] = 1 THEN RecverFlush(p) ELSE UNCHANGED rptr
  /\ SendData(p, [i \in 1..it.len |-> nsent[p] + i])
  /\ nsent' = [nsent EXCEPT ![p] = @ + it.len]
  /\ fsm' = [fsm EXCEPT ![p] = 2]
  /\ item' = [item EXCEPT ![p] = @ + 1]
  /\ UNCHANGED <<pushed, taken, rbuf, want, rcvd, alive>>

Recv(p) == \E it \in Xfer :
  /\ it.from = Peer(p)
  /\ Call(p, it)
  /\ fsm[p] # 2
  /\ RecvData(p, it.len)
  /\ UNCHANGED <<sender, pushed, taken, alive>>

(* recv_data_internal starts to read with its own bytes still gathered. *)
BadTurn(p) == \E it \in Xfer :
  /\ it.from = Peer(p)
  /\ Call(p, it)
  /\ fsm[p] = 2
  /\ want' = [want EXCEPT ![p] = it.len]
  /\ pc' = [pc EXCEPT ![p] = "turn"]
  /\ UNCHANGED <<sender, item, fsm, pushed, taken, rbuf, rptr, rcvd, alive>>

(* recv_data_internal after a send: flush first. *)
Turn(p) == \E it \in Xfer :
  /\ it.from = Peer(p)
  /\ Call(p, it)
  /\ fsm[p] = 2
  /\ SenderFlush(p)
  /\ want' = [want EXCEPT ![p] = it.len]
  /\ pc' = [pc EXCEPT ![p] = "turn"]
  /\ UNCHANGED <<item, fsm, nsent, pushed, taken, rbuf, rptr, rcvd, alive>>

(* flush, and the destructor, which flushes before it closes the sockets. *)
Flush(p) == \E it \in {Sync, Close} :
  /\ Call(p, it)
  /\ SenderFlush(p)
  /\ RecverFlush(p)
  /\ fsm' = [fsm EXCEPT ![p] = 0]
  /\ pc' = [pc EXCEPT ![p] = IF it = Close THEN "fclose" ELSE "fflush"]
  /\ item' = [item EXCEPT ![p] = @ + 1]
  /\ UNCHANGED <<nsent, pushed, taken, rbuf, want, rcvd, alive>>

-----------------------------------------------------------------------------
(* The FILE and the kernel. *)

Pending(p) == Len(out[p]) - pushed[p]
BadWriting(p) == /\ alive[p]   \* flush without the fflush
                 /\ \/ pc[p] = "fwrite" /\ Pending(p) > StdioCap
                    \/ pc[p] = "fclose" /\ Pending(p) > 0
Writing(p) == /\ alive[p]
              /\ \/ pc[p] = "fwrite" /\ Pending(p) > StdioCap
                 \/ pc[p] \in {"fflush", "turn", "fclose"} /\ Pending(p) > 0

(* write(2), from inside fwrite or fflush: as much as the wire takes. *)
Push(p) ==
  /\ Writing(p)
  /\ \E n \in 1..Pending(p) :
       /\ pushed[p] + n - taken[Peer(p)] <= WireCap
       /\ pushed' = [pushed EXCEPT ![p] = @ + n]
  /\ UNCHANGED <<protocol, item, pc, fsm, sender, receiver, alive>>

(* fwrite, fflush or the destructor is finished. *)
Return(p) ==
  /\ alive[p]
  /\ pc[p] \in {"fwrite", "fflush", "fclose"}
  /\ ~Writing(p)
  /\ pc' = [pc EXCEPT ![p] = IF @ = "fclose" THEN "closed" ELSE "run"]
  /\ UNCHANGED <<protocol, item, fsm, sender, pushed, receiver, alive>>

(* The flush of a change of direction is finished; recv_data begins. *)
Turned(p) ==
  /\ alive[p]
  /\ pc[p] = "turn"
  /\ ~Writing(p)
  /\ RecvData(p, want[p])
  /\ UNCHANGED <<protocol, sender, pushed, taken, alive>>

(* One fread of recv_data_raw, and the copy once the block is complete. *)
Fread(p) ==
  LET q == Peer(p)
      avail == pushed[q] - taken[p]
      room == B - Len(rbuf[p])
      k == IF avail <= room THEN avail ELSE room
      blk == rbuf[p] \o SubSeq(out[q], taken[p] + 1, taken[p] + k)
      n == IF want[p] <= B THEN want[p] ELSE B
  IN
  /\ alive[p]
  /\ pc[p] = "fread"
  /\ avail > 0
  /\ taken' = [taken EXCEPT ![p] = @ + k]
  /\ IF k < room
     THEN /\ rbuf' = [rbuf EXCEPT ![p] = blk]
          /\ UNCHANGED <<rcvd, rptr, want, pc, fsm, item>>
     ELSE /\ rcvd' = [rcvd EXCEPT ![p] = @ \o SubSeq(blk, 1, n)]
          /\ want' = [want EXCEPT ![p] = @ - n]
          /\ IF n = want[p]
             THEN /\ rbuf' = [rbuf EXCEPT ![p] = blk]
                  /\ rptr' = [rptr EXCEPT ![p] = n]
                  /\ pc' = [pc EXCEPT ![p] = "run"]
                  /\ fsm' = [fsm EXCEPT ![p] = 1]
                  /\ item' = [item EXCEPT ![p] = @ + 1]
             ELSE /\ rbuf' = [rbuf EXCEPT ![p] = <<>>]
                  /\ UNCHANGED <<rptr, pc, fsm, item>>
  /\ UNCHANGED <<protocol, sender, pushed, alive>>

(* The peer is gone and its stream is empty: fread returns 0, which the    *)
(* loop of recv_data_raw takes for progress, and it asks again for ever.   *)
BadGone(p) == pc[p] = "closed"   \* a peer that died goes unnoticed
Gone(p) == ~alive[p] \/ pc[p] = "closed"
Spinning(p) == /\ alive[p]
               /\ pc[p] = "fread"
               /\ Gone(Peer(p))
               /\ pushed[Peer(p)] = taken[p]
Spin(p) == Spinning(p) /\ UNCHANGED vars

(* write(2) to a socket the peer has left: SIGPIPE ends the process. *)
BrokenPipe(p) ==
  /\ Writing(p)
  /\ Gone(Peer(p))
  /\ alive' = [alive EXCEPT ![p] = FALSE]
  /\ UNCHANGED <<protocol, item, pc, fsm, sender, pushed, receiver>>

(* A party is killed; bytes its peer has not read yet may be lost. *)
Crash(p) ==
  /\ MayCrash
  /\ alive[p]
  /\ pc[p] # "closed"
  /\ alive' = [alive EXCEPT ![p] = FALSE]
  /\ \E n \in taken[Peer(p)]..pushed[p] : pushed' = [pushed EXCEPT ![p] = n]
  /\ UNCHANGED <<protocol, item, pc, fsm, sender, receiver>>

Terminated == (\A p \in Party : Gone(p)) /\ UNCHANGED vars

-----------------------------------------------------------------------------
PartyStep(p) == \/ Send(p) \/ Recv(p) \/ Turn(p) \/ Flush(p)
                \/ Push(p) \/ Return(p) \/ Turned(p) \/ Fread(p)
                \/ BrokenPipe(p)

Next == \/ \E p \in Party : PartyStep(p) \/ Crash(p) \/ Spin(p)
        \/ Terminated

Spec == Init /\ [][Next]_vars

(* Each process runs on, and TCP delivers; nobody has to crash. *)
FairSpec == Spec /\ \A p \in Party : WF_vars(PartyStep(p))
-----------------------------------------------------------------------------
(* Properties *)

(* What recv_data returns is what the peer passed to send_data, byte for   *)
(* byte from the first on: no padding, no stale byte of a block, nothing   *)
(* skipped when a direction change throws away the rest of a block.        *)
InOrder == \A p \in Party :
  /\ Len(rcvd[p]) <= nsent[Peer(p)]
  /\ \A i \in 1..Len(rcvd[p]) : rcvd[p][i] = i

(* RecverSubChannel::flush drops the rest of a block; no data byte is ever *)
(* among what it drops, whatever the two ends have sent before.            *)
DropsOnlyPadding == [][
  \A p \in Party :
    (rptr[p] < B /\ rptr'[p] = B /\ rcvd'[p] = rcvd[p]) =>
      \A i \in rptr[p] + 1 .. B : rbuf[p][i] = Junk ]_vars

(* A party that waits in recv_data holds nothing back: its buffer is empty,*)
(* its stream is whole blocks, and all of it has reached the kernel.  This *)
(* is what keeps two lazy senders from waiting for each other.             *)
WaitsFlushed == \A p \in Party : (alive[p] /\ pc[p] = "fread") =>
  /\ sbuf[p] = <<>>
  /\ Len(out[p]) % B = 0
  /\ pushed[p] = Len(out[p])

(* A destructor that is done leaves nobody behind: it has read every byte  *)
(* its peer will ever write (so the peer never writes to a closed socket), *)
(* and a peer that still reads finds the bytes it waits for (so it never   *)
(* meets the end of the stream, on which the read loop would not end).     *)
CloseIsClean == \A p \in Party : (alive[p] /\ pc[p] = "closed") =>
  /\ sbuf[Peer(p)] = <<>>
  /\ taken[p] = Len(out[Peer(p)])
  /\ pc[Peer(p)] = "fread" => taken[Peer(p)] < pushed[p]

(* Nobody is killed by a write to a closed socket unless somebody crashed. *)
NoBrokenPipe == MayCrash \/ \A p \in Party : alive[p]

(* The channel is a pair of byte streams. *)
Streams == INSTANCE ByteStream
ImplementsByteStream == Streams!Spec

(* Unless a party is killed, both programs come to the end of their        *)
(* channel, with all data received: lazy sending never leaves them waiting *)
(* for each other.                                                         *)
Termination == \/ <>( /\ \A p \in Party : pc[p] = "closed"
                      /\ \A p \in Party : Len(rcvd[p]) = nsent[Peer(p)] )
               \/ <>(\E p \in Party : ~alive[p])

(* When a party dies the other one comes to its end, is killed, or is      *)
(* caught in the read loop of recv_data_raw; it never blocks elsewhere.    *)
CrashFate == \A p \in Party :
  ~alive[Peer(p)] ~> (~alive[p] \/ pc[p] = "closed" \/ Spinning(p))
=============================================================================
