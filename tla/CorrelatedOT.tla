---------------------------- MODULE CorrelatedOT ----------------------------
(***************************************************************************)
(* What a COT promises (ot/cot.h): for each bit the receiver chooses it    *)
(* gets a block, and the sender gets that block xored with delta if the    *)
(* bit is set.  The receiver may be ahead.                                 *)
(***************************************************************************)
EXTENDS Blocks

CONSTANT Delta     \* the values COT::Delta may have

VARIABLES delta,   \* COT::Delta, of the sender
          taken,   \* taken[k]: the bits r and the blocks t of the k-th recv_cot
          given    \* given[k]: the blocks of the k-th send_cot

vars == <<delta, taken, given>>

Init == /\ delta \in Delta
        /\ taken = <<>>
        /\ given = <<>>

Take(c) == /\ c.r \in Seq(BOOLEAN)
           /\ c.t \in [DOMAIN c.r -> Block]
           /\ taken' = Append(taken, c)
           /\ UNCHANGED <<delta, given>>

Give == LET c == taken[Len(given) + 1] IN
  /\ Len(given) < Len(taken)
  /\ given' = Append(given, [i \in DOMAIN c.r |-> Active(c.t[i], c.r[i], delta)])
  /\ UNCHANGED <<delta, taken>>

Next == \/ taken' # taken /\ Take(taken'[Len(taken) + 1])
        \/ Give

Spec == Init /\ [][Next]_vars
=============================================================================
