----------------------------- MODULE ByteStream -----------------------------
(***************************************************************************)
(* What HighSpeedNetIO promises its two users: in each direction, the      *)
(* bytes one party hands to send_data come out of the other's recv_data,   *)
(* each once, in order, none invented and none lost in the middle.         *)
(*                                                                         *)
(* The n-th data byte a party sends is the number n.  A step is decided by *)
(* how much the streams grow; any growth is allowed as long as what is     *)
(* received is the next piece of what was sent.                            *)
(***************************************************************************)
EXTENDS Integers, Sequences

CONSTANTS Party,     \* the two ends
          Peer(_)    \* the other end of the connection

VARIABLES nsent,     \* nsent[p]: how many bytes p has passed to send_data
          rcvd       \* rcvd[p]: the bytes p's recv_data calls have returned

vars == <<nsent, rcvd>>

Init == /\ nsent = [p \in Party |-> 0]
        /\ rcvd = [p \in Party |-> <<>>]

Send(p, n) == /\ n >= 0
              /\ nsent' = [nsent EXCEPT ![p] = @ + n]
              /\ UNCHANGED rcvd

Recv(p, n) == /\ n >= 0
              /\ Len(rcvd[p]) + n <= nsent[Peer(p)]
              /\ rcvd' = [rcvd EXCEPT ![p] = @ \o [i \in 1..n |-> Len(@) + i]]
              /\ UNCHANGED nsent

Next == \E p \in Party : \/ Send(p, nsent'[p] - nsent[p])
                         \/ Recv(p, Len(rcvd'[p]) - Len(rcvd[p]))

Spec == Init /\ [][Next]_vars
=============================================================================
