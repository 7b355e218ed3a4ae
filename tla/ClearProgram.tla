---------------------------- MODULE ClearProgram ----------------------------
(***************************************************************************)
(* What the semi-honest protocol promises two parties that run a program   *)
(* of feeds, gates and reveals (execution/protocol_execution.h): a plain   *)
(* circuit.  A call adds its values to the wires, which nobody sees, and a *)
(* reveal gives each party just what it is to learn of them.               *)
(*                                                                         *)
(* The parties need not keep step.  Whichever is ahead decides the call;   *)
(* it may be decided before any party has completed it.  What a party      *)
(* cannot know without the other it waits for (Second).                    *)
(***************************************************************************)
EXTENDS Integers, Sequences

VARIABLES script,  \* the calls decided so far
          val,     \* val[w]: the value of wire w
          done,    \* done[p]: how many calls p has completed
          out      \* out[p]: what p has been given, reveal by reveal

vars == <<script, val, done, out>>

Party == {"ALICE", "BOB"}
Peer(p) == IF p = "ALICE" THEN "BOB" ELSE "ALICE"

Init == /\ script = <<>>
        /\ val = <<>>
        /\ done = [p \in Party |-> 0]
        /\ out = [p \in Party |-> <<>>]

IsCall(c) ==
  \/ c.op = "public" /\ Len(c.bits) = 1
  \/ c.op = "feed" /\ c.who \in Party
  \/ c.op \in {"and", "xor"} /\ {c.i, c.j} \subseteq DOMAIN val
  \/ c.op = "not" /\ c.i \in DOMAIN val
  \/ c.op = "reveal" /\ {c.i, c.j} \subseteq DOMAIN val /\ c.i <= c.j

Clear(c) == CASE c.op \in {"public", "feed"} -> c.bits
              [] c.op = "and" -> <<val[c.i] /\ val[c.j]>>
              [] c.op = "xor" -> <<val[c.i] # val[c.j]>>
              [] c.op = "not" -> <<~val[c.i]>>
              [] OTHER -> <<>>

(* c is p's next call: the one its peer came to first, or a new one. *)
Decides(p, c) ==
  \/ /\ done[p] < Len(script)
     /\ c = script[done[p] + 1]
     /\ UNCHANGED <<script, val>>
  \/ /\ done[p] = Len(script)
     /\ IsCall(c)
     /\ script' = Append(script, c)
     /\ val' = val \o Clear(c)

(* The calls p does not complete before its peer does. *)
Second(p, c) == \/ p = "BOB" /\ c.op = "and"
                \/ p = "ALICE" /\ c.op = "feed" /\ c.who = "BOB"
                \/ c.op = "reveal" /\ c.who = p
                \/ p = "ALICE" /\ c.op = "reveal" /\ c.who = "PUBLIC"

(* What p may be given by a reveal.  Each of the two shares of XOR may be  *)
(* any, but not both.                                                      *)
Results(p, c) ==
  LET clears == SubSeq(val, c.i, c.j)
      peers == out[Peer(p)][Len(out[p]) + 1]
  IN IF c.who \in {p, "PUBLIC"} THEN {clears}
     ELSE IF c.who = Peer(p) THEN {[k \in 1 .. c.j - c.i + 1 |-> FALSE]}
     ELSE IF done[p] < done[Peer(p)] THEN {[k \in DOMAIN peers |-> peers[k] # clears[k]]}
     ELSE [1 .. c.j - c.i + 1 -> BOOLEAN]

Gives(p, c) == \/ c.op # "reveal" /\ UNCHANGED out
               \/ /\ c.op = "reveal"
                  /\ \E bits \in Results(p, c) : out' = [out EXCEPT ![p] = Append(@, bits)]

Begin(p, c) == /\ done[p] = Len(script)
               /\ Decides(p, c)
               /\ UNCHANGED <<done, out>>

Complete(p, c) == /\ Decides(p, c)
                  /\ Second(p, c) => done[p] < done[Peer(p)]
                  /\ p = "BOB" /\ c.op = "reveal" /\ c.who = "PUBLIC" => done[p] <= done[Peer(p)]
                  /\ Gives(p, c)
                  /\ done' = [done EXCEPT ![p] = @ + 1]

Next == \E p \in Party : /\ done[p] < Len(script')
                         /\ LET c == script'[done[p] + 1]
                            IN Begin(p, c) \/ Complete(p, c)

Spec == Init /\ [][Next]_vars
=============================================================================
