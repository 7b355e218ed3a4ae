----------------------------- MODULE HalfGates ------------------------------
(***************************************************************************)
(* The half-gate garbling scheme (emp-tool/execution/circuit_execution.h)  *)
(* over the blocks of Blocks.                                              *)
(*                                                                         *)
(* Hash(x, t) is MH::hash of one block under the tweak t: AES with the     *)
(* zero key, of which nothing matters here but that both parties get the   *)
(* same value for the same block and tweak.  A tweak is a 64-bit number,   *)
(* so the functions it selects come round again.                           *)
(*                                                                         *)
(* An operator named Bad... is the one after it with a seeded fault; it is *)
(* used nowhere, and shows that the properties notice such a fault.        *)
(***************************************************************************)
EXTENDS Blocks

CONSTANT Hashes        \* MH under each tweak

ASSUME HalfGatesAssumption == /\ Hashes \in Seq([Block -> Block])
                              /\ Hashes # <<>>

Hash(x, t) == Hashes[(t % Len(Hashes)) + 1][x]

(* The row correction of the garbler's half forgets the permute bit of b.  *)
BadGarble(a, b, delta, gid) ==
  LET HLA0 == Hash(a, 2 * gid)
      HA1 == Hash(XOR(a, delta), 2 * gid)
      HLB0 == Hash(b, 2 * gid + 1)
      HB1 == Hash(XOR(b, delta), 2 * gid + 1)
      t0 == XOR(HLA0, HA1)
      tmp == XOR(HLB0, HB1)
  IN [table |-> <<t0, XOR(tmp, a)>>,
      label |-> XOR(XOR(XOR(HLA0, Mask(LSB(a), t0)), HLB0), Mask(LSB(b), tmp))]

(* halfgates_garble: a and b are the labels of the value 0. *)
Garble(a, b, delta, gid) ==
  LET HLA0 == Hash(a, 2 * gid)
      HA1 == Hash(XOR(a, delta), 2 * gid)
      HLB0 == Hash(b, 2 * gid + 1)
      HB1 == Hash(XOR(b, delta), 2 * gid + 1)
      t0 == XOR(XOR(HLA0, HA1), Mask(LSB(b), delta))
      tmp == XOR(HLB0, HB1)
  IN [table |-> <<t0, XOR(tmp, a)>>,
      label |-> XOR(XOR(XOR(HLA0, Mask(LSB(a), t0)), HLB0), Mask(LSB(b), tmp))]

(* halfgates_eval: a and b are the labels of the values on the wires. *)
Eval(a, b, table, gid) ==
  XOR(XOR(XOR(XOR(Hash(a, 2 * gid), Hash(b, 2 * gid + 1)),
              Mask(LSB(a), table[1])),
          Mask(LSB(b), table[2])),
      Mask(LSB(b), a))
=============================================================================
