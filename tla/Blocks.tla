------------------------------- MODULE Blocks -------------------------------
(***************************************************************************)
(* The 128-bit blocks of emp-tool (utils/block.h), of Width bits.  A block *)
(* is the set of the positions of its one bits, so ^ is the symmetric      *)
(* difference and getLSB asks for bit 0.                                   *)
(***************************************************************************)
EXTENDS Integers, Sequences

CONSTANT Width       \* bits of a block (128)

Block == SUBSET (0 .. Width - 1)

ASSUME BlocksAssumption == Width \in Nat \ {0}

XOR(x, y) == (x \ y) \cup (y \ x)
LSB(x) == 0 \in x
Mask(s, x) == IF s THEN x ELSE {}      \* select_mask[s] & x

(* The label a wire of value v has at the evaluator, when x is its label at*)
(* the garbler; the block OT extension gives for the choice v, likewise.   *)
Active(x, v, delta) == XOR(x, Mask(v, delta))
=============================================================================
