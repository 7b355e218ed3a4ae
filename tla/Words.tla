-------------------------------- MODULE Words -------------------------------
(***************************************************************************)
(* The words files and encrypted vectors are made of, and the sizes that   *)
(* emp_utils.cpp and example_input.cpp both name.  A word is a number of   *)
(* Width bits.                                                             *)
(***************************************************************************)
EXTENDS Integers, Sequences, SequencesExt

CONSTANTS Width,      \* bits of a word, 32
          DiagBits,   \* bits of a diagnosis, 10
          Ratio,      \* DIAGNOSIS_MULTIPLIER, 1000
          KTop        \* K_TOP, 10

ASSUME WordsAssumption ==
  /\ Width \in Nat \ {0} /\ Width % 4 = 0
  /\ DiagBits \in 1 .. Width
  /\ Ratio \in Nat \ {0}
  /\ KTop \in Nat \ {0}

Word == 0 .. 2 ^ Width - 1

Zeros(k) == [i \in 1 .. k |-> 0]
Table(n, F(_)) == FlattenSeq([i \in 1 .. n |-> F(i - 1)])   \* F(0) \o ... \o F(n - 1)
Total(n, F(_)) == FoldLeft(LAMBDA s, i : s + F(i - 1), 0, [i \in 1 .. n |-> i])
=============================================================================
