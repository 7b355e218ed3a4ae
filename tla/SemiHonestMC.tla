---------------------------- MODULE SemiHonestMC ----------------------------
(* SemiHonest with blocks of two bits, bit 0, the permute bit, and one more*)
(* that a label may differ in, and programs of up to four calls.           *)
EXTENDS SemiHonest, TLC

(* <<>> @@ makes TLC evaluate a function once, where it is defined.       *)
HashTable == <<>> @@ [t \in 1 .. 5 |-> [x \in Block |->
  {k \in 0 .. 1 : ((t + 1) * (t + k + (IF 0 \in x THEN 1 ELSE 0) + (IF 1 \in x THEN 3 ELSE 0))) % 4 > 1}]]

MCHashes == HashTable
MCBlocks == << {}, {0}, {1}, {0, 1}, {1}, {}, {0} >>
MCFresh == {{1}}
MCShapes == { <<"feed", "feed", "feed">>,
              <<"feed", "and", "and">>, <<"feed", "xor", "and">>, <<"feed", "and", "reveal">>,
              <<"public", "feed", "and", "reveal">>, <<"public", "not", "reveal">>,
              <<"feed", "reveal", "reveal">>, <<"feed", "reveal", "feed">> }
Strings == {<<TRUE>>, <<FALSE, TRUE>>, <<TRUE, FALSE, TRUE>>}
=============================================================================
