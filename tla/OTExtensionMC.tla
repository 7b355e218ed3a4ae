--------------------------- MODULE OTExtensionMC ----------------------------
(* OTExtension with rows of two bits; gfmul is that of the field of four   *)
(* elements.  A seed is a random choice and the row it is for; the PRGs    *)
(* repeat after three blocks.  The lengths are short of a row's block, a   *)
(* whole extension block, and more than one with a remainder that no block *)
(* and no batch divides.                                                   *)
EXTENDS OTExtension, TLC

(* <<>> @@ makes TLC evaluate a function once, where it is defined.       *)
StreamTable == <<>> @@ [k \in {<<>>} \cup ((0 .. 1) \X (0 .. 1)) |->
  IF k = <<>> THEN << {0}, {}, {1} >>
  ELSE [n \in 1 .. 3 |-> {x \in 0 .. 1 : (n * (k[1] + 2 * k[2] + 3 * x + n)) % 5 > 1}]]
MCSeeds == {[i \in 0 .. 1 |-> <<v, i>>] : v \in 0 .. 1}
MCExponents == {[i \in 0 .. 1 |-> (x + 2 * i) % 3] : x \in 0 .. 2}
(* The powers of a: 1, a, a + 1. *)
Powers == << {0}, {1}, {0, 1} >>
MulTable == <<>> @@ [xy \in Block \X Block |->
  {k \in 0 .. 1 : \E i, j \in 1 .. 3 : /\ xy = <<Powers[i], Powers[j]>>
                                       /\ k \in Powers[((i + j - 2) % 3) + 1]}]
MCMul == MulTable
MCStreams == StreamTable
MCChosen == {<<TRUE, FALSE, TRUE, TRUE>>}
MCCombiners == {{1}}
MCDelta == SUBSET (0 .. 1)
Patterns == {<<TRUE>>, <<TRUE, FALSE, TRUE, FALSE>>, <<FALSE, TRUE, FALSE, TRUE, TRUE, FALSE, TRUE>>}
MCCalls == [kind : {"cot", "ot", "rot"}, r : Patterns]
=============================================================================
