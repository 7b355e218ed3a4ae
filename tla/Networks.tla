------------------------------ MODULE Networks ------------------------------
(***************************************************************************)
(* The comparisons of emp-tool/circuits/number.h, which depend on positions*)
(* alone.  BitonicSort follows the calls one by one; here a whole network  *)
(* is the sequence of its comparisons, for the programs that use one.      *)
(***************************************************************************)
EXTENDS Integers, Sequences, SequencesExt

CONSTANT MaxRows   \* bound: the longest array a network is laid out for

ASSUME NetworksAssumption == MaxRows \in Nat

PowerOfTwo(n) == \E e \in 0 .. n : n = 2 ^ e
GreatestPowerOfTwoLessThan(n) ==
  CHOOSE m \in 1 .. n - 1 :
    PowerOfTwo(m) /\ \A k \in 1 .. n - 1 : PowerOfTwo(k) => k <= m

(* Positions i < j of a sequence; same: in the direction of the whole.     *)
Shift(net, d) == [k \in DOMAIN net |-> [net[k] EXCEPT !.i = @ + d, !.j = @ + d]]
Flip(net) == [k \in DOMAIN net |-> [net[k] EXCEPT !.same = ~@]]

(* bitonic_merge of the first n elements. *)
MergeNet[n \in 0 .. MaxRows] ==
  IF n <= 1 THEN <<>>
  ELSE LET m == GreatestPowerOfTwoLessThan(n) IN
       [k \in 1 .. n - m |-> [i |-> k, j |-> k + m, same |-> TRUE]]
       \o MergeNet[m] \o Shift(MergeNet[n - m], m)

(* bitonic_sort of the first n elements. *)
SortNet[n \in 0 .. MaxRows] ==
  IF n <= 1 THEN <<>>
  ELSE LET m == n \div 2 IN
       Flip(SortNet[m]) \o Shift(SortNet[n - m], m) \o MergeNet[n]

(* The rows after the comparisons of a network: cmp_swap in the direction  *)
(* up, on keys that are numbers.  Keys that are equal are exchanged in the *)
(* other direction.                                                        *)
Exchanged(rows, c) == [rows EXCEPT ![c.i] = rows[c.j], ![c.j] = rows[c.i]]
Through(net, rows, up) ==
  LET after[k \in 0 .. Len(net)] ==
        IF k = 0 THEN rows
        ELSE LET r == after[k - 1]
                 c == net[k]
             IN IF (r[c.i].key > r[c.j].key) = (c.same = up) THEN Exchanged(r, c) ELSE r
  IN after[Len(net)]
=============================================================================
