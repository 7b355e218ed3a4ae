---------------------------- MODULE BitonicSort -----------------------------
(***************************************************************************)
(* The bitonic sorting network that moves encrypted rows                   *)
(* (emp-tool/circuits/number.h), and the copy of it for one-bit keys that  *)
(* compacts the rows of comorbidity (emp_utils.cpp).                       *)
(*                                                                         *)
(* Which pairs are compared depends on positions alone; only whether a pair*)
(* is exchanged depends on the keys.  todo is the call stack: the calls    *)
(* still to be made, the next one first, and a call is replaced by the     *)
(* calls of its body.  up is acc; the one-bit network calls it !desc.      *)
(* Rows carry their index in the input as data.                            *)
(*                                                                         *)
(* An operator named Bad... is the one after it with a seeded fault; it is *)
(* used nowhere, and shows that the properties notice such a fault.        *)
(***************************************************************************)
EXTENDS Integers, Sequences

CONSTANTS Keys,        \* keys, ordered as Integer's > orders them
          SortSizes,   \* numbers of rows to sort
          MergeSizes   \* numbers of rows of two sorted inputs to merge

ASSUME SortAssumption == /\ Keys \subseteq Int
                         /\ SortSizes \subseteq Nat
                         /\ MergeSizes \subseteq Nat

VARIABLES job,    \* what was asked for; it does not change
          key,    \* key[i], i from 0
          data,   \* data[i]: the input row that is at i
          todo    \* calls to be made

vars == <<job, key, data, todo>>

Inputs(n) == [0 .. n - 1 -> Keys]

Sort(lo, n, up) == [f |-> "sort", lo |-> lo, n |-> n, up |-> up]
Merge(lo, n, up) == [f |-> "merge", lo |-> lo, n |-> n, up |-> up]
Swap(i, d, up) == [f |-> "swap", lo |-> i, n |-> d, up |-> up]   \* positions i and i + d

Frame == [f : {"sort", "merge", "swap"}, lo : Nat, n : Nat, up : BOOLEAN]

(* ALICE's keys ascend and BOB's, which follow, descend. *)
UpDown(n) == {k \in Inputs(n) : \E a \in n \div 2 .. n :
                /\ \A i \in 0 .. a - 2 : k[i] <= k[i + 1]
                /\ \A i \in a .. n - 2 : k[i] >= k[i + 1]}

Jobs ==
  (UNION {[call : {"sort"}, cmp : {"number"}, up : BOOLEAN, n : {n}, input : Inputs(n)]
            : n \in SortSizes})
  \cup (UNION {[call : {"sort"}, cmp : {"valid"}, up : BOOLEAN, n : {n},
                input : {k \in Inputs(n) : \A i \in 0 .. n - 1 : k[i] \in 0 .. 1}]
                 : n \in SortSizes})
  \cup (UNION {[call : {"merge"}, cmp : {"number"}, up : {TRUE}, n : {n}, input : UpDown(n)]
                 : n \in MergeSizes})

(* Calls that stay inside the array. *)
Calls == {c \in Frame :
            c.lo + c.n <= IF c.f = "swap" THEN job.n - 1 ELSE job.n}

(* Every key, every moved row and every pending call stays inside the      *)
(* array: no comparison reaches past the end of the rows it was given.     *)
TypeOK == /\ job \in Jobs
          /\ key \in Inputs(job.n)
          /\ data \in [0 .. job.n - 1 -> 0 .. job.n - 1]
          /\ todo \in Seq(Calls)

Init == /\ job \in Jobs
        /\ key = job.input
        /\ data = [i \in 0 .. job.n - 1 |-> i]
        /\ todo = << [f |-> job.call, lo |-> 0, n |-> job.n, up |-> job.up] >>

-----------------------------------------------------------------------------
PowerOfTwo(n) == \E e \in 0 .. n : n = 2 ^ e
GreatestPowerOfTwoLessThan(n) ==
  CHOOSE m \in 1 .. n - 1 :
    PowerOfTwo(m) /\ \A k \in 1 .. n - 1 : PowerOfTwo(k) => k <= m

(* The first half is sorted like the second, and no valley arises. *)
BadSortBody(c) == IF c.n <= 1 THEN <<>>
                  ELSE LET m == c.n \div 2 IN
                       << Sort(c.lo, m, c.up),
                          Sort(c.lo + m, c.n - m, c.up),
                          Merge(c.lo, c.n, c.up) >>

(* bitonic_sort: the halves in opposite directions, then merge. *)
SortBody(c) == IF c.n <= 1 THEN <<>>
               ELSE LET m == c.n \div 2 IN
                    << Sort(c.lo, m, ~c.up),
                       Sort(c.lo + m, c.n - m, c.up),
                       Merge(c.lo, c.n, c.up) >>

(* One comparison short, and one too many. *)
BadMergeShort(c) == IF c.n <= 1 THEN <<>>
                    ELSE LET m == GreatestPowerOfTwoLessThan(c.n) IN
                         [i \in 1 .. c.n - m - 1 |-> Swap(c.lo + i - 1, m, c.up)]
                         \o << Merge(c.lo, m, c.up), Merge(c.lo + m, c.n - m, c.up) >>
BadMergeLong(c) == IF c.n <= 1 THEN <<>>
                   ELSE LET m == GreatestPowerOfTwoLessThan(c.n) IN
                        [i \in 1 .. c.n - m + 1 |-> Swap(c.lo + i - 1, m, c.up)]
                        \o << Merge(c.lo, m, c.up), Merge(c.lo + m, c.n - m, c.up) >>

(* bitonic_merge: compare across the distance m, then merge both parts. *)
MergeBody(c) == IF c.n <= 1 THEN <<>>
                ELSE LET m == GreatestPowerOfTwoLessThan(c.n) IN
                     [i \in 1 .. c.n - m |-> Swap(c.lo + i - 1, m, c.up)]
                     \o << Merge(c.lo, m, c.up), Merge(c.lo + m, c.n - m, c.up) >>

Descend == /\ todo # <<>>
           /\ \/ /\ Head(todo).f = "sort"
                 /\ todo' = SortBody(Head(todo)) \o Tail(todo)
              \/ /\ Head(todo).f = "merge"
                 /\ todo' = MergeBody(Head(todo)) \o Tail(todo)
           /\ UNCHANGED <<job, key, data>>

(* cmp_swap exchanges equal keys too when it sorts down; the one-bit       *)
(* network uses one of the two keys itself as the control.                 *)
ToSwap(i, j, up) == IF job.cmp = "number" THEN (key[i] > key[j]) = up
                    ELSE (IF up THEN key[i] ELSE key[j]) = 1

Exchange(f, i, j) == [f EXCEPT ![i] = f[j], ![j] = f[i]]

(* The data is moved by the control the exchanged keys give. *)
BadCmpSwap ==
  LET i == Head(todo).lo
      j == i + Head(todo).n
      up == Head(todo).up
  IN
  /\ todo # <<>> /\ Head(todo).f = "swap"
  /\ key' = IF ToSwap(i, j, up) THEN Exchange(key, i, j) ELSE key
  /\ data' = IF (key'[i] > key'[j]) = up THEN Exchange(data, i, j) ELSE data
  /\ todo' = Tail(todo)
  /\ UNCHANGED job

CmpSwap ==
  LET i == Head(todo).lo
      j == i + Head(todo).n
      swap == ToSwap(i, j, Head(todo).up)
  IN
  /\ todo # <<>> /\ Head(todo).f = "swap"
  /\ key' = IF swap THEN Exchange(key, i, j) ELSE key
  /\ data' = IF swap THEN Exchange(data, i, j) ELSE data
  /\ todo' = Tail(todo)
  /\ UNCHANGED job

Terminated == todo = <<>> /\ UNCHANGED vars

Next == Descend \/ CmpSwap \/ Terminated

Spec == Init /\ [][Next]_vars
-----------------------------------------------------------------------------
(* Properties *)

Before(x, y, up) == IF up THEN x <= y ELSE y <= x

(* bitonic_sort and its copy sort any number of rows, in either direction. *)
Ordered == \A i \in 0 .. job.n - 2 : Before(key[i], key[i + 1], job.up)
Sorts == (todo = <<>> /\ job.call = "sort") => Ordered

(* bitonic_merge sorts two sorted inputs, the second in descending order,  *)
(* as merge_sorted, aspirin, password and comorbidity call it.             *)
MergeSorts == (todo = <<>> /\ job.call = "merge") => Ordered

(* Every row stays whole and none is lost or doubled: its data is moved by *)
(* the control that moves its key.                                         *)
RowsWhole == /\ \A i \in 0 .. job.n - 1 : key[i] = job.input[data[i]]
             /\ \A i, j \in 0 .. job.n - 1 : data[i] = data[j] => i = j
=============================================================================
