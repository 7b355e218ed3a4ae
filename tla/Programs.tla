------------------------------ MODULE Programs ------------------------------
(***************************************************************************)
(* What the programs of emp_utils.cpp compute: from data, the vector of    *)
(* both parties' words, to output_data.  The circuit the parties evaluate  *)
(* for a program computes just that (SemiHonest shows it gate by gate), so *)
(* it is computed in the clear here.                                       *)
(*                                                                         *)
(* The first word of data is data[0].  What is read past the end of data is*)
(* a word of whatever follows it in memory, junk; what is written past the *)
(* end of output_data is lost to the output.                               *)
(*                                                                         *)
(* An operator named Bad... is the one after it with a seeded fault; it is *)
(* used nowhere, and shows that the properties notice such a fault.        *)
(***************************************************************************)
EXTENDS Networks, Words, FiniteSets

At(data, k, junk) == IF k < Len(data) THEN data[k + 1] ELSE junk
Words(data, k, n, junk) == [i \in 1 .. n |-> At(data, k + i - 1, junk)]

(* How often a loop with this stride runs. *)
Rounds(data, stride) == (Len(data) + stride - 1) \div stride

(* Integer's comparisons take the top bit for a sign: keys are signed.     *)
Signed(x, bits) == IF x >= 2 ^ (bits - 1) THEN x - 2 ^ bits ELSE x
Unsigned(x, bits) == x % 2 ^ bits
Key(word) == Signed(word, Width)
WideKey(low, high) == Signed(low + 2 ^ Width * high, 2 * Width)

(* Keys with their value words, one after the other. *)
Unpacked(rows) == FlattenSeq([r \in DOMAIN rows |-> <<Unsigned(rows[r].key, Width)>> \o rows[r].value])

merge_sorted(data, junk) ==
  LET rows == [r \in 1 .. Rounds(data, 4) |->
                 [key |-> Key(At(data, 4 * (r - 1), junk)),
                  value |-> Words(data, 4 * (r - 1) + 1, 3, junk)]]
  IN Unpacked(Through(MergeNet[Len(rows)], rows, TRUE))

full_sort(data, junk) ==
  LET rows == [r \in 1 .. Rounds(data, 4) |->
                 [key |-> Key(At(data, 4 * (r - 1), junk)),
                  value |-> Words(data, 4 * (r - 1) + 1, 15, junk)]]
  IN Unpacked(Through(SortNet[Len(rows)], rows, FALSE))

(* Each pair of rows writes nine words, one word after the last pair's.    *)
loop_join(data) ==
  LET table_size == Len(data) \div 8
      row(t) == Words(data, t, 4, 0)
      pair(iter) == LET i == row(4 * ((iter - 1) \div table_size))
                        j == row(Len(data) \div 2 + 4 * ((iter - 1) % table_size))
                    IN IF Signed(i[1], Width) >= Signed(j[1], Width)
                       THEN [k \in 1 .. 9 |-> 0] ELSE <<1>> \o i \o j
      write(out, iter) == [k \in DOMAIN out |->
                             IF k - 1 \in iter .. iter + 8 THEN pair(iter)[k - iter] ELSE out[k]]
  IN IF Len(data) % 8 # 0 THEN <<>>
     ELSE FoldLeft(write, [k \in 1 .. table_size * table_size * 9 |-> 0],
                   [iter \in 1 .. table_size * table_size |-> iter])

(* The patient is not compared. *)
BadHit(r, s) == r.diag % 2 = 1 /\ s.diag % 2 = 0

(* A patient who was diagnosed and at the next event is not. *)
Hit(r, s) == /\ r.diag % 2 = 1
             /\ s.diag % 2 = 0
             /\ r.key \div 2 ^ Width = s.key \div 2 ^ Width

(* Sorted by patient, then time. *)
aspirin(data, junk) ==
  LET word(r, k) == At(data, 3 * (r - 1) + k, junk)
      rows == [r \in 1 .. Rounds(data, 3) |->
                 [key |-> WideKey(word(r, 0), word(r, 1)), diag |-> word(r, 2)]]
      sorted == Through(MergeNet[Len(rows)], rows, TRUE)
  IN << Cardinality({i \in 1 .. Len(rows) - 1 : Hit(sorted[i], sorted[i + 1])}) % 2 ^ Width >>

password(data, junk) ==
  LET rows == [r \in 1 .. Rounds(data, 9) |->
                 [key |-> Key(At(data, 9 * (r - 1) + 8, junk)),
                  value |-> Words(data, 9 * (r - 1), 8, junk)]]
      sorted == Through(MergeNet[Len(rows)], rows, TRUE)
  IN [i \in 1 .. Len(rows) - 1 |-> IF sorted[i] = sorted[i + 1] THEN Unsigned(sorted[i].key, Width) ELSE 0]

matrix_vector_multiply(data, n, junk) ==
  [i \in 1 .. n |->
     FoldLeft(LAMBDA result, j : (result + At(data, (i - 1) * n + j - 1, junk)
                                           * At(data, n * n + j - 1, junk)) % 2 ^ Width,
              0, [j \in 1 .. n |-> j])]

-----------------------------------------------------------------------------
(* comorbidity, step by step *)

(* Steps 1 and 2: a row for each diagnosis and each patient of the cohort, *)
(* merged by patient.                                                      *)
ByPid(data, n, junk) ==
  LET rows == [r \in 1 .. n * Ratio + n |->
                 [key |-> WideKey(At(data, 3 * (r - 1), junk), At(data, 3 * (r - 1) + 1, junk)),
                  diag |-> At(data, 3 * (r - 1) + 2, junk) % 2 ^ DiagBits]]
  IN Through(MergeNet[Len(rows)], rows, TRUE)

(* Step 3: a row is valid if the next one has the same patient.            *)
Flagged(rows) ==
  [r \in DOMAIN rows |-> [valid |-> r < Len(rows) /\ rows[r].key = rows[r + 1].key,
                          diag |-> rows[r].diag]]

(* Steps 4 and 5: the valid rows come first, by a network that takes one of*)
(* the two bits itself for the control; the first n rows stay.             *)
Compacted(rows, n) ==
  LET net == SortNet[Len(rows)]
      after[k \in 0 .. Len(net)] ==
        IF k = 0 THEN rows
        ELSE LET r == after[k - 1]
                 c == net[k]
             IN IF r[IF c.same THEN c.j ELSE c.i].valid THEN Exchanged(r, c) ELSE r
      sorted == after[Len(net)]
  IN [r \in 1 .. n |-> sorted[r]]

(* Step 6 *)
ByDiag(rows) ==
  Through(SortNet[Len(rows)],
          [r \in DOMAIN rows |-> [key |-> Signed(rows[r].diag, DiagBits),
                                  valid |-> rows[r].valid, diag |-> rows[r].diag]], TRUE)

(* Steps 7 and 8: the first row of a diagnosis counts the valid rows that  *)
(* have it; valid is the top bit of the composite, its sign.               *)
Composites(rows) ==
  LET group(r) == {s \in r .. Len(rows) : \A t \in r .. s : rows[t].diag = rows[r].diag}
      first(r) == r = 1 \/ rows[r - 1].diag # rows[r].diag
      count(r) == IF first(r) THEN Cardinality({s \in group(r) : rows[s].valid}) ELSE 0
  IN [r \in DOMAIN rows |->
        [key |-> count(r) - IF rows[r].valid THEN 2 ^ (2 * Width) ELSE 0, diag |-> rows[r].diag]]

(* Step 9: in each round the greatest of what is left moves up to its      *)
(* place, exchanging neighbours from the end.                              *)
TopK(rows) ==
  LET n == Len(rows)
      net == FlattenSeq([r \in 1 .. (IF KTop < n THEN KTop ELSE n) |->
                           [k \in 1 .. n - r |-> [i |-> n - k, j |-> n - k + 1]]])
      after[k \in 0 .. Len(net)] ==
        IF k = 0 THEN rows
        ELSE LET r == after[k - 1]
                 c == net[k]
             IN IF r[c.j].key > r[c.i].key THEN Exchanged(r, c) ELSE r
  IN after[Len(net)]

comorbidity(data, n, junk) ==
  LET top == TopK(Composites(ByDiag(Compacted(Flagged(ByPid(data, n, junk)), n))))
      word(r, k) == IF r > Len(top) THEN junk   \* diags[r] past the end
                    ELSE CASE k = 0 -> top[r].diag
                           [] k = 1 -> Unsigned(top[r].key, Width)
                           [] k = 2 -> (top[r].key \div 2 ^ Width) % 2 ^ Width
  IN FlattenSeq([r \in 1 .. KTop |-> [k \in 1 .. 3 |-> word(r, k - 1)]])

(* main's choice of the program. *)
Output(name, data, n, junk) ==
  CASE name = "merge_sorted" -> merge_sorted(data, junk)
    [] name = "full_sort" -> full_sort(data, junk)
    [] name = "loop_join" -> loop_join(data)
    [] name = "matrix_vector_multiply" -> matrix_vector_multiply(data, n, junk)
    [] name = "password" -> password(data, junk)
    [] name = "aspirin" -> aspirin(data, junk)
    [] name = "comorbidity" -> comorbidity(data, n, junk)
=============================================================================
