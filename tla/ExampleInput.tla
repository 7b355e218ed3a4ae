---------------------------- MODULE ExampleInput ----------------------------
(***************************************************************************)
(* The input files example_input.cpp makes for the two parties, and the    *)
(* output file it expects the parties to produce.  A file is a sequence of *)
(* words; what has 8 or 16 bits in the sources has a quarter or a half of  *)
(* the bits of a word.                                                     *)
(***************************************************************************)
EXTENDS Words

CONSTANTS Draws,           \* bound: what the option "random" draws
          RandomUsers,     \* bound: the problem sizes it is given with, password
          RandomMatrices   \* and matrix_vector_multiply

ASSUME ExampleInputAssumption == /\ Draws \subseteq 0 .. 2 ^ (Width \div 4) - 1
                                 /\ RandomUsers \subseteq Nat
                                 /\ RandomMatrices \subseteq Nat

Record(value, value_width) == <<value>> \o Zeros(value_width)   \* write_record
Wide(x) == <<x % 2 ^ Width, x \div 2 ^ Width>>                  \* write_u64

(* What the option "random" draws for a program.                           *)
Random(name, n) ==
  CASE name = "password" /\ n \in RandomUsers -> [1 .. n -> Draws \cap {0, 1}]
    [] name = "matrix_vector_multiply" /\ n \in RandomMatrices -> [1 .. n + n * n -> Draws]
    [] OTHER -> {}

(* The first KTop patients of the cohort have diagnosis 0, the next        *)
(* KTop - 1 have 1, and so on to KTop - 1; all the others have HighDiag.   *)
HighDiag == 2 ^ DiagBits - 2
UpTo(d) == Total(d + 1, LAMBDA e : KTop - e)   \* the patients with 0 .. d
MatchedDiag(p) == IF p >= UpTo(KTop - 1) THEN HighDiag
                  ELSE CHOOSE d \in 0 .. KTop - 1 :
                         p < UpTo(d) /\ p >= UpTo(d) - (KTop - d)

merge_sorted_files(n) ==
  [garbler |-> Table(n, LAMBDA i : Record(2 * i, 4)),
   evaluator |-> Table(n, LAMBDA i : Record(2 * (n - i - 1) + 1, 4)),
   expected |-> Table(2 * n, LAMBDA i : Record(i, 4))]

full_sort_files(n) ==
  [garbler |-> Table(n, LAMBDA i : Record(2 * i, 15)),
   evaluator |-> Table(n, LAMBDA i : Record(2 * (n - i - 1) + 1, 15)),
   expected |-> Table(2 * n, LAMBDA i : Record(i, 15))]

loop_join_files(n) ==
  LET table == Table(n, LAMBDA i : Record(i, 4))
      pair(i, j) == IF i < j THEN <<1>> \o Record(i, 4) \o Record(j, 4)
                    ELSE <<0>> \o Record(0, 4) \o Record(0, 4)
  IN [garbler |-> table, evaluator |-> table,
      expected |-> Table(n * n, LAMBDA k : pair(k \div n, k % n))]

(* The expected sums have 16 bits. *)
matrix_vector_multiply_files(n, draws) ==
  LET vector == IF draws # <<>> THEN SubSeq(draws, 1, n)
                ELSE [i \in 1 .. n |-> (i - 1) % 2 ^ (Width \div 4)]
      matrix == IF draws # <<>> THEN SubSeq(draws, n + 1, n + n * n)
                ELSE Table(n, LAMBDA i : [j \in 1 .. n |-> IF i + 1 = j THEN 1 ELSE 0])
      sum(i) == Total(n, LAMBDA j : matrix[(i - 1) * n + j + 1] * vector[j + 1])
  IN [garbler |-> matrix, evaluator |-> vector,
      expected |-> IF draws = <<>> THEN vector
                   ELSE [i \in 1 .. n |-> sum(i) % 2 ^ (Width \div 2)]]

password_files(n, draws) ==
  LET hash(i) == IF draws # <<>> THEN draws[i + 1] ELSE IF i = 0 THEN 0 ELSE 1
  IN [garbler |-> Table(n, LAMBDA i : <<hash(i)>> \o Zeros(7) \o <<i + 1>>),
      evaluator |-> Table(n, LAMBDA i : Zeros(8) \o <<n - i>>),
      expected |-> Table(n, LAMBDA i : <<IF hash(i) = 0 THEN i + 1 ELSE 0>>
                                         \o (IF i + 1 # n THEN <<0>> ELSE <<>>))]

aspirin_files(n) ==
  [garbler |-> Table(n, LAMBDA i : <<1, i, IF i = 0 THEN 0 ELSE 1>>),
   evaluator |-> Table(n, LAMBDA i : <<2, n - i - 1, 0>>),
   expected |-> <<n - 1>>]

comorbidity_files(n) ==
  [garbler |-> Table(n * Ratio, LAMBDA p : Wide(p) \o <<IF p < n THEN MatchedDiag(p) ELSE 0>>),
   evaluator |-> Table(n, LAMBDA i : Wide(n - 1 - i) \o <<0>>),
   expected |-> <<HighDiag>> \o Wide(n - UpTo(KTop - 1))
                  \o Table(KTop - 1, LAMBDA d : <<d>> \o Wide(KTop - d))]

(* draws is <<>> without the option "random". *)
example_files(name, n, draws) ==
  CASE name = "merge_sorted" -> merge_sorted_files(n)
    [] name = "full_sort" -> full_sort_files(n)
    [] name = "loop_join" -> loop_join_files(n)
    [] name = "matrix_vector_multiply" -> matrix_vector_multiply_files(n, draws)
    [] name = "password" -> password_files(n, draws)
    [] name = "aspirin" -> aspirin_files(n)
    [] name = "comorbidity" -> comorbidity_files(n)
=============================================================================
