------------------------------ MODULE EmpTool -------------------------------
(***************************************************************************)
(* A run of emp_utils.cpp at both parties, from their input files to the   *)
(* words they both see.                                                    *)
(*                                                                         *)
(* encrypt_file: each party runs a loop of its own, whose length it takes  *)
(* from its file and from the problem size.  A round feeds a word of ALICE *)
(* and a word of BOB, and the k-th feed of one party is the k-th of the    *)
(* other, whatever each means by it.  Then both evaluate the program, and  *)
(* decrypt_file reveals the result in batches.                             *)
(*                                                                         *)
(* The files are those of example_input.cpp; tables that are laid out as   *)
(* the programs expect them and hold anything; or example files of other   *)
(* sizes than the problem size the parties are started with.               *)
(*                                                                         *)
(* An operator named Bad... is the one after it with a seeded fault; it is *)
(* used nowhere, and shows that the properties notice such a fault.        *)
(***************************************************************************)
EXTENDS Programs, ExampleInput

CONSTANTS Bs,         \* decrypt_file's bs, 4096
          Examples,   \* bound: the programs to run on example files
          Sizes,      \* bound: and their problem sizes
          Tables,     \* bound: the programs to run on tables
          MixedSizes, \* bound: the sizes of files and problem that do not agree
          TableSizes, \* bound: the records of each party's table
          Ids         \* bound: the keys in a table

Names == {"merge_sorted", "full_sort", "loop_join", "password", "aspirin",
          "matrix_vector_multiply", "comorbidity"}

ASSUME EmpToolAssumption ==
  /\ Bs \in Nat \ {0}
  /\ Examples \subseteq Names
  /\ Sizes \subseteq Nat \ {0}
  /\ MixedSizes \subseteq Nat \ {0}
  /\ Tables \subseteq {"merge_sorted", "password", "aspirin"}
  /\ TableSizes \subseteq Nat \ {0}
  /\ Ids \subseteq 0 .. 2 ^ (Width - 1) - 1   \* non-negative as Integers

Party == {"ALICE", "BOB"}
Other(p) == IF p = "ALICE" THEN "BOB" ELSE "ALICE"

Files(garbler, evaluator) == [p \in Party |-> IF p = "ALICE" THEN garbler ELSE evaluator]

-----------------------------------------------------------------------------
(* What the parties are started with. *)

ExampleJob(kind, name, n, draws) ==
  LET files == example_files(name, n, draws)
  IN [kind |-> kind, name |-> name, n |-> n, expected |-> files.expected,
      file |-> Files(files.garbler, files.evaluator)]

ExampleJobs == {ExampleJob("example", name, n, <<>>) : name \in Examples, n \in Sizes}

RandomJobs ==
  UNION {{ExampleJob("random", name, n, draws) : draws \in Random(name, n)}
           : name \in Examples, n \in RandomUsers \cup RandomMatrices}

(* ALICE's file is of a records, BOB's of b, and the problem size is n.    *)
MixedJobs ==
  {[kind |-> "mixed", name |-> name, n |-> s[1], expected |-> <<>>,
    file |-> Files(example_files(name, s[2], <<>>).garbler,
                   example_files(name, s[3], <<>>).evaluator)]
     : name \in Examples, s \in {s \in MixedSizes \X MixedSizes \X MixedSizes : {s[2], s[3]} # {s[1]}}}

Ascending(S) == SetToSortSeq(S, <)

(* The records of a table whose keys are the set S, in this order of keys. *)
RecordsOf(name, keys) ==
  LET row(f, i) == CASE name = "merge_sorted" -> <<keys[i]>> \o [w \in 1 .. 3 |-> f[i]]
                     [] name = "password" -> <<f[i]>> \o Zeros(7) \o <<keys[i]>>
                     [] name = "aspirin" -> <<keys[i] % 2, keys[i] \div 2, f[i]>>
  IN {FlattenSeq([i \in DOMAIN keys |-> row(f, i)]) : f \in [DOMAIN keys -> {0, 1}]}

(* ALICE's table ascends, BOB's descends.  Only users may be at both.      *)
TableFiles(name, n) ==
  UNION {{Files(a, b) : a \in RecordsOf(name, Ascending(S)),
                        b \in RecordsOf(name, Reverse(Ascending(T)))}
           : <<S, T>> \in {<<S, T>> \in kSubset(n, Ids) \X kSubset(n, Ids) :
                             name = "password" \/ S \cap T = {}}}

TableJobs ==
  UNION {{[name |-> name, n |-> n, kind |-> "table", expected |-> <<>>, file |-> file]
             : file \in TableFiles(name, n)}
           : name \in Tables, n \in TableSizes}

VARIABLES job,     \* how the parties were started; it does not change
          feeds,   \* feeds[p]: the Integers p has fed, each with the slot of
                   \* output_data it went to, or "dummy"
          phase,   \* how far main is
          result,  \* output_data of the program
          shown    \* output_data of decrypt_file, at both parties

vars == <<job, feeds, phase, result, shown>>

Feed == [owner : Party, value : Word, slot : Nat \cup {-1}]
dummy == -1

Own(p) == Len(job.file[p])                        \* input_data.size()
get_other_input_size(p) ==
  CASE job.name \in {"merge_sorted", "full_sort", "loop_join"} -> job.n * 4
    [] job.name = "matrix_vector_multiply" -> IF p = "ALICE" THEN job.n ELSE job.n * job.n
    [] job.name = "password" -> job.n * 9
    [] job.name = "aspirin" -> job.n * 3
    [] job.name = "comorbidity" -> IF p = "ALICE" THEN job.n * 3 ELSE job.n * Ratio * 3

Both(p) == {Own(p), get_other_input_size(p)}
iters(p) == Max(Both(p))

(* p's next feed: an even one is ALICE's, an odd one BOB's. *)
Round(p) == Len(feeds[p]) \div 2
Owner(p) == IF Len(feeds[p]) % 2 = 0 THEN "ALICE" ELSE "BOB"
OwnWord(p) == IF p = Owner(p) /\ Round(p) < Own(p) THEN job.file[p][Round(p) + 1] ELSE 0

(* BOB's words go after his own size instead of iters. *)
BadSlotOwn(p) == IF Owner(p) = "ALICE" THEN Round(p)
                 ELSE IF Round(p) < Min(Both(p)) THEN Round(p) + Own(p) ELSE dummy

Slot(p) == IF Owner(p) = "ALICE" THEN Round(p)
           ELSE IF Round(p) < Min(Both(p)) THEN Round(p) + iters(p) ELSE dummy

Encrypting(p) == Round(p) < iters(p)
Size(p) == Own(p) + get_other_input_size(p)      \* output_data.size()

Init == /\ job \in ExampleJobs \cup RandomJobs \cup MixedJobs \cup TableJobs
        /\ feeds = [p \in Party |-> <<>>]
        /\ phase = "encrypt"
        /\ result = <<>>
        /\ shown = <<>>

-----------------------------------------------------------------------------
(* The party whose word it is not waits for the owner's message. *)
Encrypt(p) ==
  /\ phase = "encrypt" /\ Encrypting(p)
  /\ Owner(p) # p => Len(feeds[Other(p)]) > Len(feeds[p])
  /\ feeds' = [feeds EXCEPT ![p] = Append(@, [owner |-> Owner(p), value |-> OwnWord(p), slot |-> Slot(p)])]
  /\ UNCHANGED <<job, phase, result, shown>>

(* The value a slot has: what its owner put into the feed that filled it.  *)
Data == [s \in 1 .. Size("ALICE") |->
           LET ks == {k \in DOMAIN feeds["ALICE"] : feeds["ALICE"][k].slot = s - 1}
           IN IF ks = {} THEN 0
              ELSE feeds[feeds["ALICE"][Max(ks)].owner][Max(ks)].value]

(* A feed that the other party does not make, or vectors of two sizes: what*)
(* one party sends from then on is not what the other reads.               *)
Astray ==
  /\ phase = "encrypt"
  /\ \/ \E p \in Party : /\ Encrypting(p) /\ ~Encrypting(Other(p))
                         /\ Len(feeds[p]) >= Len(feeds[Other(p)])
     \/ (\A p \in Party : ~Encrypting(p)) /\ Size("ALICE") # Size("BOB")
  /\ phase' = "astray"
  /\ UNCHANGED <<job, feeds, result, shown>>

Compute ==
  /\ phase = "encrypt" /\ \A p \in Party : ~Encrypting(p)
  /\ Size("ALICE") = Size("BOB")
  /\ \E junk \in {0, 2 ^ Width - 1} : result' = Output(job.name, Data, job.n, junk)
  /\ phase' = "decrypt"
  /\ UNCHANGED <<job, feeds, shown>>

(* The batch is shown whole, and goes on after the end of the result.      *)
BadBatchEnd == Len(shown) + Bs
BatchEnd == Min({Len(shown) + Bs, Len(result)})

DecryptBatch ==
  /\ phase = "decrypt" /\ Len(shown) < Len(result)
  /\ shown' = shown \o [k \in 1 .. BatchEnd - Len(shown) |-> At(result, Len(shown) + k - 1, 0)]
  /\ UNCHANGED <<job, feeds, phase, result>>

Finish == /\ phase = "decrypt" /\ Len(shown) >= Len(result)
          /\ phase' = "done"
          /\ UNCHANGED <<job, feeds, result, shown>>

Terminated == phase \in {"done", "astray"} /\ UNCHANGED vars

Next == \/ \E p \in Party : Encrypt(p)
        \/ Astray \/ Compute \/ DecryptBatch \/ Finish \/ Terminated

Spec == Init /\ [][Next]_vars

-----------------------------------------------------------------------------
(* What one party feeds as its k-th Integer the other feeds there too, as  *)
(* the same owner's, and no slot is past the end of the vector, whatever   *)
(* the files and the problem size.  If the two parties take one larger and *)
(* one smaller number each from its own file and the problem size, they    *)
(* never go astray, each word goes to one slot at both, and the programs   *)
(* find ALICE's words, zeros up to the larger number, and of BOB's words as*)
(* many as the smaller number: the rest is fed and dropped (encrypt_file). *)
(* If each party's file is as long as the other takes it for, that is both *)
(* files whole.                                                            *)
Alike == Both("ALICE") = Both("BOB")
Agreed == \A p \in Party : Own(p) = get_other_input_size(Other(p))
SameFeeds ==
  LET a == job.file["ALICE"]
      b == job.file["BOB"]
  IN /\ \A p \in Party : \A k \in DOMAIN feeds[p] :
          feeds[p][k] \in Feed /\ feeds[p][k].slot < Size(p)
     /\ \A k \in DOMAIN feeds["ALICE"] \cap DOMAIN feeds["BOB"] :
          /\ feeds["ALICE"][k].owner = feeds["BOB"][k].owner
          /\ Alike => feeds["ALICE"][k].slot = feeds["BOB"][k].slot
     /\ phase = "astray" => ~Alike
     /\ phase \notin {"encrypt", "astray"} =>
          /\ Alike
          /\ Data = a \o Zeros(iters("ALICE") - Len(a)) \o SubSeq(b, 1, Min(Both("BOB")))
          /\ Agreed => Data = a \o b

(* On the example files both parties end with the expected file.  With the *)
(* option "random", each word of matrix_vector_multiply is the exact sum,  *)
(* which is the expected one unless it has more than the 16 bits           *)
(* example_input.cpp adds in; and password shows just the users who match, *)
(* each in the place expected if the merge gets a power of two of rows.    *)
ExactSum(i) == Total(job.n, LAMBDA j : job.file["ALICE"][(i - 1) * job.n + j + 1] * job.file["BOB"][j + 1])
MatchesExpected ==
  /\ phase = "done" /\ job.kind = "example" => shown = job.expected
  /\ phase = "done" /\ job.kind = "random" =>
       CASE job.name = "matrix_vector_multiply" ->
              /\ shown = [i \in 1 .. job.n |-> ExactSum(i) % 2 ^ Width]
              /\ \A i \in 1 .. job.n :
                   ExactSum(i) < 2 ^ (Width \div 2) => shown[i] = job.expected[i]
         [] job.name = "password" ->
              /\ PowerOfTwo(2 * job.n) => shown = job.expected
              /\ ToSet(shown) \ {0} = ToSet(job.expected) \ {0}

(* The records of a table, or of a shown file. *)
Split(file, size) == [r \in 1 .. Len(file) \div size |-> SubSeq(file, size * (r - 1) + 1, size * r)]
Records(p, size) == ToSet(Split(job.file[p], size))
AllRecords(size) == Records("ALICE", size) \cup Records("BOB", size)

MergedAnswer ==
  LET rows == Split(shown, 4) IN
  /\ ToSet(rows) = AllRecords(4) /\ Len(shown) = 4 * 2 * job.n
  /\ \A r \in 1 .. Len(rows) - 1 : rows[r][1] < rows[r + 1][1]

PasswordAnswer ==
  SelectSeq(shown, LAMBDA w : w # 0)
    = Ascending({r[9] : r \in Records("ALICE", 9) \cap Records("BOB", 9)})

AspirinAnswer ==
  LET before(r, s) == r[2] = s[2] /\ r[1] < s[1]
      next(r, s) == before(r, s) /\ ~\E t \in AllRecords(3) : before(r, t) /\ before(t, s)
  IN shown = <<Cardinality({r \in AllRecords(3) :
                              r[3] = 1 /\ \E s \in AllRecords(3) : next(r, s) /\ s[3] = 0})>>

(* On any tables, laid out and ordered as the comments of the programs say,*)
(* the parties end with the answer to the query: all records by key; the   *)
(* users with one password at both; how many diagnoses were followed by the*)
(* same patient's event without one (merge_sorted, password, aspirin).     *)
AnswersQuery ==
  phase = "done" /\ job.kind = "table" =>
    CASE job.name = "merge_sorted" -> MergedAnswer
      [] job.name = "password" -> PasswordAnswer
      [] job.name = "aspirin" -> AspirinAnswer
=============================================================================
