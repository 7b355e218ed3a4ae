-------------------------- MODULE ThreadPool_proofs --------------------------
(***************************************************************************)
(* For every set of workers and of tasks: no task runs twice, none that    *)
(* was refused runs, and all that were accepted have run when the          *)
(* destructor returns.                                                     *)
(*                                                                         *)
(* EachOnce is not inductive.  What has to be known besides is where an    *)
(* accepted task is: in the queue, taken by a worker, or run, in one of    *)
(* these places and once (Placed); and that a worker only leaves when the  *)
(* queue is empty for good (Emptied).                                      *)
(***************************************************************************)
EXTENDS ThreadPool, TLAPS

Queued(t) == \E i \in 1 .. Len(tasks) : tasks[i] = t
Taken(t) == \E w \in Workers : running[w] = t

(* No task is in two places, or twice in one.                              *)
Once ==
  /\ \A i, j \in 1 .. Len(tasks) : tasks[i] = tasks[j] => i = j
  /\ \A v, w \in Workers : (running[v] = running[w] /\ running[v] # Nothing) => v = w
  /\ \A t \in Tasks : Queued(t) => ~Taken(t) /\ ran[t] = 0
  /\ \A t \in Tasks : Taken(t) => ran[t] = 0

(* A task has a place exactly if it was accepted.                          *)
Placed ==
  \A t \in Tasks : IF t \in accepted THEN Queued(t) \/ Taken(t) \/ ran[t] = 1
                   ELSE ~Queued(t) /\ ~Taken(t) /\ ran[t] = 0

(* A worker holds a task exactly while it runs one, and leaves only when   *)
(* there is none and will be none.                                         *)
Emptied ==
  /\ \A w \in Workers : running[w] # Nothing <=> pc[w] \in {"task", "notify"}
  /\ \A w \in Workers : pc[w] = "gone" => stop /\ tasks = <<>>
  /\ pc[Owner] = "joined" => \A w \in Workers : pc[w] = "gone"

IInv == TypeOK /\ Once /\ Placed /\ Emptied

USE PoolAssumption

(* Initially the pool is empty and idle (ThreadPool's constructor).        *)
LEMMA InitInv == Init => IInv
<1> SUFFICES ASSUME Init PROVE IInv
  OBVIOUS
<1>1. TypeOK
  <2>1. tasks = <<>> /\ stop = FALSE
    BY DEF Init
  <2>2. tasks \in Seq(Tasks)
    BY <2>1
  <2>3. stop \in BOOLEAN
    BY <2>1
  <2>4. /\ asleep \subseteq Workers /\ awaited = Nothing /\ got \subseteq Tasks
        /\ accepted \subseteq Tasks /\ refused \subseteq Tasks
    BY DEF Init
  <2>5. /\ pc = [t \in Workers \cup {Owner} |-> IF t = Owner THEN "owner" ELSE "wait"]
        /\ running \in [Workers -> Tasks \cup {Nothing}] /\ ran \in [Tasks -> Nat]
    BY DEF Init
  <2>6. /\ pc \in [Workers \cup {Owner} -> Places] /\ pc[Owner] = "owner"
        /\ \A w \in Workers : pc[w] \in WorkerPlaces
    BY <2>5 DEF Places, WorkerPlaces, OwnerPlaces
  <2> QED
    BY <2>2, <2>3, <2>4, <2>5, <2>6 DEF TypeOK
<1>2. \A t \in Tasks : ~Queued(t) /\ ~Taken(t) /\ ran[t] = 0
  BY DEF Init, Queued, Taken
<1>3. Once /\ Placed /\ Emptied
  BY <1>2 DEF Init, Once, Placed, Emptied
<1> QED
  BY <1>1, <1>3 DEF IInv

(* An accepted task is appended once: it is new.                           *)
LEMMA EnqueueInv ==
  ASSUME IInv, NEW by \in Workers \cup {Owner}, NEW t \in Tasks, NEW then \in Places,
         by \in Workers => pc[by] = "task" /\ then = "notify",
         by = Owner => pc[by] = "owner" /\ then = "notify",
         Enqueue(by, t, then)
  PROVE  IInv'
<1>1. CASE stop
  <2>1. /\ refused' = refused \cup {t}
        /\ UNCHANGED <<tasks, accepted, pc, stop, asleep, running, awaited, got, ran>>
    BY <1>1 DEF Enqueue, futures
  <2>2. TypeOK'
    BY <2>1 DEF IInv, TypeOK
  <2>3. Once' /\ Placed' /\ Emptied'
    BY <2>1 DEF IInv, Once, Placed, Emptied, Queued, Taken
  <2> QED
    BY <2>2, <2>3 DEF IInv
<1>2. CASE ~stop
  <2>1. /\ tasks' = Append(tasks, t) /\ accepted' = accepted \cup {t}
        /\ pc' = [pc EXCEPT ![by] = then] /\ t \notin accepted
        /\ UNCHANGED <<refused, stop, asleep, running, awaited, got, ran>>
    BY <1>2 DEF Enqueue, New, futures
  <2>2. TypeOK'
    BY <2>1 DEF IInv, TypeOK, Places, WorkerPlaces, OwnerPlaces
  <2>3. /\ Len(tasks') = Len(tasks) + 1 /\ Len(tasks) \in Nat
        /\ tasks'[Len(tasks) + 1] = t
        /\ \A i \in 1 .. Len(tasks) : tasks'[i] = tasks[i]
    BY <2>1 DEF IInv, TypeOK
  <2>4. \A u \in Tasks : /\ Queued(u)' <=> (Queued(u) \/ u = t)
                         /\ Taken(u)' <=> Taken(u)
    BY <2>1, <2>3 DEF Queued, Taken
  <2>5. ~Queued(t) /\ ~Taken(t) /\ ran[t] = 0
    BY <2>1 DEF IInv, Placed
  <2>6. Once'
    <3>1. \A i, j \in 1 .. Len(tasks') : tasks'[i] = tasks'[j] => i = j
      BY <2>3, <2>5 DEF Queued, IInv, Once
    <3> QED
      BY <3>1, <2>1, <2>4, <2>5 DEF IInv, Once
  <2>7. Placed'
    BY <2>1, <2>4, <2>5 DEF IInv, Placed
  <2>8. Emptied'
    BY <1>2, <2>1 DEF IInv, TypeOK, Emptied
  <2> QED
    BY <2>2, <2>6, <2>7, <2>8 DEF IInv
<1> QED
  BY <1>1, <1>2 DEF IInv, TypeOK

(* A step that touches neither queue nor tasks, and moves one thread from  *)
(* a place to another of the same kind.                                    *)
LEMMA MoveInv ==
  ASSUME IInv, NEW by \in Workers \cup {Owner}, NEW then \in Places,
         by \in Workers => pc[by] = "notify" /\ then = "task",
         by = Owner => then \in OwnerPlaces \ {"joined"},
         pc' = [pc EXCEPT ![by] = then], asleep' \subseteq Workers,
         stop' = stop, got' \subseteq Tasks,
         awaited' \in IF pc'[Owner] = "future" THEN Tasks ELSE {Nothing},
         UNCHANGED <<tasks, running, accepted, refused, ran>>
  PROVE  IInv'
<1>1. TypeOK'
  BY DEF IInv, TypeOK, Places, WorkerPlaces, OwnerPlaces
<1>2. Once' /\ Placed'
  BY DEF IInv, Once, Placed, Queued, Taken
<1>3. Emptied'
  BY DEF IInv, TypeOK, Emptied
<1> QED
  BY <1>1, <1>2, <1>3 DEF IInv

(* The invariant survives a worker's steps.                                *)
LEMMA WorkerInv == ASSUME IInv, NEW w \in Workers, Worker(w) \/ Spurious(w)
                   PROVE  IInv'
<1>1. CASE Sleep(w) \/ Spurious(w)
  BY <1>1 DEF Sleep, Spurious, IInv, TypeOK, Once, Placed, Emptied, Queued, Taken, futures
<1>2. CASE Take(w) /\ Leaves
  <2>1. /\ pc' = [pc EXCEPT ![w] = "gone"] /\ stop /\ tasks = <<>> /\ pc[w] = "wait"
        /\ UNCHANGED <<tasks, running, stop, asleep, awaited, got, accepted, refused, ran>>
    BY <1>2 DEF Take, Leaves, futures
  <2>2. TypeOK'
    BY <2>1 DEF IInv, TypeOK, Places, WorkerPlaces
  <2>3. Once' /\ Placed'
    BY <2>1 DEF IInv, Once, Placed, Queued, Taken
  <2>4. Emptied'
    BY <2>1 DEF IInv, TypeOK, Emptied
  <2> QED
    BY <2>2, <2>3, <2>4 DEF IInv
<1>3. CASE Take(w) /\ ~Leaves
  <2> DEFINE t == Head(tasks)
  <2>1. /\ running' = [running EXCEPT ![w] = t] /\ tasks' = Tail(tasks) /\ tasks # <<>>
        /\ pc' = [pc EXCEPT ![w] = "task"] /\ pc[w] = "wait"
        /\ UNCHANGED <<stop, asleep, awaited, got, accepted, refused, ran>>
    BY <1>3 DEF Take, Leaves, MayPass, futures
  <2>2. /\ Len(tasks) \in Nat \ {0} /\ Len(tasks') = Len(tasks) - 1
        /\ t = tasks[1] /\ t \in Tasks
        /\ \A i \in 1 .. Len(tasks') : tasks'[i] = tasks[i + 1]
    BY <2>1 DEF IInv, TypeOK
  <2>3. running[w] = Nothing
    BY <2>1 DEF IInv, TypeOK, Emptied
  <2> HIDE DEF t
  <2>4. TypeOK'
    BY <2>1, <2>2 DEF IInv, TypeOK, Places, WorkerPlaces
  <2>5. Queued(t) /\ ~Taken(t) /\ ran[t] = 0
    BY <2>2 DEF Queued, IInv, Once
  <2>6. \A u \in Tasks : Queued(u)' <=> (Queued(u) /\ u # t)
    <3>1. \A i, j \in 1 .. Len(tasks) : tasks[i] = tasks[j] => i = j
      BY DEF IInv, Once
    <3>2. ASSUME NEW u \in Tasks, Queued(u)' PROVE Queued(u) /\ u # t
      <4>1. PICK i \in 1 .. Len(tasks') : tasks'[i] = u
        BY <3>2 DEF Queued
      <4>2. i + 1 \in 1 .. Len(tasks) /\ tasks[i + 1] = u /\ i + 1 # 1 /\ 1 \in 1 .. Len(tasks)
        BY <4>1, <2>2
      <4> QED
        BY <4>2, <3>1, <2>2 DEF Queued
    <3>3. ASSUME NEW u \in Tasks, Queued(u), u # t PROVE Queued(u)'
      <4>1. PICK i \in 1 .. Len(tasks) : tasks[i] = u
        BY <3>3 DEF Queued
      <4>2. i - 1 \in 1 .. Len(tasks') /\ tasks'[i - 1] = u
        BY <4>1, <3>3, <2>2
      <4> QED
        BY <4>2 DEF Queued
    <3> QED
      BY <3>2, <3>3
  <2>7. \A u \in Tasks : Taken(u)' <=> (Taken(u) \/ u = t)
    BY <2>1, <2>2, <2>3 DEF Taken, IInv, TypeOK
  <2>8. Once'
    <3>1. \A i, j \in 1 .. Len(tasks') : tasks'[i] = tasks'[j] => i = j
      <4> SUFFICES ASSUME NEW i \in 1 .. Len(tasks'), NEW j \in 1 .. Len(tasks'),
                          tasks'[i] = tasks'[j]
                   PROVE  i = j
        OBVIOUS
      <4>1. i + 1 \in 1 .. Len(tasks) /\ j + 1 \in 1 .. Len(tasks)
        BY <2>2
      <4>2. tasks[i + 1] = tasks[j + 1]
        BY <2>2
      <4>3. i + 1 = j + 1
        BY <4>1, <4>2 DEF IInv, Once
      <4> QED
        BY <4>3
    <3>2. \A v, u \in Workers : (running'[v] = running'[u] /\ running'[v] # Nothing) => v = u
      BY <2>1, <2>5, <2>2 DEF IInv, Once, TypeOK, Taken
    <3> QED
      BY <3>1, <3>2, <2>1, <2>5, <2>6, <2>7 DEF IInv, Once
  <2>9. Placed'
    BY <2>1, <2>2, <2>5, <2>6, <2>7 DEF IInv, Placed
  <2>10. Emptied'
    <3>1. \A v \in Workers : pc[v] # "gone"
      BY <2>1 DEF IInv, Emptied
    <3>2. pc[Owner] # "joined"
      BY <3>1 DEF IInv, Emptied
    <3> QED
      BY <3>1, <3>2, <2>1, <2>2 DEF IInv, TypeOK, Emptied
  <2> QED
    BY <2>4, <2>8, <2>9, <2>10 DEF IInv
<1>4. CASE TaskRuns(w)
  <2> DEFINE t == running[w]
  <2>1. /\ ran' = [ran EXCEPT ![t] = @ + 1] /\ running' = [running EXCEPT ![w] = Nothing]
        /\ pc' = [pc EXCEPT ![w] = "wait"] /\ pc[w] = "task"
        /\ UNCHANGED <<tasks, stop, asleep, awaited, got, accepted, refused>>
    BY <1>4 DEF TaskRuns, futures
  <2>2. t \in Tasks
    BY <2>1 DEF IInv, TypeOK, Emptied
  <2>3. Taken(t) /\ ~Queued(t) /\ ran[t] = 0 /\ t \in accepted
    BY <2>2 DEF IInv, Once, Placed, Taken
  <2>4. \A u \in Tasks : /\ Queued(u)' <=> Queued(u)
                         /\ Taken(u)' <=> (Taken(u) /\ u # t)
    BY <2>1, <2>2 DEF Queued, Taken, IInv, TypeOK, Once
  <2>5. \A u \in Tasks : ran'[u] = IF u = t THEN 1 ELSE ran[u]
    BY <2>1, <2>2, <2>3 DEF IInv, TypeOK
  <2> HIDE DEF t
  <2>6. TypeOK'
    BY <2>1, <2>2 DEF IInv, TypeOK, Places, WorkerPlaces
  <2>7. Once'
    BY <2>1, <2>3, <2>4, <2>5 DEF IInv, Once, TypeOK
  <2>8. Placed'
    BY <2>1, <2>2, <2>3, <2>4, <2>5 DEF IInv, Placed
  <2>9. Emptied'
    BY <2>1 DEF IInv, TypeOK, Emptied
  <2> QED
    BY <2>6, <2>7, <2>8, <2>9 DEF IInv
<1>5. CASE TaskEnqueues(w)
  <2>1. PICK t \in Children : Enqueue(w, t, "notify")
    BY <1>5 DEF TaskEnqueues
  <2> QED
    BY <2>1, <1>5, EnqueueInv DEF TaskEnqueues, Places, WorkerPlaces
<1>6. CASE TaskNotifies(w)
  <2>1. /\ pc[w] = "notify" /\ pc' = [pc EXCEPT ![w] = "task"] /\ asleep' \subseteq Workers
        /\ UNCHANGED <<tasks, stop, running, awaited, got, accepted, refused, ran>>
    BY <1>6 DEF TaskNotifies, NotifyOne, futures, IInv, TypeOK
  <2> QED
    BY <2>1, MoveInv DEF IInv, TypeOK, Places, WorkerPlaces
<1> QED
  BY <1>1, <1>2, <1>3, <1>4, <1>5, <1>6 DEF Worker

(* And the owner's.                                                        *)
LEMMA OwnerInv == ASSUME IInv, Owns PROVE IInv'
<1>1. CASE OwnerEnqueues
  <2>1. PICK t \in Tasks \ Children : Enqueue(Owner, t, "notify")
    BY <1>1 DEF OwnerEnqueues
  <2> QED
    BY <2>1, <1>1, EnqueueInv DEF OwnerEnqueues, Places, OwnerPlaces
<1>2. CASE OwnerNotifies \/ NotifiesAll
  <2>1. PICK then \in {"owner", "join"} :
          /\ pc' = [pc EXCEPT ![Owner] = then] /\ asleep' \subseteq Workers /\ awaited = Nothing
          /\ UNCHANGED <<tasks, stop, running, awaited, got, accepted, refused, ran>>
    BY <1>2 DEF OwnerNotifies, NotifyOne, NotifiesAll, futures, IInv, TypeOK
  <2> QED
    BY <2>1, MoveInv DEF IInv, TypeOK, Places, OwnerPlaces
<1>3. CASE WaitsForFuture
  <2>1. /\ pc' = [pc EXCEPT ![Owner] = "future"] /\ awaited' \in Tasks /\ got' = got
        /\ UNCHANGED <<tasks, stop, asleep, running, accepted, refused, ran>>
    BY <1>3 DEF WaitsForFuture, IInv, TypeOK
  <2> QED
    BY <2>1, MoveInv DEF IInv, TypeOK, Places, OwnerPlaces
<1>4. CASE GetsFuture
  <2>1. /\ pc' = [pc EXCEPT ![Owner] = "owner"] /\ awaited' = Nothing /\ got' \subseteq Tasks
        /\ UNCHANGED <<tasks, stop, asleep, running, accepted, refused, ran>>
    BY <1>4 DEF GetsFuture, IInv, TypeOK
  <2> QED
    BY <2>1, MoveInv DEF IInv, TypeOK, Places, OwnerPlaces
<1>5. CASE Stops
  <2>1. /\ pc[Owner] = "owner" /\ stop' = TRUE /\ pc' = [pc EXCEPT ![Owner] = "notify_all"]
        /\ UNCHANGED <<tasks, asleep, running, awaited, got, accepted, refused, ran>>
    BY <1>5 DEF Stops, futures
  <2>2. TypeOK'
    BY <2>1 DEF IInv, TypeOK, Places, OwnerPlaces
  <2>3. Once' /\ Placed'
    BY <2>1 DEF IInv, Once, Placed, Queued, Taken
  <2>4. Emptied'
    BY <2>1 DEF IInv, TypeOK, Emptied
  <2> QED
    BY <2>2, <2>3, <2>4 DEF IInv
<1>6. CASE Joins
  <2>1. /\ pc[Owner] = "join" /\ pc' = [pc EXCEPT ![Owner] = "joined"] /\ \A w \in Workers : pc[w] = "gone"
        /\ UNCHANGED <<tasks, stop, asleep, running, awaited, got, accepted, refused, ran>>
    BY <1>6 DEF Joins, futures
  <2>2. TypeOK'
    BY <2>1 DEF IInv, TypeOK, Places, OwnerPlaces
  <2>3. Once' /\ Placed'
    BY <2>1 DEF IInv, Once, Placed, Queued, Taken
  <2>4. Emptied'
    BY <2>1 DEF IInv, TypeOK, Emptied
  <2> QED
    BY <2>2, <2>3, <2>4 DEF IInv
<1> QED
  BY <1>1, <1>2, <1>3, <1>4, <1>5, <1>6 DEF Owns

(* Wherever a task is, it is there once, and a worker that has left found  *)
(* the queue empty for good.                                               *)
THEOREM Invariance == Spec => []IInv
<1>1. IInv /\ [Next]_vars => IInv'
  <2> SUFFICES ASSUME IInv, [Next]_vars PROVE IInv'
    OBVIOUS
  <2>1. CASE Next
    BY <2>1, WorkerInv, OwnerInv DEF Next
  <2>2. CASE UNCHANGED vars
    BY <2>2 DEF vars, futures, IInv, TypeOK, Once, Placed, Emptied, Queued, Taken
  <2> QED
    BY <2>1, <2>2
<1> QED
  BY InitInv, <1>1, PTL DEF Spec

(* Every task that enqueue accepted runs once, and has run when the        *)
(* destructor returns (~ThreadPool); none that it refused runs.            *)
THEOREM PoolRunsEachOnce == Spec => []EachOnce
<1>1. IInv => EachOnce
  <2> SUFFICES ASSUME IInv PROVE EachOnce
    OBVIOUS
  <2>1. \A t \in Tasks : ran[t] <= IF t \in accepted THEN 1 ELSE 0
    <3> SUFFICES ASSUME NEW t \in Tasks PROVE ran[t] <= IF t \in accepted THEN 1 ELSE 0
      OBVIOUS
    <3>1. ran[t] = 0 \/ (t \in accepted /\ ran[t] = 1)
      BY DEF IInv, Once, Placed
    <3> QED
      BY <3>1
  <2>2. ASSUME pc[Owner] = "joined", NEW t \in accepted PROVE ran[t] = 1
    <3>1. PICK w \in Workers : TRUE
      OBVIOUS
    <3>2. \A v \in Workers : running[v] = Nothing /\ tasks = <<>>
      BY <2>2 DEF IInv, Emptied
    <3>3. t \in Tasks /\ t # Nothing
      BY DEF IInv, TypeOK
    <3>4. ~Taken(t)
      BY <3>2, <3>3 DEF Taken
    <3>5. ~Queued(t)
      BY <3>1, <3>2 DEF Queued
    <3> QED
      BY <3>3, <3>4, <3>5 DEF IInv, Placed
  <2> QED
    BY <2>1, <2>2 DEF EachOnce
<1> QED
  BY Invariance, <1>1, PTL
=============================================================================
