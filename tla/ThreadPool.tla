----------------------------- MODULE ThreadPool -----------------------------
(***************************************************************************)
(* emp-tool/utils/ThreadPool.h: workers that take tasks from a queue under *)
(* a lock and sleep on a condition while there are none.  The thread that  *)
(* owns the pool enqueues tasks, may wait for the future of one, and then  *)
(* destroys the pool; a task may itself enqueue another, also when the     *)
(* destructor already runs.  A section under the lock is one step.         *)
(***************************************************************************)
EXTENDS Naturals, Sequences, FiniteSets

CONSTANTS Workers, Owner,      \* the threads
          Tasks, Nothing,
          Children             \* the tasks that are enqueued by a task, not by the owner

ASSUME PoolAssumption == /\ IsFiniteSet(Workers) /\ Workers # {}
                         /\ IsFiniteSet(Tasks) /\ Children \subseteq Tasks
                         /\ Owner \notin Workers /\ Nothing \notin Tasks

VARIABLES
  tasks,      \* the queue
  stop,
  asleep,     \* the workers in condition.wait
  pc,         \* where a worker or the owner is
  running,    \* the task a worker has taken
  awaited,    \* the task whose future the owner waits for
  got,        \* the tasks whose futures it has got: a future gives its value once
  accepted,   \* the tasks enqueue took
  refused,    \* the tasks enqueue threw for
  ran         \* how often a task has run

futures == <<awaited, got>>
vars == <<tasks, stop, asleep, pc, running, futures, accepted, refused, ran>>

Init == /\ tasks = <<>> /\ stop = FALSE /\ asleep = {}
        /\ pc = [t \in Workers \cup {Owner} |-> IF t = Owner THEN "owner" ELSE "wait"]
        /\ running = [w \in Workers |-> Nothing]
        /\ awaited = Nothing /\ got = {}
        /\ accepted = {} /\ refused = {}
        /\ ran = [t \in Tasks |-> 0]

New == Tasks \ (accepted \cup refused)

(* enqueue under the lock; the notification comes after it is released.    *)
Enqueue(by, t, then) ==
  /\ t \in New
  /\ IF stop
     THEN /\ refused' = refused \cup {t}
          /\ UNCHANGED <<tasks, accepted, pc>>
     ELSE /\ tasks' = Append(tasks, t)
          /\ accepted' = accepted \cup {t}
          /\ pc' = [pc EXCEPT ![by] = then]
          /\ UNCHANGED refused
  /\ UNCHANGED <<stop, asleep, running, futures, ran>>

NotifyOne(by, then) ==
  /\ IF asleep = {} THEN UNCHANGED asleep ELSE \E w \in asleep : asleep' = asleep \ {w}
  /\ pc' = [pc EXCEPT ![by] = then]
  /\ UNCHANGED <<tasks, stop, running, futures, accepted, refused, ran>>

-----------------------------------------------------------------------------
(* A worker *)

(* BadLeaves and BadMayPass are what follows them with a seeded fault, and *)
(* used nowhere.                                                           *)
BadLeaves == stop
Leaves == stop /\ tasks = <<>>
BadMayPass == tasks # <<>>
MayPass == stop \/ tasks # <<>>

(* The predicate is evaluated under the lock, before every sleep and after *)
(* every one.                                                              *)
Sleep(w) == /\ pc[w] = "wait" /\ w \notin asleep /\ ~MayPass
            /\ asleep' = asleep \cup {w}
            /\ UNCHANGED <<tasks, stop, pc, running, futures, accepted, refused, ran>>

Take(w) == /\ pc[w] = "wait" /\ w \notin asleep /\ MayPass
           /\ IF Leaves
              THEN /\ pc' = [pc EXCEPT ![w] = "gone"]
                   /\ UNCHANGED <<tasks, running>>
              ELSE /\ running' = [running EXCEPT ![w] = Head(tasks)]
                   /\ tasks' = Tail(tasks)
                   /\ pc' = [pc EXCEPT ![w] = "task"]
           /\ UNCHANGED <<stop, asleep, futures, accepted, refused, ran>>

TaskRuns(w) == /\ pc[w] = "task"
               /\ ran' = [ran EXCEPT ![running[w]] = @ + 1]
               /\ running' = [running EXCEPT ![w] = Nothing]
               /\ pc' = [pc EXCEPT ![w] = "wait"]
               /\ UNCHANGED <<tasks, stop, asleep, futures, accepted, refused>>

TaskEnqueues(w) == /\ pc[w] = "task"
                   /\ \E t \in Children : Enqueue(w, t, "notify")
TaskNotifies(w) == pc[w] = "notify" /\ NotifyOne(w, "task")

Spurious(w) == /\ w \in asleep
               /\ asleep' = asleep \ {w}
               /\ UNCHANGED <<tasks, stop, pc, running, futures, accepted, refused, ran>>

Worker(w) == Sleep(w) \/ Take(w) \/ TaskRuns(w) \/ TaskEnqueues(w) \/ TaskNotifies(w)

-----------------------------------------------------------------------------
(* The owner *)

OwnerEnqueues == /\ pc[Owner] = "owner"
                 /\ \E t \in Tasks \ Children : Enqueue(Owner, t, "notify")
OwnerNotifies == pc[Owner] = "notify" /\ NotifyOne(Owner, "owner")

WaitsForFuture == /\ pc[Owner] = "owner"
                  /\ \E t \in accepted \ (Children \cup got) : awaited' = t
                  /\ pc' = [pc EXCEPT ![Owner] = "future"]
                  /\ UNCHANGED <<tasks, stop, asleep, running, got, accepted, refused, ran>>
GetsFuture == /\ pc[Owner] = "future" /\ ran[awaited] > 0
              /\ awaited' = Nothing /\ got' = got \cup {awaited}
              /\ pc' = [pc EXCEPT ![Owner] = "owner"]
              /\ UNCHANGED <<tasks, stop, asleep, running, accepted, refused, ran>>

(* ~ThreadPool: stop, notify_all, join every worker. *)
Stops == /\ pc[Owner] = "owner"
         /\ stop' = TRUE
         /\ pc' = [pc EXCEPT ![Owner] = "notify_all"]
         /\ UNCHANGED <<tasks, asleep, running, futures, accepted, refused, ran>>
NotifiesAll == /\ pc[Owner] = "notify_all"
               /\ asleep' = {}
               /\ pc' = [pc EXCEPT ![Owner] = "join"]
               /\ UNCHANGED <<tasks, stop, running, futures, accepted, refused, ran>>
Joins == /\ pc[Owner] = "join" /\ \A w \in Workers : pc[w] = "gone"
         /\ pc' = [pc EXCEPT ![Owner] = "joined"]
         /\ UNCHANGED <<tasks, stop, asleep, running, futures, accepted, refused, ran>>

Owns == \/ OwnerEnqueues \/ OwnerNotifies \/ WaitsForFuture \/ GetsFuture
        \/ Stops \/ NotifiesAll \/ Joins

Next == Owns \/ \E w \in Workers : Worker(w) \/ Spurious(w)

(* Every thread runs; nobody has to be woken without a notification.       *)
Fairness == (\A w \in Workers : WF_vars(Worker(w))) /\ WF_vars(Owns)
Spec == Init /\ [][Next]_vars /\ Fairness

-----------------------------------------------------------------------------
(* Properties *)

WorkerPlaces == {"wait", "task", "notify", "gone"}
OwnerPlaces == {"owner", "notify", "future", "notify_all", "join", "joined"}
Places == WorkerPlaces \cup OwnerPlaces
TypeOK == /\ tasks \in Seq(Tasks)
          /\ stop \in BOOLEAN
          /\ asleep \subseteq Workers
          /\ pc \in [Workers \cup {Owner} -> Places]
          /\ \A w \in Workers : pc[w] \in WorkerPlaces
          /\ running \in [Workers -> Tasks \cup {Nothing}]
          /\ awaited \in IF pc[Owner] = "future" THEN Tasks ELSE {Nothing}
          /\ got \subseteq Tasks
          /\ accepted \subseteq Tasks /\ refused \subseteq Tasks
          /\ ran \in [Tasks -> Nat]

(* No task runs twice, none that enqueue threw for runs, and when the      *)
(* destructor has joined the workers every task enqueue took has run: those*)
(* that were in the queue when the pool was stopped too.                   *)
EachOnce == /\ \A t \in Tasks : ran[t] <= IF t \in accepted THEN 1 ELSE 0
            /\ pc[Owner] = "joined" => \A t \in accepted : ran[t] = 1

(* Whoever waits for the future of a task gets it, and the destructor      *)
(* returns: no wake-up is lost between a check of the queue and the sleep, *)
(* nor between enqueue and the notification.                               *)
Returns == /\ (pc[Owner] = "future") ~> (pc[Owner] = "owner")
           /\ <>(pc[Owner] = "joined")
=============================================================================
