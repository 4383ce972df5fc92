----------------------------- MODULE ThreadPool -----------------------------
(***************************************************************************)
(* ThreadPool of GraphWrapper.h: workers that wait on a condition variable *)
(* for tasks, clients that enqueue them, and the destructor.               *)
(*                                                                         *)
(* What is done under queue_mutex is one step; a notification is a step of *)
(* its own, since it comes after the mutex is released.  A wait releases   *)
(* the mutex and begins to wait at once, and may end for no reason.  Tasks *)
(* may enqueue tasks.  Clients are done before the pool is destroyed, as   *)
(* for any object.                                                         *)
(***************************************************************************)
EXTENDS Naturals, Sequences, FiniteSets

CONSTANTS
  Workers,
  Clients,
  Tasks,
  NoTask

ASSUME PoolAssumption ==
  /\ Workers # {} /\ Workers \cap Clients = {}
  /\ IsFiniteSet(Workers) /\ IsFiniteSet(Clients)
  /\ NoTask \notin Tasks

VARIABLES
  tasks,        \* the queue
  stop,
  pc,           \* where each worker is
  task,         \* the task each worker runs
  notifying,    \* threads that have enqueued a task and not yet notified
  destructor,   \* where it is
  enqueued,     \* history: all tasks, in the order they came
  taken         \* history: all tasks a worker took, in that order

vars == <<tasks, stop, pc, task, notifying, destructor, enqueued, taken>>

Init ==
  /\ tasks = << >> /\ stop = FALSE
  /\ pc = [w \in Workers |-> "lock"]
  /\ task = [w \in Workers |-> NoTask]
  /\ notifying = {}
  /\ destructor = "alive"
  /\ enqueued = << >> /\ taken = << >>

New == Tasks \ {enqueued[k] : k \in DOMAIN enqueued}

Terminated == \E w \in Workers : pc[w] = "terminated"

-----------------------------------------------------------------------------
(* A client, or the task a worker runs. *)
MayEnqueue(t) ==
  /\ ~ Terminated
  /\ t \notin notifying
  /\ IF t \in Workers THEN pc[t] = "run" ELSE destructor = "alive"

(* Fault: the newest task goes first. *)
enqueue_front(t, f) ==
  /\ MayEnqueue(t)
  /\ tasks' = <<f>> \o tasks
  /\ enqueued' = Append(enqueued, f)
  /\ notifying' = notifying \cup {t}
  /\ UNCHANGED <<stop, pc, task, destructor, taken>>

enqueue(t, f) ==
  /\ MayEnqueue(t)
  /\ tasks' = Append(tasks, f)
  /\ enqueued' = Append(enqueued, f)
  /\ notifying' = notifying \cup {t}
  /\ UNCHANGED <<stop, pc, task, destructor, taken>>

Waiting == {w \in Workers : pc[w] = "wait"}

Wake(ws) == pc' = [w \in Workers |-> IF w \in ws THEN "lock" ELSE pc[w]]

(* Fault: only a first task is worth a notification. *)
notify_if_first(t) ==
  /\ ~ Terminated /\ t \in notifying
  /\ IF Waiting = {} \/ Len(tasks) # 1 THEN UNCHANGED pc
     ELSE \E w \in Waiting : Wake({w})
  /\ notifying' = notifying \ {t}
  /\ UNCHANGED <<tasks, stop, task, destructor, enqueued, taken>>

notify_one(t) ==
  /\ ~ Terminated /\ t \in notifying
  /\ IF Waiting = {} THEN UNCHANGED pc ELSE \E w \in Waiting : Wake({w})
  /\ notifying' = notifying \ {t}
  /\ UNCHANGED <<tasks, stop, task, destructor, enqueued, taken>>

-----------------------------------------------------------------------------
(* A worker holds the mutex: it waits, takes a task, or returns. *)
wait(w) ==
  /\ ~ Terminated /\ pc[w] = "lock"
  /\ ~ stop /\ tasks = << >>
  /\ pc' = [pc EXCEPT ![w] = "wait"]
  /\ UNCHANGED <<tasks, stop, task, notifying, destructor, enqueued, taken>>

(* Fault: a wakeup is taken for a task. *)
take_unchecked(w) ==
  /\ ~ Terminated /\ pc[w] = "lock"
  /\ LET next == IF tasks = << >> THEN NoTask ELSE Head(tasks) IN
       /\ task' = [task EXCEPT ![w] = next]
       /\ taken' = Append(taken, next)
  /\ tasks' = IF tasks = << >> THEN tasks ELSE Tail(tasks)
  /\ pc' = [pc EXCEPT ![w] = "run"]
  /\ UNCHANGED <<stop, notifying, destructor, enqueued>>

take(w) ==
  /\ ~ Terminated /\ pc[w] = "lock"
  /\ tasks # << >>
  /\ task' = [task EXCEPT ![w] = Head(tasks)]
  /\ taken' = Append(taken, Head(tasks))
  /\ tasks' = Tail(tasks)
  /\ pc' = [pc EXCEPT ![w] = "run"]
  /\ UNCHANGED <<stop, notifying, destructor, enqueued>>

(* Fault: told to stop, it looks no further. *)
exit_at_once(w) ==
  /\ ~ Terminated /\ pc[w] = "lock"
  /\ stop
  /\ pc' = [pc EXCEPT ![w] = "exited"]
  /\ UNCHANGED <<tasks, stop, task, notifying, destructor, enqueued, taken>>

exit(w) ==
  /\ ~ Terminated /\ pc[w] = "lock"
  /\ stop /\ tasks = << >>
  /\ pc' = [pc EXCEPT ![w] = "exited"]
  /\ UNCHANGED <<tasks, stop, task, notifying, destructor, enqueued, taken>>

(* The task returns, or throws with nobody to catch it. *)
return(w) ==
  /\ ~ Terminated /\ pc[w] = "run"
  /\ w \notin notifying
  /\ pc' = [pc EXCEPT ![w] = "lock"]
  /\ task' = [task EXCEPT ![w] = NoTask]
  /\ UNCHANGED <<tasks, stop, notifying, destructor, enqueued, taken>>

throw(w) ==
  /\ ~ Terminated /\ pc[w] = "run"
  /\ w \notin notifying
  /\ pc' = [pc EXCEPT ![w] = "terminated"]
  /\ UNCHANGED <<tasks, stop, task, notifying, destructor, enqueued, taken>>

SpuriousWakeup ==
  /\ ~ Terminated
  /\ \E w \in Waiting : Wake({w})
  /\ UNCHANGED <<tasks, stop, task, notifying, destructor, enqueued, taken>>

-----------------------------------------------------------------------------
destroy ==
  /\ ~ Terminated
  /\ destructor = "alive" /\ notifying \cap Clients = {}
  /\ stop' = TRUE
  /\ destructor' = "notify"
  /\ UNCHANGED <<tasks, pc, task, notifying, enqueued, taken>>

(* Fault: one worker is told. *)
notify_all_one ==
  /\ ~ Terminated
  /\ destructor = "notify"
  /\ IF Waiting = {} THEN UNCHANGED pc ELSE \E w \in Waiting : Wake({w})
  /\ destructor' = "join"
  /\ UNCHANGED <<tasks, stop, task, notifying, enqueued, taken>>

notify_all ==
  /\ ~ Terminated
  /\ destructor = "notify"
  /\ Wake(Waiting)
  /\ destructor' = "join"
  /\ UNCHANGED <<tasks, stop, task, notifying, enqueued, taken>>

join ==
  /\ destructor = "join"
  /\ \A w \in Workers : pc[w] = "exited"
  /\ destructor' = "gone"
  /\ UNCHANGED <<tasks, stop, pc, task, notifying, enqueued, taken>>

-----------------------------------------------------------------------------
Worker(w) == wait(w) \/ take(w) \/ exit(w)

Next ==
  \/ \E t \in Clients \cup Workers : notify_one(t) \/ \E f \in New : enqueue(t, f)
  \/ \E w \in Workers : Worker(w) \/ return(w) \/ throw(w)
  \/ SpuriousWakeup
  \/ destroy \/ notify_all \/ join

(* Threads are scheduled, queue_mutex goes round, and tasks end. *)
Fairness ==
  /\ \A t \in Clients \cup Workers : WF_vars(notify_one(t))
  /\ \A w \in Workers : WF_vars(Worker(w)) /\ WF_vars(return(w))
  /\ WF_vars(notify_all) /\ WF_vars(join)

Spec     == Init /\ [][Next]_vars
FairSpec == Spec /\ Fairness

-----------------------------------------------------------------------------
(* Every variable has its type. *)
TypeOK ==
  /\ tasks \in Seq(Tasks)
  /\ stop \in BOOLEAN
  /\ pc \in [Workers -> {"lock", "wait", "run", "exited", "terminated"}]
  /\ task \in [Workers -> Tasks \cup {NoTask}]
  /\ notifying \subseteq Clients \cup Workers
  /\ destructor \in {"alive", "notify", "join", "gone"}
  /\ enqueued \in Seq(Tasks) /\ taken \in Seq(Tasks)

(* Tasks are taken once each and in the order they came; no worker returns *)
(* while one is left, be it one enqueued by a task after the destructor has*)
(* begun, so that all have ended when the pool is gone (GraphWrapper.h     *)
(* 104-111).                                                               *)
TasksTakenInOrder ==
  /\ taken \o tasks = enqueued
  /\ (\A w \in Workers : pc[w] = "exited") => tasks = << >>

(* While a worker waits, for each task in the queue there is another that  *)
(* is about to look, or a thread that has yet to notify; and none waits    *)
(* once the destructor has told them all (GraphWrapper.h 103-105, 117-132).*)
Ready == {w \in Workers : pc[w] = "lock"}

NoWakeupLost ==
  /\ Waiting # {} => Len(tasks) <= Cardinality(Ready) + Cardinality(notifying)
  /\ destructor \in {"join", "gone"} => Waiting = {}

(* A task that was enqueued is taken: none lies in the queue while all     *)
(* workers wait (GraphWrapper.h 103-105 and 117-123).                      *)
TasksTaken ==
  \A f \in Tasks :
    f \in {enqueued[k] : k \in DOMAIN enqueued}
      ~> f \in {taken[k] : k \in DOMAIN taken} \/ Terminated

(* The destructor returns (GraphWrapper.h 125-133). *)
DestructorReturns == destructor = "notify" ~> destructor = "gone" \/ Terminated

=============================================================================
