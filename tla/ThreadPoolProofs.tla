-------------------------- MODULE ThreadPoolProofs --------------------------
(***************************************************************************)
(* A pool with any number of workers takes any tasks of any clients once   *)
(* each, in the order they came, and leaves none.                          *)
(*                                                                         *)
(* That the workers have not all returned while a task lies in the queue is*)
(* not inductive: a task may come after the last of them has.  It does not,*)
(* for a worker that enqueues is running, a client that enqueues has a pool*)
(* that is not being destroyed, and no worker of such a pool returns.      *)
(* That no wakeup is lost is counted: a step that ends a notification ends *)
(* a wait, and one that takes a worker from the mutex takes a task from the*)
(* queue or finds none there.                                              *)
(***************************************************************************)
EXTENDS ThreadPool, SequenceTheorems, FiniteSetTheorems, TLAPS

StopsForDestructor == stop <=> destructor # "alive"

ReturnsWhenStopped == \A w \in Workers : pc[w] = "exited" => stop

IInv ==
  /\ TypeOK
  /\ StopsForDestructor
  /\ ReturnsWhenStopped
  /\ TasksTakenInOrder

-----------------------------------------------------------------------------
(* The queue at its two ends. *)

LEMMA Enqueued ==
  ASSUME NEW S, NEW s \in Seq(S), NEW q \in Seq(S), NEW f \in S
  PROVE  /\ Append(q, f) \in Seq(S)
         /\ s \o Append(q, f) = Append(s \o q, f)
<1>1. <<f>> \in Seq(S)
  OBVIOUS
<1>2. s \o q \in Seq(S)
  BY ConcatProperties
<1>3. /\ Append(q, f) = q \o <<f>>
      /\ Append(s \o q, f) = (s \o q) \o <<f>>
  BY <1>2, AppendIsConcat
<1>4. (s \o q) \o <<f>> = s \o (q \o <<f>>)
  BY <1>1, ConcatAssociative
<1> QED
  BY <1>1, <1>3, <1>4, ConcatProperties

LEMMA Dequeued ==
  ASSUME NEW S, NEW s \in Seq(S), NEW q \in Seq(S), q # << >>
  PROVE  /\ Head(q) \in S /\ Tail(q) \in Seq(S)
         /\ Append(s, Head(q)) \in Seq(S)
         /\ Append(s, Head(q)) \o Tail(q) = s \o q
<1>1. Head(q) \in S /\ Tail(q) \in Seq(S)
  BY HeadTailProperties
<1>2. <<Head(q)>> \in Seq(S)
  BY <1>1
<1>3. Append(s, Head(q)) = s \o <<Head(q)>>
  BY <1>1, AppendIsConcat
<1>4. (s \o <<Head(q)>>) \o Tail(q) = s \o (<<Head(q)>> \o Tail(q))
  BY <1>1, <1>2, ConcatAssociative
<1>5. <<Head(q)>> \o Tail(q) = q
  <2>1. /\ <<Head(q)>> \o Tail(q) \in Seq(S)
        /\ Len(<<Head(q)>> \o Tail(q)) = 1 + Len(Tail(q))
        /\ \A i \in 1 .. 1 + Len(Tail(q)) :
             (<<Head(q)>> \o Tail(q))[i] =
               IF i <= 1 THEN <<Head(q)>>[i] ELSE Tail(q)[i - 1]
    BY <1>1, <1>2, ConcatProperties
  <2>2. /\ Len(q) \in Nat \ {0}
        /\ Len(Tail(q)) = Len(q) - 1
        /\ \A i \in 1 .. Len(Tail(q)) : Tail(q)[i] = q[i + 1]
    BY HeadTailProperties, EmptySeq
  <2>3. Head(q) = q[1]
    OBVIOUS
  <2>4. \A i \in 1 .. Len(q) : (<<Head(q)>> \o Tail(q))[i] = q[i]
    BY <2>1, <2>2, <2>3
  <2> QED
    BY <2>1, <2>2, <2>4, SeqEqual
<1> QED
  BY <1>1, <1>2, <1>3, <1>4, <1>5, ConcatProperties

-----------------------------------------------------------------------------
(* The invariant holds at first and every step keeps it. *)

LEMMA InitIInv == Init => IInv
<1> SUFFICES ASSUME Init PROVE IInv
  OBVIOUS
<1>1. << >> \in Seq(Tasks) /\ << >> \o << >> = << >>
  BY EmptySeq, ConcatEmptySeq
<1> QED
  BY <1>1 DEF Init, IInv, TypeOK, StopsForDestructor, ReturnsWhenStopped,
              TasksTakenInOrder

LEMMA StepIInv == IInv /\ [Next]_vars => IInv'
<1> SUFFICES ASSUME IInv, [Next]_vars PROVE IInv'
  OBVIOUS
<1> USE DEF IInv, TypeOK, StopsForDestructor, ReturnsWhenStopped,
            TasksTakenInOrder
<1>1. ASSUME NEW t \in Clients \cup Workers, NEW f \in New, enqueue(t, f)
      PROVE  IInv'
  <2>1. f \in Tasks
    BY DEF New
  <2>2. /\ Append(tasks, f) \in Seq(Tasks)
        /\ taken \o Append(tasks, f) = Append(taken \o tasks, f)
    BY <2>1, Enqueued
  <2>3. enqueued' \in Seq(Tasks)
    BY <1>1, <2>1 DEF enqueue
  <2>4. ~ \A w \in Workers : pc[w] = "exited"
    BY <1>1, PoolAssumption DEF enqueue, MayEnqueue
  <2>5. taken' \o tasks' = enqueued'
    BY <1>1, <2>2 DEF enqueue
  <2> QED
    BY <1>1, <2>2, <2>3, <2>4, <2>5 DEF enqueue
<1>2. ASSUME NEW t \in Clients \cup Workers, notify_one(t)
      PROVE  IInv'
  BY <1>2 DEF notify_one, Wake, Waiting
<1>3. ASSUME NEW w \in Workers, wait(w) PROVE IInv'
  BY <1>3 DEF wait
<1>4. ASSUME NEW w \in Workers, take(w) PROVE IInv'
  <2>1. /\ Head(tasks) \in Tasks /\ tasks' \in Seq(Tasks)
        /\ taken' \in Seq(Tasks)
        /\ taken' \o tasks' = taken \o tasks
    BY <1>4, Dequeued DEF take
  <2> QED
    BY <1>4, <2>1 DEF take
<1>5. ASSUME NEW w \in Workers, exit(w) PROVE IInv'
  BY <1>5 DEF exit
<1>6. ASSUME NEW w \in Workers, return(w) PROVE IInv'
  BY <1>6 DEF return
<1>7. ASSUME NEW w \in Workers, throw(w) PROVE IInv'
  BY <1>7 DEF throw
<1>8. CASE SpuriousWakeup
  BY <1>8 DEF SpuriousWakeup, Wake, Waiting
<1>9. CASE destroy
  BY <1>9 DEF destroy
<1>10. CASE notify_all
  BY <1>10 DEF notify_all, Wake, Waiting
<1>11. CASE join
  BY <1>11 DEF join
<1>12. CASE UNCHANGED vars
  BY <1>12 DEF vars
<1> QED
  BY <1>1, <1>2, <1>3, <1>4, <1>5, <1>6, <1>7, <1>8, <1>9, <1>10, <1>11, <1>12
     DEF Next, Worker

-----------------------------------------------------------------------------
(* Counting who will look at the queue. *)

LEMMA Counted ==
  ASSUME TypeOK
  PROVE  /\ IsFiniteSet(Ready) /\ IsFiniteSet(notifying)
         /\ Cardinality(Ready) \in Nat /\ Cardinality(notifying) \in Nat
         /\ Len(tasks) \in Nat
<1>1. IsFiniteSet(Ready)
  BY PoolAssumption, FS_Subset DEF Ready
<1>2. IsFiniteSet(notifying)
  BY PoolAssumption, FS_Union, FS_Subset DEF TypeOK
<1> QED
  BY <1>1, <1>2, FS_CardinalityType DEF TypeOK

(* A worker comes to the mutex. *)
LEMMA ReadyGrows ==
  ASSUME TypeOK, NEW w \in Workers, pc[w] # "lock",
         pc' = [pc EXCEPT ![w] = "lock"]
  PROVE  Cardinality(Ready') = Cardinality(Ready) + 1
<1>1. Ready' = Ready \cup {w} /\ w \notin Ready
  BY DEF Ready, TypeOK
<1> QED
  BY <1>1, Counted, FS_AddElement

(* And leaves it. *)
LEMMA ReadyShrinks ==
  ASSUME TypeOK, NEW w \in Workers, pc[w] = "lock", NEW state, state # "lock",
         pc' = [pc EXCEPT ![w] = state]
  PROVE  Cardinality(Ready') = Cardinality(Ready) - 1
<1>1. Ready' = Ready \ {w} /\ w \in Ready
  BY DEF Ready, TypeOK
<1> QED
  BY <1>1, Counted, FS_RemoveElement

LEMMA OneWakes ==
  ASSUME TypeOK, NEW w \in Waiting, Wake({w})
  PROVE  Cardinality(Ready') = Cardinality(Ready) + 1
<1>1. w \in Workers /\ pc[w] # "lock" /\ pc' = [pc EXCEPT ![w] = "lock"]
  BY DEF Wake, Waiting, TypeOK
<1> QED
  BY <1>1, ReadyGrows

LEMMA StepNoWakeupLost ==
  ASSUME IInv, NoWakeupLost, [Next]_vars
  PROVE  NoWakeupLost'
<1> USE DEF IInv
<1>1. ASSUME NEW t \in Clients \cup Workers, NEW f \in New, enqueue(t, f)
      PROVE  NoWakeupLost'
  <2>1. Len(tasks') = Len(tasks) + 1
    BY <1>1 DEF enqueue, TypeOK
  <2>2. Cardinality(notifying') = Cardinality(notifying) + 1
    BY <1>1, Counted, FS_AddElement DEF enqueue, MayEnqueue
  <2>3. Waiting' = Waiting /\ Ready' = Ready /\ destructor' = destructor
    BY <1>1 DEF enqueue, Waiting, Ready
  <2> QED
    BY <2>1, <2>2, <2>3, Counted DEF NoWakeupLost
<1>2. ASSUME NEW t \in Clients \cup Workers, notify_one(t)
      PROVE  NoWakeupLost'
  <2>1. CASE Waiting = {}
    BY <1>2, <2>1 DEF notify_one, NoWakeupLost, Waiting
  <2>2. CASE Waiting # {}
    <3>1. PICK w \in Waiting : Wake({w})
      BY <1>2, <2>2 DEF notify_one
    <3>2. Cardinality(Ready') = Cardinality(Ready) + 1
      BY <3>1, OneWakes
    <3>3. Cardinality(notifying') = Cardinality(notifying) - 1
      BY <1>2, Counted, FS_RemoveElement DEF notify_one
    <3>4. tasks' = tasks /\ destructor' = destructor
      BY <1>2 DEF notify_one
    <3> QED
      BY <2>2, <3>2, <3>3, <3>4, Counted DEF NoWakeupLost
  <2> QED
    BY <2>1, <2>2
<1>3. ASSUME NEW w \in Workers, wait(w) \/ exit(w)
      PROVE  NoWakeupLost'
  <2>1. tasks' = << >> /\ TypeOK'
    BY <1>3, StepIInv DEF wait, exit, Next, Worker
  <2>2. /\ Len(tasks') = 0
        /\ Cardinality(Ready') \in Nat /\ Cardinality(notifying') \in Nat
    <3>1. Cardinality(notifying') \in Nat
      BY <1>3, Counted DEF wait, exit
    <3>2. Cardinality(Ready') = Cardinality(Ready) - 1
      BY <1>3, ReadyShrinks DEF wait, exit
    <3>3. IsFiniteSet(Ready')
      <4>1. Ready' \subseteq Workers
        BY DEF Ready
      <4> QED
        BY <4>1, PoolAssumption, FS_Subset
    <3> QED
      BY <2>1, <3>1, <3>3, FS_CardinalityType
  <2>3. destructor' \in {"join", "gone"} => Waiting' = {}
    <3>1. CASE wait(w)
      BY <3>1 DEF wait, StopsForDestructor
    <3>2. CASE exit(w)
      BY <3>2 DEF exit, Waiting, NoWakeupLost, TypeOK
    <3> QED
      BY <1>3, <3>1, <3>2
  <2> QED
    BY <2>2, <2>3 DEF NoWakeupLost
<1>4. ASSUME NEW w \in Workers, take(w) PROVE NoWakeupLost'
  <2>1. Len(tasks') = Len(tasks) - 1
    BY <1>4, HeadTailProperties DEF take, TypeOK
  <2>2. Cardinality(Ready') = Cardinality(Ready) - 1
    BY <1>4, ReadyShrinks DEF take
  <2>3. Waiting' = Waiting /\ notifying' = notifying /\ destructor' = destructor
    BY <1>4 DEF take, Waiting, TypeOK
  <2> QED
    BY <2>1, <2>2, <2>3, Counted DEF NoWakeupLost
<1>5. ASSUME NEW w \in Workers, return(w) PROVE NoWakeupLost'
  <2>1. Cardinality(Ready') = Cardinality(Ready) + 1
    BY <1>5, ReadyGrows DEF return
  <2>2. Waiting' = Waiting
    BY <1>5 DEF return, Waiting, TypeOK
  <2> QED
    BY <1>5, <2>1, <2>2, Counted DEF NoWakeupLost, return
<1>6. ASSUME NEW w \in Workers, throw(w) PROVE NoWakeupLost'
  <2>1. Waiting' = Waiting /\ Ready' = Ready
    BY <1>6 DEF throw, Waiting, Ready, TypeOK
  <2> QED
    BY <1>6, <2>1 DEF NoWakeupLost, throw
<1>7. CASE SpuriousWakeup
  <2>1. PICK w \in Waiting : Wake({w})
    BY <1>7 DEF SpuriousWakeup
  <2>2. Cardinality(Ready') = Cardinality(Ready) + 1
    BY <2>1, OneWakes
  <2>3. /\ tasks' = tasks /\ notifying' = notifying /\ destructor' = destructor
        /\ Waiting # {}
    BY <1>7, <2>1 DEF SpuriousWakeup
  <2> QED
    BY <2>2, <2>3, Counted DEF NoWakeupLost
<1>8. CASE destroy
  BY <1>8 DEF destroy, NoWakeupLost, Waiting, Ready
<1>9. CASE notify_all
  <2>1. Waiting' = {}
    BY <1>9 DEF notify_all, Wake, Waiting, TypeOK
  <2> QED
    BY <2>1 DEF NoWakeupLost
<1>10. CASE join
  BY <1>10 DEF join, NoWakeupLost, Waiting, Ready
<1>11. CASE UNCHANGED vars
  BY <1>11 DEF vars, NoWakeupLost, Waiting, Ready
<1> QED
  BY <1>1, <1>2, <1>3, <1>4, <1>5, <1>6, <1>7, <1>8, <1>9, <1>10, <1>11
     DEF Next, Worker

-----------------------------------------------------------------------------
(* The strengthened invariant holds in every state. *)
THEOREM Invariance == Spec => []IInv
BY InitIInv, StepIInv, PTL DEF Spec

(* Every variable keeps its type. *)
THEOREM TypeCorrect == Spec => []TypeOK
<1>1. IInv => TypeOK
  BY DEF IInv
<1> QED
  BY Invariance, <1>1, PTL

(* Whatever the tasks enqueue themselves and whenever the pool is          *)
(* destroyed: tasks are taken once each and in order, and no pool is gone  *)
(* with a task left (GraphWrapper.h 98-133).                               *)
THEOREM InOrder == Spec => []TasksTakenInOrder
<1>1. IInv => TasksTakenInOrder
  BY DEF IInv
<1> QED
  BY Invariance, <1>1, PTL

(* However many workers, clients and tasks that enqueue: no task lies in   *)
(* the queue with all workers waiting and nobody to wake one, and no worker*)
(* waits on behind a destructor (GraphWrapper.h 103-105, 117-132).         *)
THEOREM WakeupsSuffice == Spec => []NoWakeupLost
<1>1. Init => NoWakeupLost
  <2>1. Init => Waiting = {} /\ destructor = "alive"
    BY DEF Init, Waiting
  <2> QED
    BY <2>1 DEF NoWakeupLost
<1>2. IInv /\ NoWakeupLost /\ [Next]_vars => NoWakeupLost'
  BY StepNoWakeupLost
<1> QED
  BY Invariance, <1>1, <1>2, PTL DEF Spec

=============================================================================
