---------------------- MODULE LockFreeRingBufferProofs ----------------------
(***************************************************************************)
(* A ring of any size, called by any number of threads that serialise their*)
(* pushes and serialise their pops, loses no slot and has no data race.    *)
(*                                                                         *)
(* The safety properties are not inductive: that a push may write its slot *)
(* rests on what head, tail and the flags were when it claimed the slot.   *)
(* IInv says what each thread still knows of them at each of its steps.    *)
(*                                                                         *)
(* Such a ring implements BoundedFifo with Size - 1 places: every step of a*)
(* push or a pop is one step of the queue or changes nothing it can see.   *)
(***************************************************************************)
EXTENDS LockFreeRingBufferFifo, SequenceTheorems, TLAPS

Serialised == SerialPush /\ SerialPop

(* One push and one pop at a time. *)
OneEach ==
  /\ \A p, q \in Producers : pc[p] # "idle" /\ pc[q] # "idle" => p = q
  /\ \A c, d \in Consumers : pc[c] # "idle" /\ pc[d] # "idle" => c = d

(* A push has an item to write: with the type, inductive for any threads.  *)
PushHasItem == \A p \in Producers : pc[p] # "idle" => reg[p] \in Items

TInv == TypeOK /\ PushHasItem

(* What a push knows: nobody else moves tail, and head only moves away. *)
PushKnows ==
  \A p \in Producers :
    /\ pc[p] \in {"push_head", "push_cas"} => pos[p] = tail
    /\ pc[p] = "push_cas" => Succ(tail) # head
    /\ pc[p] \in {"push_write", "push_publish"} =>
         /\ Succ(pos[p]) = tail
         /\ InFlight(pos[p])
         /\ ~ readable[pos[p]]

(* What a pop knows: nobody else moves head or clears a flag. *)
PopKnows ==
  \A c \in Consumers :
    /\ pc[c] \in {"pop_tail", "pop_readable", "pop_copy", "pop_cas"} =>
         pos[c] = head
    /\ pc[c] \in {"pop_readable", "pop_copy", "pop_cas"} => head # tail
    /\ pc[c] \in {"pop_copy", "pop_cas"} => readable[head]
    /\ pc[c] = "pop_clear" => Succ(pos[c]) = head

(* A flag outlives its item only while the pop that took it clears it. *)
NoStrayFlag ==
  \A i \in Slots :
    readable[i] => InFlight(i) \/ \E c \in Consumers : Clearing(c, i)

IInv ==
  /\ TypeOK
  /\ PushHasItem
  /\ OneEach
  /\ PushKnows
  /\ PopKnows
  /\ NoStrayFlag
  /\ NoLostSlot

-----------------------------------------------------------------------------
(* The arithmetic of the ring, for any head and tail in it. *)

LEMMA SuccType == \A i \in Slots : Succ(i) \in Slots
BY SizeAssumption DEF Slots, Succ

LEMMA SuccInjective == \A i, j \in Slots : Succ(i) = Succ(j) => i = j
BY SizeAssumption DEF Slots, Succ

(* Moving tail puts exactly the claimed slot in flight. *)
LEMMA TailMoves ==
  ASSUME head \in Slots, tail \in Slots, head' = head,
         tail' = Succ(tail), Succ(tail) # head
  PROVE  \A i \in Slots : InFlight(i)' <=> InFlight(i) \/ i = tail
BY SizeAssumption DEF Slots, Succ, InFlight

(* Moving head takes exactly the oldest slot out of flight. *)
LEMMA HeadMoves ==
  ASSUME head \in Slots, tail \in Slots, tail' = tail,
         head' = Succ(head), head # tail
  PROVE  \A i \in Slots : InFlight(i)' <=> InFlight(i) /\ i # head
BY SizeAssumption DEF Slots, Succ, InFlight

(* The slot at tail and the slot before head are not in flight, and the    *)
(* slot at head is unless the ring is empty.                               *)
LEMMA Boundaries ==
  ASSUME head \in Slots, tail \in Slots
  PROVE  /\ ~ InFlight(tail)
         /\ \A i \in Slots : Succ(i) = head => ~ InFlight(i)
         /\ head # tail => InFlight(head)
BY SizeAssumption DEF Slots, Succ, InFlight

LEMMA InFlightStable ==
  ASSUME head' = head, tail' = tail
  PROVE  \A i \in Slots : InFlight(i)' <=> InFlight(i)
BY DEF InFlight

-----------------------------------------------------------------------------
LEMMA InitIInv == Init => IInv
<1> SUFFICES ASSUME Init PROVE IInv
  OBVIOUS
<1> USE SizeAssumption DEF Init
<1>1. TypeOK /\ PushHasItem
  BY DEF TypeOK, PushHasItem, Slots, Values, Threads
<1>2. OneEach /\ PushKnows /\ PopKnows
  BY DEF OneEach, PushKnows, PopKnows, Threads
<1>3. NoStrayFlag /\ NoLostSlot
  BY DEF NoStrayFlag, NoLostSlot, Slots, InFlight
<1> QED
  BY <1>1, <1>2, <1>3 DEF IInv

LEMMA TypeStep == TInv /\ [Next]_vars => TInv'
<1> SUFFICES ASSUME TInv, [Next]_vars PROVE TInv'
  OBVIOUS
<1> USE SuccType, ThreadAssumption
    DEF TInv, TypeOK, PushHasItem, Goto, Threads
<1>1. ASSUME NEW p \in Producers, NEW v \in Items, PushStart(p, v)
      PROVE  TInv'
  BY <1>1 DEF PushStart, Values
<1>2. ASSUME NEW p \in Producers, PushStep(p)
      PROVE  TInv'
  <2>1. CASE PushFull(p) \/ PushHasRoom(p) \/ PushClaim(p) \/ PushClaimFails(p)
    BY <2>1 DEF PushFull, PushHasRoom, PushClaim, PushClaimFails
  <2>2. CASE PushWrite(p)
    BY <2>2 DEF PushWrite, Values
  <2>3. CASE PushPublish(p)
    BY <2>3 DEF PushPublish
  <2> QED
    BY <1>2, <2>1, <2>2, <2>3 DEF PushStep
<1>3. ASSUME NEW c \in Consumers, PopStart(c)
      PROVE  TInv'
  BY <1>3 DEF PopStart
<1>4. ASSUME NEW c \in Consumers, PopStep(c)
      PROVE  TInv'
  <2>1. CASE PopEmpty(c) \/ PopNonEmpty(c) \/ PopYield(c) \/ PopReadable(c)
    BY <2>1 DEF PopEmpty, PopNonEmpty, PopYield, PopReadable
  <2>2. CASE PopCopy(c)
    BY <2>2 DEF PopCopy, Values
  <2>3. CASE PopAdvance(c) \/ PopAdvanceFails(c) \/ PopClear(c)
    BY <2>3 DEF PopAdvance, PopAdvanceFails, PopClear
  <2> QED
    BY <1>4, <2>1, <2>2, <2>3 DEF PopStep
<1>5. CASE UNCHANGED vars
  BY <1>5 DEF vars
<1> QED
  BY <1>1, <1>2, <1>3, <1>4, <1>5 DEF Next

(* The conjuncts of IInv other than the type, one lemma per operation: all *)
(* steps of one thread, the others standing still.                         *)
KInv == OneEach /\ PushKnows /\ PopKnows /\ NoStrayFlag /\ NoLostSlot

LEMMA PushStartStep ==
  ASSUME IInv, Serialised, NEW p \in Producers, NEW v \in Items,
         PushStart(p, v)
  PROVE  KInv'
<1> USE ThreadAssumption
    DEF IInv, TypeOK, Serialised, PushStart, Goto, Threads
<1>1. OneEach'
  BY DEF OneEach
<1>2. \A i \in Slots : InFlight(i)' <=> InFlight(i)
  BY InFlightStable
<1>3. PushKnows'
  BY <1>2 DEF PushKnows, OneEach
<1>4. PopKnows'
  BY DEF PopKnows
<1>5. NoStrayFlag'
  BY <1>2 DEF NoStrayFlag, Clearing
<1>6. NoLostSlot'
  BY <1>2 DEF NoLostSlot, Publishing
<1> QED
  BY <1>1, <1>3, <1>4, <1>5, <1>6 DEF KInv

(* The steps of a push that change nothing shared. *)
LEMMA PushLooksStep ==
  ASSUME IInv, NEW p \in Producers,
         PushFull(p) \/ PushHasRoom(p) \/ PushClaimFails(p)
  PROVE  KInv'
<1> USE ThreadAssumption
    DEF IInv, TypeOK, PushFull, PushHasRoom, PushClaimFails, Goto, Threads
<1>1. OneEach'
  BY DEF OneEach
<1>2. \A i \in Slots : InFlight(i)' <=> InFlight(i)
  BY InFlightStable
<1>3. PushKnows'
  BY <1>2 DEF PushKnows, OneEach
<1>4. PopKnows'
  BY DEF PopKnows
<1>5. NoStrayFlag'
  BY <1>2 DEF NoStrayFlag, Clearing
<1>6. NoLostSlot'
  BY <1>2 DEF NoLostSlot, Publishing
<1> QED
  BY <1>1, <1>3, <1>4, <1>5, <1>6 DEF KInv

(* What a push finds at tail when it claims the slot there. *)
LEMMA ClaimedIsFree ==
  ASSUME IInv, NEW p \in Producers, PushClaim(p)
  PROVE  /\ pos[p] = tail
         /\ ~ InFlight(tail)
         /\ ~ readable[tail]
         /\ \A c \in Consumers : ~ Clearing(c, tail)
<1> USE DEF IInv, TypeOK, PushClaim
<1>1. pos[p] = tail /\ ~ InFlight(tail)
  BY Boundaries
<1>2. Succ(tail) # head
  BY DEF PushKnows
<1>3. \A c \in Consumers : ~ Clearing(c, tail)
  BY <1>2 DEF PopKnows, Clearing
<1>4. ~ readable[tail]
  BY <1>1, <1>3 DEF NoStrayFlag
<1> QED
  BY <1>1, <1>3, <1>4

LEMMA PushClaimStep ==
  ASSUME IInv, NEW p \in Producers, PushClaim(p)
  PROVE  KInv'
<1> USE ThreadAssumption
    DEF IInv, TypeOK, PushClaim, Goto, Threads
<1>1. OneEach'
  BY DEF OneEach
<1>2. Succ(tail) # head
  BY DEF PushKnows
<1>3. \A i \in Slots : InFlight(i)' <=> InFlight(i) \/ i = tail
  BY <1>2, TailMoves
<1>4. PushKnows'
  BY <1>3, ClaimedIsFree DEF PushKnows, OneEach
<1>5. PopKnows'
  BY <1>2 DEF PopKnows
<1>6. NoStrayFlag'
  BY <1>3 DEF NoStrayFlag, Clearing
<1>7. NoLostSlot'
  BY <1>3 DEF NoLostSlot, Publishing
<1> QED
  BY <1>1, <1>4, <1>5, <1>6, <1>7 DEF KInv

LEMMA PushWriteStep ==
  ASSUME IInv, NEW p \in Producers, PushWrite(p)
  PROVE  KInv'
<1> USE ThreadAssumption
    DEF IInv, TypeOK, PushWrite, Goto, Threads
<1>1. OneEach'
  BY DEF OneEach
<1>2. \A i \in Slots : InFlight(i)' <=> InFlight(i)
  BY InFlightStable
<1>3. PushKnows'
  BY <1>2 DEF PushKnows, OneEach
<1>4. PopKnows'
  BY DEF PopKnows
<1>5. NoStrayFlag'
  BY <1>2 DEF NoStrayFlag, Clearing
<1>6. NoLostSlot'
  BY <1>2 DEF NoLostSlot, Publishing
<1> QED
  BY <1>1, <1>3, <1>4, <1>5, <1>6 DEF KInv

LEMMA PushPublishStep ==
  ASSUME IInv, NEW p \in Producers, PushPublish(p)
  PROVE  KInv'
<1> USE ThreadAssumption
    DEF IInv, TypeOK, PushPublish, Goto, Threads
<1>1. OneEach'
  BY DEF OneEach
<1>2. \A i \in Slots : InFlight(i)' <=> InFlight(i)
  BY InFlightStable
<1>3. PushKnows'
  BY <1>2 DEF PushKnows, OneEach
<1>4. PopKnows'
  BY DEF PopKnows
<1>5. NoStrayFlag'
  BY <1>2 DEF NoStrayFlag, Clearing, PushKnows
<1>6. NoLostSlot'
  BY <1>2 DEF NoLostSlot, Publishing
<1> QED
  BY <1>1, <1>3, <1>4, <1>5, <1>6 DEF KInv

(* The steps of a pop that change nothing shared. *)
LEMMA PopLooksStep ==
  ASSUME IInv, Serialised, NEW c \in Consumers,
         \/ PopStart(c) \/ PopEmpty(c) \/ PopNonEmpty(c) \/ PopYield(c)
         \/ PopReadable(c) \/ PopCopy(c) \/ PopAdvanceFails(c)
  PROVE  KInv'
<1> USE ThreadAssumption
    DEF IInv, TypeOK, Serialised, PopStart, PopEmpty, PopNonEmpty, PopYield,
        PopReadable, PopCopy, PopAdvanceFails, Goto, Threads
<1>1. OneEach'
  BY DEF OneEach
<1>2. \A i \in Slots : InFlight(i)' <=> InFlight(i)
  BY InFlightStable
<1>3. PushKnows'
  BY <1>2 DEF PushKnows
<1>4. PopKnows'
  BY DEF PopKnows, OneEach
<1>5. NoStrayFlag'
  BY <1>2 DEF NoStrayFlag, Clearing
<1>6. NoLostSlot'
  BY <1>2 DEF NoLostSlot, Publishing
<1> QED
  BY <1>1, <1>3, <1>4, <1>5, <1>6 DEF KInv

LEMMA PopAdvanceStep ==
  ASSUME IInv, NEW c \in Consumers, PopAdvance(c)
  PROVE  KInv'
<1> USE ThreadAssumption
    DEF IInv, TypeOK, PopAdvance, Goto, Threads
<1>1. OneEach'
  BY DEF OneEach
<1>2. pos[c] = head /\ head # tail /\ readable[head]
  BY DEF PopKnows
<1>3. \A i \in Slots : InFlight(i)' <=> InFlight(i) /\ i # head
  BY <1>2, HeadMoves
<1>4. PushKnows'
  BY <1>2, <1>3, SuccInjective DEF PushKnows
<1>5. PopKnows'
  BY <1>2 DEF PopKnows, OneEach
<1>6. NoStrayFlag'
  BY <1>2, <1>3 DEF NoStrayFlag, Clearing
<1>7. NoLostSlot'
  BY <1>3 DEF NoLostSlot, Publishing
<1> QED
  BY <1>1, <1>4, <1>5, <1>6, <1>7 DEF KInv

LEMMA PopClearStep ==
  ASSUME IInv, NEW c \in Consumers, PopClear(c)
  PROVE  KInv'
<1> USE ThreadAssumption
    DEF IInv, TypeOK, PopClear, Goto, Threads
<1>1. OneEach'
  BY DEF OneEach
<1>2. \A i \in Slots : InFlight(i)' <=> InFlight(i)
  BY InFlightStable
<1>3. PushKnows'
  BY <1>2 DEF PushKnows
<1>4. PopKnows'
  BY DEF PopKnows, OneEach
<1>5. NoStrayFlag'
  BY <1>2 DEF NoStrayFlag, Clearing, OneEach
<1>6. ~ InFlight(pos[c])
  BY Boundaries DEF PopKnows
<1>7. NoLostSlot'
  BY <1>2, <1>6 DEF NoLostSlot, Publishing
<1> QED
  BY <1>1, <1>3, <1>4, <1>5, <1>7 DEF KInv

LEMMA NextIInv == Serialised /\ IInv /\ [Next]_vars => IInv'
<1> SUFFICES ASSUME Serialised, IInv, [Next]_vars PROVE IInv'
  OBVIOUS
<1>1. TypeOK' /\ PushHasItem'
  BY TypeStep DEF IInv, TInv
<1>2. KInv'
  <2>1. ASSUME NEW p \in Producers, NEW v \in Items, PushStart(p, v)
        PROVE  KInv'
    BY <2>1, PushStartStep
  <2>2. ASSUME NEW p \in Producers, PushStep(p)
        PROVE  KInv'
    BY <2>2, PushLooksStep, PushClaimStep, PushWriteStep, PushPublishStep
       DEF PushStep
  <2>3. ASSUME NEW c \in Consumers, PopStart(c) \/ PopStep(c)
        PROVE  KInv'
    BY <2>3, PopLooksStep, PopAdvanceStep, PopClearStep DEF PopStep
  <2>4. CASE UNCHANGED vars
    BY <2>4 DEF vars, IInv, KInv, OneEach, PushKnows, PopKnows, NoStrayFlag,
                NoLostSlot, Publishing, Clearing, InFlight
  <2> QED
    BY <2>1, <2>2, <2>3, <2>4 DEF Next
<1> QED
  BY <1>1, <1>2 DEF IInv, KInv

THEOREM Invariance == Serialised => (Spec => []IInv)
<1> SUFFICES ASSUME Serialised PROVE Spec => []IInv
  OBVIOUS
<1> QED
  BY InitIInv, NextIInv, PTL DEF Spec

-----------------------------------------------------------------------------
(* Every variable keeps its type, whether calls are serialised or not: no  *)
(* index ever leaves the ring (GraphWrapper.h 43-86).                      *)
THEOREM TypeCorrect == Spec => []TypeOK
<1>1. Init => TInv
  BY SizeAssumption DEF Init, TInv, TypeOK, PushHasItem, Slots, Values, Threads
<1>2. TInv => TypeOK
  BY DEF TInv
<1> QED
  BY <1>1, <1>2, TypeStep, PTL DEF Spec

(* A pop never waits for a slot nobody will publish (GraphWrapper.h 69-75).*)
THEOREM NothingLost == Serialised => (Spec => []NoLostSlot)
<1> SUFFICES ASSUME Serialised PROVE Spec => []NoLostSlot
  OBVIOUS
<1> QED
  BY Invariance, PTL DEF IInv

(* No slot is written while it is copied out, or by two pushes at a time   *)
(* (GraphWrapper.h 53 and 76).                                             *)
THEOREM RaceFreedom == Serialised => (Spec => []NoDataRace)
<1> SUFFICES ASSUME Serialised PROVE Spec => []NoDataRace
  OBVIOUS
<1>1. IInv => NoDataRace
  BY DEF IInv, OneEach, PushKnows, PopKnows, NoDataRace, Writing, Publishing,
         Copying
<1> QED
  BY <1>1, Invariance, PTL

(* A push claims a slot that holds nothing to pop and nothing to clear     *)
(* (GraphWrapper.h 47-54).                                                 *)
THEOREM ClaimSafety == Serialised => (Spec => ClaimedSlotIsFree)
<1> SUFFICES ASSUME Serialised PROVE Spec => ClaimedSlotIsFree
  OBVIOUS
<1> DEFINE Free(p) == /\ ~ InFlight(pos[p])
                      /\ ~ readable[pos[p]]
                      /\ \A c \in Consumers : ~ Clearing(c, pos[p])
<1>1. IInv /\ [Next]_vars =>
        [\A p \in Producers : PushClaim(p) => Free(p)]_vars
  BY ClaimedIsFree
<1> QED
  BY <1>1, Invariance, PTL DEF Spec, ClaimedSlotIsFree

-----------------------------------------------------------------------------
(* The queue it implements. *)

(* What a pop has copied is still in the slot when it moves head. *)
PopHolds ==
  \A c \in Consumers : pc[c] = "pop_cas" => reg[c] = data[head]

FInv == IInv /\ PopHolds

-----------------------------------------------------------------------------
(* What has been copied stays true. *)

LEMMA NothingWrittenAtHead ==
  ASSUME IInv, NEW c \in Consumers, pc[c] \in {"pop_copy", "pop_cas"},
         NEW p \in Producers
  PROVE  ~ Writing(p, head)
BY DEF IInv, PushKnows, PopKnows, Writing

LEMMA StepPopHolds ==
  ASSUME FInv, [Next]_vars
  PROVE  PopHolds'
<1> SUFFICES ASSUME NEW c \in Consumers, pc'[c] = "pop_cas"
             PROVE  reg'[c] = data'[head']
  BY DEF PopHolds
<1> USE ThreadAssumption DEF FInv, IInv, TypeOK, Goto, Threads
<1>1. ASSUME NEW p \in Producers, NEW v \in Items, PushStart(p, v)
      PROVE  reg'[c] = data'[head']
  BY <1>1 DEF PushStart, PopHolds
<1>2. ASSUME NEW p \in Producers, PushStep(p)
      PROVE  reg'[c] = data'[head']
  <2>1. pc[c] = "pop_cas" /\ c # p
    BY <1>2 DEF PushStep, PushFull, PushHasRoom, PushClaim, PushClaimFails,
                PushWrite, PushPublish
  <2>2. ~ Writing(p, head)
    BY <2>1, NothingWrittenAtHead
  <2> QED
    BY <1>2, <2>1, <2>2
       DEF PushStep, PushFull, PushHasRoom, PushClaim, PushClaimFails,
           PushWrite, PushPublish, PopHolds, Writing
<1>3. ASSUME NEW d \in Consumers, PopStart(d)
      PROVE  reg'[c] = data'[head']
  BY <1>3 DEF PopStart, PopHolds
<1>4. ASSUME NEW d \in Consumers, PopStep(d)
      PROVE  reg'[c] = data'[head']
  <2>1. CASE PopCopy(d)
    <3>1. c = d /\ pc[d] = "pop_copy"
      BY <2>1 DEF PopCopy, OneEach
    <3>2. pos[d] = head /\ \A p \in Producers : ~ Writing(p, head)
      BY <3>1, NothingWrittenAtHead DEF PopKnows
    <3> QED
      BY <2>1, <3>1, <3>2 DEF PopCopy
  <2>2. CASE PopEmpty(d) \/ PopNonEmpty(d) \/ PopYield(d) \/ PopReadable(d)
    BY <2>2 DEF PopEmpty, PopNonEmpty, PopYield, PopReadable, PopHolds
  <2>3. CASE PopAdvance(d)
    BY <2>3 DEF PopAdvance, OneEach
  <2>4. CASE PopAdvanceFails(d) \/ PopClear(d)
    BY <2>4 DEF PopAdvanceFails, PopClear, PopHolds
  <2> QED
    BY <1>4, <2>1, <2>2, <2>3, <2>4 DEF PopStep
<1>5. CASE UNCHANGED vars
  BY <1>5 DEF vars, PopHolds
<1> QED
  BY <1>1, <1>2, <1>3, <1>4, <1>5 DEF Next

LEMMA InitFInv == Init => FInv
BY InitIInv DEF Init, FInv, PopHolds, Threads

LEMMA StepFInv == Serialised /\ FInv /\ [Next]_vars => FInv'
BY NextIInv, StepPopHolds DEF FInv

-----------------------------------------------------------------------------
(* The mapping. *)

LEMMA SlotItemOf ==
  ASSUME OneEach, NEW i \in Slots
  PROVE  /\ \A p \in Producers : Writing(p, i) => SlotItem(i) = reg[p]
         /\ (\A p \in Producers : ~ Writing(p, i)) => SlotItem(i) = data[i]
BY DEF SlotItem, OneEach, Writing

LEMMA SlotItemType ==
  ASSUME IInv, NEW i \in Slots
  PROVE  SlotItem(i) \in Values
BY SlotItemOf DEF IInv, TypeOK, PushHasItem, Values, Writing

LEMMA PlaceInFlight ==
  ASSUME head \in Slots, tail \in Slots
  PROVE  /\ Count \in 0 .. Size - 1
         /\ \A k \in 1 .. Count : Place(k) \in Slots /\ InFlight(Place(k))
BY SizeAssumption DEF Slots, Count, Place, InFlight

(* Moving tail adds a place at the end, moving head takes the first away. *)
LEMMA QueueGrows ==
  ASSUME head \in Slots, tail \in Slots, head' = head,
         tail' = Succ(tail), Succ(tail) # head
  PROVE  /\ Count < Size - 1
         /\ Count' = Count + 1
         /\ \A k : Place(k)' = Place(k)
         /\ Place(Count + 1) = tail
BY SizeAssumption DEF Slots, Succ, Count, Place

LEMMA QueueShrinks ==
  ASSUME head \in Slots, tail \in Slots, tail' = tail,
         head' = Succ(head), head # tail
  PROVE  /\ Count \in Nat \ {0}
         /\ Count' = Count - 1
         /\ \A k \in Nat \ {0} : k < Count => Place(k)' = Place(k + 1)
         /\ Place(1) = head
BY SizeAssumption DEF Slots, Succ, Count, Place

LEMMA QueuedType ==
  ASSUME IInv
  PROVE  Queued \in Seq(Values) /\ Len(Queued) = Count
<1>1. head \in Slots /\ tail \in Slots
  BY DEF IInv, TypeOK
<1>2. Count \in Nat /\ \A k \in 1 .. Count : Place(k) \in Slots
  BY <1>1, PlaceInFlight, SizeAssumption
<1>3. Queued \in [1 .. Count -> Values]
  BY <1>2, SlotItemType DEF Queued
<1> QED
  BY <1>2, <1>3, LenProperties

(* Outcome, place by place. *)
LEMMA OutcomeOf ==
  ASSUME NEW t
  PROVE  /\ pc[t] \in {"push_head", "push_cas"} =>
              Outcome(t) = [state |-> "push", value |-> reg[t]]
         /\ pc[t] \in {"push_write", "push_publish"} =>
              Outcome(t) = [state |-> "returned", value |-> "pushed"]
         /\ pc[t] \in {"pop_tail", "pop_readable", "pop_copy", "pop_cas"} =>
              Outcome(t) = [state |-> "pop"]
         /\ pc[t] \in {"pop_clear", "idle"} =>
              Outcome(t) = [state |-> "returned", value |-> reg[t]]
BY DEF Outcome

Outcomes == [t \in Threads |-> Outcome(t)]

(* Only the thread that takes a step has another outcome after it. *)
LEMMA OutcomeChanges ==
  ASSUME NEW t \in Threads,
         \A u \in Threads \ {t} : pc'[u] = pc[u] /\ reg'[u] = reg[u]
  PROVE  Outcomes' = [Outcomes EXCEPT ![t] = Outcome(t)']
<1>1. \A u \in Threads \ {t} : Outcome(u)' = Outcome(u)
  BY DEF Outcome
<1> QED
  BY <1>1 DEF Outcomes

LEMMA OutcomeStays ==
  ASSUME NEW t \in Threads, Outcome(t)' = Outcome(t),
         \A u \in Threads \ {t} : pc'[u] = pc[u] /\ reg'[u] = reg[u]
  PROVE  Outcomes' = Outcomes
<1>1. \A u \in Threads \ {t} : Outcome(u)' = Outcome(u)
  BY DEF Outcome
<1> QED
  BY <1>1 DEF Outcomes

(* The queue stays as long as head, tail and the items in flight do. *)
LEMMA QueuedStays ==
  ASSUME IInv, head' = head, tail' = tail,
         \A i \in Slots : InFlight(i) => SlotItem(i)' = SlotItem(i)
  PROVE  Queued' = Queued
<1>1. head \in Slots /\ tail \in Slots
  BY DEF IInv, TypeOK
<1>2. Count' = Count /\ \A k : Place(k)' = Place(k)
  BY DEF Count, Place
<1>3. \A k \in 1 .. Count : SlotItem(Place(k))' = SlotItem(Place(k))
  BY <1>1, <1>2, PlaceInFlight
<1> QED
  BY <1>2, <1>3 DEF Queued

-----------------------------------------------------------------------------
(* Every step is one of the queue's, or none. *)

(* A step that moves neither index, writes no slot and changes no item of  *)
(* a push that is writing leaves the queue as it is.                       *)
LEMMA SlotsStay ==
  ASSUME IInv, UNCHANGED <<head, tail, data>>,
         \A p \in Producers, i \in Slots :
           /\ Writing(p, i)' <=> Writing(p, i)
           /\ Writing(p, i) => reg'[p] = reg[p]
  PROVE  Queued' = Queued
<1>1. ASSUME NEW i \in Slots PROVE SlotItem(i)' = SlotItem(i)
  <2>1. CASE \E p \in Producers : Writing(p, i)
    <3>1. PICK p \in Producers : Writing(p, i)
      BY <2>1
    <3>2. \A q \in Producers : Writing(q, i) <=> q = p
      BY <3>1 DEF IInv, OneEach, Writing
    <3>3. \A q \in Producers : Writing(q, i)' <=> q = p
      BY <3>2
    <3>4. SlotItem(i) = reg[p]
      BY <3>2 DEF SlotItem
    <3>5. SlotItem(i)' = reg'[p]
      BY <3>3 DEF SlotItem
    <3> QED
      BY <3>1, <3>4, <3>5
  <2>2. CASE \A p \in Producers : ~ Writing(p, i)
    BY <2>2 DEF SlotItem
  <2> QED
    BY <2>1, <2>2
<1> QED
  BY <1>1, QueuedStays

LEMMA FifoInit == Init => Fifo!Init
<1> SUFFICES ASSUME Init PROVE Fifo!Init
  OBVIOUS
<1>1. Count = 0
  BY DEF Init, Count
<1>2. Queued = << >>
  BY <1>1 DEF Queued
<1>3. \A t \in Threads : Outcome(t) = Fifo!Returned("none")
  BY OutcomeOf DEF Init, Fifo!Returned
<1> QED
  BY <1>2, <1>3 DEF Fifo!Init, Threads

LEMMA PushStartRefines ==
  ASSUME FInv, NEW p \in Producers, NEW v \in Items, PushStart(p, v)
  PROVE  Fifo!InvokePush(p, v)
<1> USE ThreadAssumption DEF FInv, IInv, TypeOK, PushStart, Goto, Threads
<1>1. Queued' = Queued
  BY SlotsStay DEF Writing
<1>2. Outcomes' = [Outcomes EXCEPT ![p] = Outcome(p)']
  BY OutcomeChanges
<1>3. Outcomes[p].state = "returned"
  BY OutcomeOf DEF Outcomes
<1>4. Outcome(p)' = Fifo!PendingPush(v)
  BY DEF Outcome, Fifo!PendingPush
<1> QED
  BY <1>1, <1>2, <1>3, <1>4 DEF Fifo!InvokePush, Fifo!IsIdle, Outcomes

(* A push says "full" when Size - 1 items are queued. *)
LEMMA PushFullRefines ==
  ASSUME FInv, NEW p \in Producers, PushFull(p)
  PROVE  Fifo!PushFindsFull(p)
<1> USE ThreadAssumption DEF FInv, IInv, TypeOK, PushFull, Goto, Threads
<1>1. Queued' = Queued
  BY SlotsStay DEF Writing
<1>2. Outcomes' = [Outcomes EXCEPT ![p] = Outcome(p)']
  BY OutcomeChanges
<1>3. Outcomes[p].state = "push"
  BY OutcomeOf DEF Outcomes
<1>4. Outcome(p)' = Fifo!Returned("full")
  BY DEF Outcome, Fifo!Returned
<1>5. Len(Queued) = Size - 1
  <2>1. Succ(tail) = head
    BY DEF PushKnows
  <2>2. Count = Size - 1
    BY <2>1, SizeAssumption DEF Succ, Count, Slots
  <2> QED
    BY <2>2, QueuedType
<1> QED
  BY <1>1, <1>2, <1>3, <1>4, <1>5 DEF Fifo!PushFindsFull, Outcomes

(* A push takes effect when it claims its slot: there is room, and the     *)
(* item it still has to write comes last.                                  *)
LEMMA PushClaimRefines ==
  ASSUME FInv, FInv', NEW p \in Producers, PushClaim(p)
  PROVE  Fifo!PushAppends(p)
<1> USE ThreadAssumption DEF FInv, IInv, TypeOK, PushClaim, Goto, Threads
<1>1. pos[p] = tail /\ Succ(tail) # head /\ ~ InFlight(tail)
  BY ClaimedIsFree DEF PushKnows
<1>2. PICK n \in Nat, last \in Slots : n = Count /\ last = tail
  BY PlaceInFlight, SizeAssumption
<1>3. /\ n < Size - 1 /\ Count' = n + 1
      /\ \A k \in 1 .. n : Place(k)' = Place(k)
      /\ Place(n + 1)' = last
  <2>1. tail' = Succ(tail) /\ head' = head
    BY <1>1
  <2>2. /\ Count < Size - 1 /\ Count' = Count + 1
        /\ \A k : Place(k)' = Place(k)
        /\ Place(Count + 1) = tail
    BY <1>1, <2>1, QueueGrows
  <2>3. \A k : k = n + 1 => Place(k) = last
    BY <1>2, <2>2
  <2> QED
    BY <1>2, <2>2, <2>3
<1>4. SlotItem(last)' = reg[p]
  <2>1. \A q \in Producers : Writing(q, last)' <=> q = p
    BY <1>1, <1>2 DEF OneEach, Writing
  <2> QED
    BY <2>1 DEF SlotItem
<1>5. ASSUME NEW i \in Slots, i # last PROVE SlotItem(i)' = SlotItem(i)
  <2>1. \A q \in Producers : Writing(q, i)' <=> Writing(q, i)
    BY <1>1, <1>2, <1>5 DEF Writing
  <2> QED
    BY <2>1 DEF SlotItem
<1>6. ASSUME NEW k \in 1 .. n PROVE Queued'[k] = Queued[k]
  <2>1. PICK i \in Slots : i = Place(k) /\ i # last
    BY <1>1, <1>2, PlaceInFlight
  <2>2. Place(k)' = i
    BY <1>3, <2>1
  <2>3. Queued'[k] = SlotItem(i)'
    BY <1>3, <2>2 DEF Queued
  <2>4. Queued[k] = SlotItem(i)
    BY <1>2, <2>1 DEF Queued
  <2> QED
    BY <1>5, <2>1, <2>3, <2>4
<1>7. Queued'[n + 1] = reg[p]
  BY <1>3, <1>4 DEF Queued
<1>8. Queued \in Seq(Values) /\ Len(Queued) = n
  BY <1>2, QueuedType
<1>9. Queued' = Append(Queued, reg[p])
  <2>1. Queued' \in Seq(Values) /\ Len(Queued') = n + 1
    <3>1. Queued' = [k \in 1 .. n + 1 |-> Queued'[k]]
      BY <1>3 DEF Queued
    <3>2. \A k \in 1 .. n : Queued[k] \in Values
      BY <1>8, ElementOfSeq
    <3>3. reg[p] \in Values
      BY DEF PushHasItem, Values
    <3>4. Queued' \in [1 .. n + 1 -> Values]
      BY <1>6, <1>7, <3>1, <3>2, <3>3
    <3> QED
      BY <3>4, LenProperties
  <2>2. reg[p] \in Values
    BY DEF PushHasItem, Values
  <2>3. /\ Append(Queued, reg[p]) \in Seq(Values)
        /\ Len(Append(Queued, reg[p])) = n + 1
        /\ \A k \in 1 .. n : Append(Queued, reg[p])[k] = Queued[k]
        /\ Append(Queued, reg[p])[n + 1] = reg[p]
    BY <1>8, <2>2, AppendProperties
  <2>4. \A k \in 1 .. n + 1 : Queued'[k] = Append(Queued, reg[p])[k]
    BY <1>6, <1>7, <2>3
  <2> QED
    BY <2>1, <2>3, <2>4, SeqEqual
<1>10. Outcomes' = [Outcomes EXCEPT ![p] = Outcome(p)']
  BY OutcomeChanges
<1>11. Outcomes[p] = [state |-> "push", value |-> reg[p]]
  BY OutcomeOf DEF Outcomes
<1>12. Outcome(p)' = Fifo!Returned("pushed")
  BY DEF Outcome, Fifo!Returned
<1> QED
  BY <1>3, <1>8, <1>9, <1>10, <1>11, <1>12 DEF Fifo!PushAppends, Outcomes

(* Writing the item and publishing it change nothing: it is queued since   *)
(* the claim.                                                              *)
LEMMA PushWriteRefines ==
  ASSUME FInv, NEW p \in Producers, PushWrite(p)
  PROVE  UNCHANGED Fifo!vars
<1> USE ThreadAssumption DEF FInv, IInv, TypeOK, PushWrite, Goto, Threads
<1>1. \A q \in Producers \ {p} : pc[q] = "idle"
  BY DEF OneEach
<1>2. pos[p] \in Slots /\ data' = [data EXCEPT ![pos[p]] = reg[p]]
  BY <1>1 DEF Writing
<1>3. ASSUME NEW i \in Slots PROVE SlotItem(i)' = SlotItem(i)
  <2>1. \A q \in Producers : ~ Writing(q, i)'
    BY <1>1 DEF Writing
  <2>2. SlotItem(i)' = data'[i]
    BY <2>1 DEF SlotItem
  <2>3. CASE i = pos[p]
    BY <1>2, <2>2, <2>3, SlotItemOf DEF Writing
  <2>4. CASE i # pos[p]
    <3>1. \A q \in Producers : ~ Writing(q, i)
      BY <1>1, <2>4 DEF Writing
    <3> QED
      BY <1>2, <2>2, <2>4, <3>1, SlotItemOf
  <2> QED
    BY <2>3, <2>4
<1>4. Queued' = Queued
  BY <1>3, QueuedStays
<1>5. Outcome(p)' = Outcome(p)
  BY DEF Outcome
<1>6. Outcomes' = Outcomes
  BY <1>5, OutcomeStays
<1> QED
  BY <1>4, <1>6 DEF Fifo!vars, Outcomes

(* The steps that only look, and those that publish and clear. *)
LEMMA LooksRefine ==
  ASSUME FInv, NEW t \in Threads,
         \/ /\ t \in Producers
            /\ PushHasRoom(t) \/ PushClaimFails(t) \/ PushPublish(t)
         \/ /\ t \in Consumers
            /\ \/ PopNonEmpty(t) \/ PopYield(t) \/ PopReadable(t)
               \/ PopCopy(t) \/ PopAdvanceFails(t) \/ PopClear(t)
  PROVE  UNCHANGED Fifo!vars
<1> USE ThreadAssumption
    DEF FInv, IInv, TypeOK, Goto, Threads, PushHasRoom, PushClaimFails,
        PushPublish, PopNonEmpty, PopYield, PopReadable, PopCopy,
        PopAdvanceFails, PopClear
<1>1. \A p \in Producers, i \in Slots :
        /\ Writing(p, i)' <=> Writing(p, i)
        /\ Writing(p, i) => reg'[p] = reg[p]
  BY DEF Writing
<1>2. Queued' = Queued
  BY <1>1, SlotsStay
<1>3. Outcome(t)' = Outcome(t)
  BY DEF Outcome
<1>4. Outcomes' = Outcomes
  BY <1>3, OutcomeStays
<1> QED
  BY <1>2, <1>4 DEF Fifo!vars, Outcomes

LEMMA PopStartRefines ==
  ASSUME FInv, NEW c \in Consumers, PopStart(c)
  PROVE  Fifo!InvokePop(c)
<1> USE ThreadAssumption DEF FInv, IInv, TypeOK, PopStart, Goto, Threads
<1>1. Queued' = Queued
  BY SlotsStay DEF Writing
<1>2. Outcomes' = [Outcomes EXCEPT ![c] = Outcome(c)']
  BY OutcomeChanges
<1>3. Outcomes[c].state = "returned"
  BY OutcomeOf DEF Outcomes
<1>4. Outcome(c)' = Fifo!PendingPop
  BY DEF Outcome, Fifo!PendingPop
<1> QED
  BY <1>1, <1>2, <1>3, <1>4 DEF Fifo!InvokePop, Fifo!IsIdle, Outcomes

LEMMA PopEmptyRefines ==
  ASSUME FInv, NEW c \in Consumers, PopEmpty(c)
  PROVE  Fifo!PopFindsEmpty(c)
<1> USE ThreadAssumption DEF FInv, IInv, TypeOK, PopEmpty, Goto, Threads
<1>1. Queued' = Queued
  BY SlotsStay DEF Writing
<1>2. Outcomes' = [Outcomes EXCEPT ![c] = Outcome(c)']
  BY OutcomeChanges
<1>3. Outcomes[c].state = "pop"
  BY OutcomeOf DEF Outcomes
<1>4. Outcome(c)' = Fifo!Returned("empty")
  BY DEF Outcome, Fifo!Returned
<1>5. Queued = << >>
  <2>1. head = tail
    BY DEF PopKnows
  <2>2. Count = 0
    BY <2>1 DEF Count, Slots
  <2> QED
    BY <2>2, QueuedType, EmptySeq
<1> QED
  BY <1>1, <1>2, <1>3, <1>4, <1>5 DEF Fifo!PopFindsEmpty, Outcomes

(* A pop takes effect when it moves head: what it has copied is the oldest *)
(* item.                                                                   *)
LEMMA PopAdvanceRefines ==
  ASSUME FInv, FInv', NEW c \in Consumers, PopAdvance(c)
  PROVE  Fifo!PopTakes(c)
<1> USE ThreadAssumption DEF FInv, IInv, TypeOK, PopAdvance, Goto, Threads
<1>1. pos[c] = head /\ head # tail /\ reg[c] = data[head]
  BY DEF PopKnows, PopHolds
<1>2. /\ Count \in Nat \ {0} /\ Count' = Count - 1
      /\ \A k \in Nat \ {0} : k < Count => Place(k)' = Place(k + 1)
      /\ Place(1) = head
  <2>1. head' = Succ(head) /\ tail' = tail
    BY <1>1
  <2> QED
    BY <1>1, <2>1, QueueShrinks
<1>3. PICK n \in Nat \ {0} : n = Count
  BY <1>2
<1>4. ASSUME NEW i \in Slots PROVE SlotItem(i)' = SlotItem(i)
  <2>1. \A q \in Producers : Writing(q, i)' <=> Writing(q, i)
    BY DEF Writing
  <2> QED
    BY <2>1 DEF SlotItem
<1>5. Queued \in Seq(Values) /\ Len(Queued) = n
  BY <1>3, QueuedType
<1>6. Queued # << >> /\ Head(Queued) = reg[c]
  <2>1. SlotItem(head) = data[head]
    BY <1>1, NothingWrittenAtHead, SlotItemOf
  <2>2. Queued[1] = SlotItem(head)
    BY <1>2 DEF Queued
  <2> QED
    BY <1>1, <1>5, <2>1, <2>2, EmptySeq
<1>7. ASSUME NEW k \in 1 .. n - 1 PROVE Queued'[k] = Queued[k + 1]
  <2>1. PICK i \in Slots : i = Place(k + 1)
    BY <1>3, PlaceInFlight
  <2>2. Place(k)' = i
    BY <1>2, <1>3, <2>1
  <2>3. Queued'[k] = SlotItem(i)'
    BY <1>2, <1>3, <2>2 DEF Queued
  <2>4. Queued[k + 1] = SlotItem(i)
    BY <1>3, <2>1 DEF Queued
  <2> QED
    BY <1>4, <2>3, <2>4
<1>8. Queued' = Tail(Queued)
  <2>1. Queued' \in Seq(Values) /\ Len(Queued') = n - 1
    <3>1. Queued' = [k \in 1 .. n - 1 |-> Queued'[k]]
      BY <1>2, <1>3 DEF Queued
    <3>2. \A k \in 1 .. n - 1 : Queued[k + 1] \in Values
      BY <1>5, ElementOfSeq
    <3>3. Queued' \in [1 .. n - 1 -> Values]
      BY <1>7, <3>1, <3>2
    <3> QED
      BY <3>3, LenProperties
  <2>2. /\ Tail(Queued) \in Seq(Values)
        /\ Len(Tail(Queued)) = n - 1
        /\ \A k \in 1 .. n - 1 : Tail(Queued)[k] = Queued[k + 1]
    BY <1>5, <1>6, HeadTailProperties
  <2>3. \A k \in 1 .. n - 1 : Queued'[k] = Tail(Queued)[k]
    BY <1>7, <2>2
  <2> QED
    BY <2>1, <2>2, <2>3, SeqEqual
<1>9. Outcomes' = [Outcomes EXCEPT ![c] = Outcome(c)']
  BY OutcomeChanges
<1>10. Outcomes[c].state = "pop"
  BY OutcomeOf DEF Outcomes
<1>11. Outcome(c)' = Fifo!Returned(reg[c])
  BY DEF Outcome, Fifo!Returned
<1> QED
  BY <1>6, <1>8, <1>9, <1>10, <1>11 DEF Fifo!PopTakes, Outcomes

LEMMA StepRefines ==
  ASSUME FInv, FInv', [Next]_vars
  PROVE  [Fifo!Next]_(Fifo!vars)
<1>1. ASSUME NEW p \in Producers, NEW v \in Items, PushStart(p, v)
      PROVE  Fifo!Next
  BY <1>1, PushStartRefines DEF Fifo!Next
<1>2. ASSUME NEW p \in Producers, PushStep(p)
      PROVE  Fifo!Next \/ UNCHANGED Fifo!vars
  <2>1. CASE PushFull(p)
    BY <2>1, PushFullRefines DEF Fifo!Next
  <2>2. CASE PushClaim(p)
    BY <2>2, PushClaimRefines DEF Fifo!Next
  <2>3. CASE PushWrite(p)
    BY <2>3, PushWriteRefines
  <2>4. CASE PushHasRoom(p) \/ PushClaimFails(p) \/ PushPublish(p)
    BY <2>4, LooksRefine DEF Threads
  <2> QED
    BY <1>2, <2>1, <2>2, <2>3, <2>4 DEF PushStep
<1>3. ASSUME NEW c \in Consumers, PopStart(c)
      PROVE  Fifo!Next
  BY <1>3, PopStartRefines DEF Fifo!Next
<1>4. ASSUME NEW c \in Consumers, PopStep(c)
      PROVE  Fifo!Next \/ UNCHANGED Fifo!vars
  <2>1. CASE PopEmpty(c)
    BY <2>1, PopEmptyRefines DEF Fifo!Next
  <2>2. CASE PopAdvance(c)
    BY <2>2, PopAdvanceRefines DEF Fifo!Next
  <2>3. CASE \/ PopNonEmpty(c) \/ PopYield(c) \/ PopReadable(c)
             \/ PopCopy(c) \/ PopAdvanceFails(c) \/ PopClear(c)
    BY <2>3, LooksRefine DEF Threads
  <2> QED
    BY <1>4, <2>1, <2>2, <2>3 DEF PopStep
<1>5. CASE UNCHANGED vars
  BY <1>5 DEF vars, Fifo!vars, Queued, Count, Place, SlotItem, Writing, Outcome
<1> QED
  BY <1>1, <1>2, <1>3, <1>4, <1>5 DEF Next

(* Pushes and pops of a ring of any size are those of a FIFO of Size - 1   *)
(* places, each at one instant of its call, as long as no two pushes and   *)
(* no two pops overlap (GraphWrapper.h 43-86).                             *)
THEOREM Implements == Serialised => (Spec => ImplementsFifo)
<1> SUFFICES ASSUME Serialised PROVE Spec => ImplementsFifo
  OBVIOUS
<1>1. Init => FInv /\ Fifo!Init
  BY InitFInv, FifoInit
<1>2. FInv /\ [Next]_vars => FInv'
  BY StepFInv
<1>3. FInv /\ FInv' /\ [Next]_vars => [Fifo!Next]_(Fifo!vars)
  BY StepRefines
<1> QED
  BY <1>1, <1>2, <1>3, PTL DEF Spec, ImplementsFifo, Fifo!Spec
=============================================================================
