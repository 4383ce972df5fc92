------------------------- MODULE LockFreeRingBuffer -------------------------
(***************************************************************************)
(* LockFreeRingBuffer<T, Size> of include/GraphWrapper.h: a ring of slots  *)
(* with an atomic head, an atomic tail and one atomic `readable` flag per  *)
(* slot.  It carries inference requests and responses (AsyncAPI.h) and     *)
(* pools HIP events (GraphWrapper.cpp).                                    *)
(*                                                                         *)
(* One action per access to shared memory, so that the threads interleave  *)
(* at every point where they can.  Copying an item into or out of a slot   *)
(* is not atomic: a copy that overlaps a write yields an unspecified value.*)
(*                                                                         *)
(* SerialPush and SerialPop say whether the callers exclude one another    *)
(* for the length of a call, as those that hold the GIL or engine_mutex_   *)
(* do.                                                                     *)
(***************************************************************************)
EXTENDS Naturals

CONSTANTS
  Producers,    \* threads that call push
  Consumers,    \* threads that call pop
  Items,        \* what is queued
  Torn,         \* the outcome of a copy that raced with a write
  Size,         \* number of slots
  SerialPush,   \* at most one push in progress at any time
  SerialPop     \* at most one pop in progress at any time

ASSUME SizeAssumption   == Size \in Nat \ {0}
ASSUME ThreadAssumption == Producers \cap Consumers = {}
ASSUME SerialAssumption == SerialPush \in BOOLEAN /\ SerialPop \in BOOLEAN
ASSUME ItemAssumption   == Torn \notin Items

VARIABLES
  head,       \* head_
  tail,       \* tail_
  data,       \* buffer_[i].data
  readable,   \* buffer_[i].readable
  pc,         \* where each thread is in push or pop
  pos,        \* the local `tail` of a push, the local `head` of a pop
  reg         \* the item of a push, extracted_item of a pop, and, between
              \* calls, what the last one returned

vars == <<head, tail, data, readable, pc, pos, reg>>

Threads == Producers \cup Consumers
Slots   == 0 .. Size - 1
Values  == Items \cup {Torn}

(* Fault: the index does not wrap. *)
SuccUnwrapped(i) == i + 1

Succ(i) == IF i + 1 = Size THEN 0 ELSE i + 1     \* (i + 1) % Size

Goto(t, l) == pc' = [pc EXCEPT ![t] = l]

(* The slots between head and tail hold the queued items. *)
InFlight(i) ==
  IF head <= tail THEN head <= i /\ i < tail ELSE head <= i \/ i < tail

Writing(p, i)    == pc[p] = "push_write" /\ pos[p] = i
Publishing(p, i) == pc[p] \in {"push_write", "push_publish"} /\ pos[p] = i
Copying(c, i)    == pc[c] = "pop_copy" /\ pos[c] = i
Clearing(c, i)   == pc[c] = "pop_clear" /\ pos[c] = i

Init ==
  /\ head = 0
  /\ tail = 0
  /\ data = [i \in Slots |-> Torn]                \* never written
  /\ readable = [i \in Slots |-> FALSE]
  /\ pc = [t \in Threads |-> "idle"]
  /\ pos = [t \in Threads |-> 0]
  /\ reg = [t \in Threads |-> "none"]

-----------------------------------------------------------------------------
(* push(v) *)

PushStart(p, v) ==
  /\ pc[p] = "idle"
  /\ SerialPush => \A q \in Producers : pc[q] = "idle"
  /\ reg' = [reg EXCEPT ![p] = v]
  /\ pos' = [pos EXCEPT ![p] = tail]
  /\ Goto(p, "push_head")
  /\ UNCHANGED <<head, tail, data, readable>>

PushFull(p) ==
  /\ pc[p] = "push_head"
  /\ Succ(pos[p]) = head
  /\ reg' = [reg EXCEPT ![p] = "full"]
  /\ Goto(p, "idle")
  /\ UNCHANGED <<head, tail, data, readable, pos>>

(* Fault: the full ring is not noticed. *)
PushHasRoomUnchecked(p) ==
  /\ pc[p] = "push_head"
  /\ Goto(p, "push_cas")
  /\ UNCHANGED <<head, tail, data, readable, pos, reg>>

PushHasRoom(p) ==
  /\ pc[p] = "push_head"
  /\ Succ(pos[p]) # head
  /\ Goto(p, "push_cas")
  /\ UNCHANGED <<head, tail, data, readable, pos, reg>>

PushClaim(p) ==
  /\ pc[p] = "push_cas"
  /\ tail = pos[p]
  /\ tail' = Succ(pos[p])
  /\ Goto(p, "push_write")
  /\ UNCHANGED <<head, data, readable, pos, reg>>

(* compare_exchange_weak reloads `tail` and may fail spuriously. *)
PushClaimFails(p) ==
  /\ pc[p] = "push_cas"
  /\ pos' = [pos EXCEPT ![p] = tail]
  /\ Goto(p, "push_head")
  /\ UNCHANGED <<head, tail, data, readable, reg>>

PushWrite(p) ==
  /\ pc[p] = "push_write"
  /\ \E v \in IF \E q \in Producers \ {p} : Writing(q, pos[p])
                THEN {reg[p], Torn} ELSE {reg[p]} :
       data' = [data EXCEPT ![pos[p]] = v]
  /\ Goto(p, "push_publish")
  /\ UNCHANGED <<head, tail, readable, pos, reg>>

(* Fault: the flag is not set. *)
PushPublishForgotten(p) ==
  /\ pc[p] = "push_publish"
  /\ reg' = [reg EXCEPT ![p] = "pushed"]
  /\ Goto(p, "idle")
  /\ UNCHANGED <<head, tail, data, readable, pos>>

PushPublish(p) ==
  /\ pc[p] = "push_publish"
  /\ readable' = [readable EXCEPT ![pos[p]] = TRUE]
  /\ reg' = [reg EXCEPT ![p] = "pushed"]
  /\ Goto(p, "idle")
  /\ UNCHANGED <<head, tail, data, pos>>

-----------------------------------------------------------------------------
(* pop() *)

PopStart(c) ==
  /\ pc[c] = "idle"
  /\ SerialPop => \A d \in Consumers : pc[d] = "idle"
  /\ pos' = [pos EXCEPT ![c] = head]
  /\ Goto(c, "pop_tail")
  /\ UNCHANGED <<head, tail, data, readable, reg>>

PopEmpty(c) ==
  /\ pc[c] = "pop_tail"
  /\ pos[c] = tail
  /\ reg' = [reg EXCEPT ![c] = "empty"]
  /\ Goto(c, "idle")
  /\ UNCHANGED <<head, tail, data, readable, pos>>

PopNonEmpty(c) ==
  /\ pc[c] = "pop_tail"
  /\ pos[c] # tail
  /\ Goto(c, "pop_readable")
  /\ UNCHANGED <<head, tail, data, readable, pos, reg>>

(* Not published yet: yield and look again, with the same local head. *)
PopYield(c) ==
  /\ pc[c] = "pop_readable"
  /\ ~readable[pos[c]]
  /\ Goto(c, "pop_tail")
  /\ UNCHANGED <<head, tail, data, readable, pos, reg>>

(* Fault: the flag is not looked at. *)
PopReadableUnchecked(c) ==
  /\ pc[c] = "pop_readable"
  /\ Goto(c, "pop_copy")
  /\ UNCHANGED <<head, tail, data, readable, pos, reg>>

PopReadable(c) ==
  /\ pc[c] = "pop_readable"
  /\ readable[pos[c]]
  /\ Goto(c, "pop_copy")
  /\ UNCHANGED <<head, tail, data, readable, pos, reg>>

PopCopy(c) ==
  /\ pc[c] = "pop_copy"
  /\ \E v \in IF \E p \in Producers : Writing(p, pos[c])
                THEN Values ELSE {data[pos[c]]} :
       reg' = [reg EXCEPT ![c] = v]
  /\ Goto(c, "pop_cas")
  /\ UNCHANGED <<head, tail, data, readable, pos>>

PopAdvance(c) ==
  /\ pc[c] = "pop_cas"
  /\ head = pos[c]
  /\ head' = Succ(pos[c])
  /\ Goto(c, "pop_clear")
  /\ UNCHANGED <<tail, data, readable, pos, reg>>

(* The failing compare_exchange_weak reloads `head`. *)
PopAdvanceFails(c) ==
  /\ pc[c] = "pop_cas"
  /\ pos' = [pos EXCEPT ![c] = head]
  /\ Goto(c, "pop_tail")
  /\ UNCHANGED <<head, tail, data, readable, reg>>

(* Fault: the flag is not cleared. *)
PopClearForgotten(c) ==
  /\ pc[c] = "pop_clear"
  /\ Goto(c, "idle")
  /\ UNCHANGED <<head, tail, data, readable, pos, reg>>

PopClear(c) ==
  /\ pc[c] = "pop_clear"
  /\ readable' = [readable EXCEPT ![pos[c]] = FALSE]
  /\ Goto(c, "idle")
  /\ UNCHANGED <<head, tail, data, pos, reg>>

-----------------------------------------------------------------------------
PushStep(p) ==
  \/ PushFull(p) \/ PushHasRoom(p)
  \/ PushClaim(p) \/ PushClaimFails(p)
  \/ PushWrite(p) \/ PushPublish(p)

PopStep(c) ==
  \/ PopEmpty(c) \/ PopNonEmpty(c)
  \/ PopYield(c) \/ PopReadable(c)
  \/ PopCopy(c)
  \/ PopAdvance(c) \/ PopAdvanceFails(c)
  \/ PopClear(c)

Next ==
  \/ \E p \in Producers : (\E v \in Items : PushStart(p, v)) \/ PushStep(p)
  \/ \E c \in Consumers : PopStart(c) \/ PopStep(c)

(***************************************************************************)
(* A thread inside a call is scheduled again and again, and a weak         *)
(* compare-exchange does not fail spuriously for ever.  Nobody has to call.*)
(***************************************************************************)
Fairness ==
  /\ \A p \in Producers : WF_vars(PushStep(p)) /\ SF_vars(PushClaim(p))
  /\ \A c \in Consumers : WF_vars(PopStep(c)) /\ SF_vars(PopAdvance(c))

Spec     == Init /\ [][Next]_vars
FairSpec == Spec /\ Fairness

-----------------------------------------------------------------------------
(* Every variable has its type; the indices stay within the ring. *)
TypeOK ==
  /\ head \in Slots
  /\ tail \in Slots
  /\ data \in [Slots -> Values]
  /\ readable \in [Slots -> BOOLEAN]
  /\ pc \in [Threads -> {"idle", "push_head", "push_cas", "push_write",
                         "push_publish", "pop_tail", "pop_readable",
                         "pop_copy", "pop_cas", "pop_clear"}]
  /\ pos \in [Threads -> Slots]
  /\ reg \in [Threads -> Values \cup {"none", "pushed", "full", "empty"}]

(* A queued slot is readable, or the push that claimed it is still on its  *)
(* way to publish it: pop's wait for `readable` (GraphWrapper.h 69-75) is  *)
(* never a wait for nothing.                                               *)
NoLostSlot ==
  \A i \in Slots :
    InFlight(i) => readable[i] \/ \E p \in Producers : Publishing(p, i)

(* No slot is written while it is being copied out or written by another   *)
(* push: a claimed slot can be written "safely" (GraphWrapper.h 53, 76).   *)
NoDataRace ==
  \A p \in Producers, i \in Slots : Writing(p, i) =>
    /\ \A c \in Consumers : ~ Copying(c, i)
    /\ \A q \in Producers \ {p} : ~ Publishing(q, i)

(* The slot a push takes holds nothing that is still to be popped or still *)
(* to be cleared: the free slot between tail and head keeps a push out of  *)
(* the slot a pop has advanced over but not yet cleared.                   *)
ClaimedSlotIsFree ==
  [][\A p \in Producers : PushClaim(p) =>
       /\ ~ InFlight(pos[p])
       /\ ~ readable[pos[p]]
       /\ \A c \in Consumers : ~ Clearing(c, pos[p])]_vars

(* A pop that waits at the head of a non-empty ring sees the slot become   *)
(* readable, or somebody else takes it (GraphWrapper.h 70: "the slot       *)
(* *will* become readable shortly").                                       *)
SlotBecomesReadable ==
  \A c \in Consumers, i \in Slots :
    pc[c] = "pop_readable" /\ pos[c] = i /\ head = i /\ InFlight(i)
      ~> readable[i] \/ head # i

(* Every push and every pop returns. *)
CallsReturn == \A t \in Threads : pc[t] # "idle" ~> pc[t] = "idle"

=============================================================================
