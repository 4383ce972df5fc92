---------------------------- MODULE GraphWrapper ----------------------------
(***************************************************************************)
(* GraphWrapper of GraphWrapper.cpp with its BlockManager: captures a HIP  *)
(* graph for one shape, launches it on several streams and keeps what the  *)
(* launches use alive until their events have completed.                   *)
(*                                                                         *)
(* Every method is called with the GIL, takes engine_mutex_ and keeps both *)
(* to its end, so it is one step once the mutex is free; only launch       *)
(* releases the GIL in the middle, and is several steps.  The streams run  *)
(* what was launched on them in between.                                   *)
(*                                                                         *)
(* hipStream/hipEvent/hipGraph are external.  Capturing, instantiating,    *)
(* recording and querying may fail, creating fails at the latest when all  *)
(* Events exist.                                                           *)
(* sync_event_, recorded along with each event on the same stream, and     *)
(* graph_, which lives and dies with graph_exec_, are left out.            *)
(***************************************************************************)
EXTENDS Integers, Sequences

CONSTANTS
  Threads,               \* threads of the interpreter
  Nobody,
  Streams,
  Events, NoEvent,
  Shapes, NoShape,       \* [batch_size, seq_len]
  NumBlocks,             \* kv_pool_size_
  TokensPerBlock,        \* tokens_per_block_
  PoolCapacity,          \* POOL_SIZE - 1
  MaxQueued,             \* bound: launches a stream has queued
  LaunchMayFail,         \* hipGraphLaunch may fail
  CapturesUninterrupted  \* from begin_capture to end_capture nobody calls
                         \* begin_capture or invalidate

(* The sequences of n different elements of S. *)
Distinct(n, S) ==
  {s \in [1 .. n -> S] : \A j, k \in 1 .. n : s[j] = s[k] => j = k}

ASSUME GraphAssumption ==
  /\ Nobody \notin Threads
  /\ NoEvent \notin Events
  /\ NoShape \notin Shapes
  /\ \A sh \in Shapes : sh.seq_len \in Nat
  /\ NumBlocks \in Nat /\ TokensPerBlock \in Nat \ {0}
  /\ PoolCapacity \in Nat /\ MaxQueued \in Nat
  /\ Distinct(PoolCapacity, Events) # {}
  /\ LaunchMayFail \in BOOLEAN /\ CapturesUninterrupted \in BOOLEAN

VARIABLES
  gil,                  \* who holds the interpreter lock
  engine_mutex,
  pc,                   \* where each thread is in a call
  todo,                 \* the streams a launch still has to deal with
  outcome,              \* whether a thread's last call returns or raises
  capturing,            \* per stream: the shape being captured
  graph_exec,           \* the shape the instantiated graph was captured for
  is_instantiated,
  shape,                \* current_batch_size_, current_seq_len_
  in_flight_states,     \* the events of the launches not yet cleaned up
  event_pool,
  current_block_table,
  free_blocks,          \* BlockManager::free_blocks_
  work                  \* per stream: for each launch queued or running, the
                        \* event recorded after it

locks     == <<gil, engine_mutex, pc, todo, outcome>>
graphVars == <<capturing, graph_exec, is_instantiated, shape>>
events    == <<in_flight_states, event_pool>>
blocks    == <<current_block_table, free_blocks>>
graphWrapperVars == <<locks, graphVars, events, blocks, work>>

Smaller(m, n) == IF m <= n THEN m ELSE n
Elements(s)   == {s[k] : k \in DOMAIN s}
Reversed(s)   == [k \in DOMAIN s |-> s[Len(s) + 1 - k]]
From(s, n)    == SubSeq(s, n, Len(s))

Init ==
  /\ gil = Nobody
  /\ engine_mutex = Nobody
  /\ pc = [t \in Threads |-> "idle"]
  /\ todo = [t \in Threads |-> {}]
  /\ outcome = [t \in Threads |-> "ok"]
  /\ capturing = [s \in Streams |-> NoShape]
  /\ graph_exec = NoShape
  /\ is_instantiated = FALSE
  /\ shape = NoShape
  /\ in_flight_states = << >>
  /\ event_pool = CHOOSE s \in Distinct(PoolCapacity, Events) : TRUE
  /\ current_block_table = << >>
  /\ free_blocks = [k \in 1 .. NumBlocks |-> k - 1]
  /\ work = [s \in Streams |-> << >>]

-----------------------------------------------------------------------------
(* Python calls a method: with the GIL, it waits for the mutex. *)
Call(t) ==
  /\ pc[t] = "idle"
  /\ gil = Nobody
  /\ gil' = t
  /\ pc' = [pc EXCEPT ![t] = "enter"]
  /\ UNCHANGED <<engine_mutex, todo, outcome, graphVars, events, blocks, work>>

Enters(t) == pc[t] = "enter" /\ engine_mutex = Nobody

(* The call is over: the lock_guard and the interpreter let go. *)
Leave(t, result) ==
  /\ gil' = Nobody
  /\ engine_mutex' = Nobody
  /\ pc' = [pc EXCEPT ![t] = "idle"]
  /\ todo' = [todo EXCEPT ![t] = {}]
  /\ outcome' = [outcome EXCEPT ![t] = result]

NoCapture == \A s \in Streams : capturing[s] = NoShape

(* Fault: the sequence length is not compared. *)
is_valid_any_length(sh) ==
  is_instantiated /\ shape # NoShape /\ shape.batch_size = sh.batch_size

is_valid(sh) == is_instantiated /\ shape = sh

-----------------------------------------------------------------------------
(* hipEventSynchronize of every in-flight event: a stream is done with all *)
(* up to the last it is waited for.                                        *)
Awaited(s) == {k \in DOMAIN work[s] : work[s][k] \in Elements(in_flight_states)}
LastAwaited(s) ==
  CHOOSE n \in Awaited(s) \cup {0} : \A k \in Awaited(s) : k <= n

SynchronizeInFlight ==
  work' = [s \in Streams |-> From(work[s], LastAwaited(s) + 1)]

(* Fault: nothing is waited for. *)
discard_graph_unsynchronized ==
  /\ UNCHANGED work
  /\ graph_exec' = NoShape
  /\ is_instantiated' = FALSE
  /\ in_flight_states' = << >>
  /\ event_pool' = << >>

(* What invalidate does to the graph and to the events. *)
discard_graph ==
  /\ SynchronizeInFlight
  /\ graph_exec' = NoShape
  /\ is_instantiated' = FALSE
  /\ in_flight_states' = << >>
  /\ event_pool' = << >>

(* Fault: the table is not cleared. *)
free_blocks_twice ==
  /\ free_blocks' = free_blocks \o current_block_table
  /\ UNCHANGED current_block_table

free_all_blocks ==
  /\ free_blocks' = free_blocks \o current_block_table
  /\ current_block_table' = << >>

invalidate(t) ==
  /\ Enters(t)
  /\ CapturesUninterrupted => NoCapture
  /\ discard_graph
  /\ shape' = NoShape
  /\ free_all_blocks
  /\ Leave(t, "ok")
  /\ UNCHANGED capturing

-----------------------------------------------------------------------------
blocks_needed(sh) == (sh.seq_len + TokensPerBlock - 1) \div TokensPerBlock

(* invalidate has given all blocks back; they are handed out from the back.*)
allocate_blocks(n) ==
  LET all == free_blocks \o current_block_table IN
  /\ current_block_table' = Reversed(From(all, Len(all) - n + 1))
  /\ free_blocks' = SubSeq(all, 1, Len(all) - n)

begin_capture_valid(t, sh) ==
  /\ Enters(t)
  /\ CapturesUninterrupted => NoCapture
  /\ is_valid(sh)
  /\ Leave(t, "ok")
  /\ UNCHANGED <<graphVars, events, blocks, work>>

begin_capture(t, s, sh) ==
  LET available == Len(free_blocks) + Len(current_block_table) IN
  /\ Enters(t)
  /\ CapturesUninterrupted => NoCapture
  /\ ~ is_valid(sh)
  /\ discard_graph
  /\ shape' = sh
  /\ allocate_blocks(Smaller(blocks_needed(sh), available))
  /\ \/ /\ blocks_needed(sh) <= available
        /\ capturing[s] = NoShape
        /\ capturing' = [capturing EXCEPT ![s] = sh]
        /\ Leave(t, "ok")
     \/ /\ UNCHANGED capturing          \* out of blocks, or HIP refuses
        /\ Leave(t, "raised")

end_capture(t, s) ==
  /\ Enters(t)
  /\ capturing[s] # NoShape
  /\ graph_exec' = capturing[s]
  /\ is_instantiated' = TRUE
  /\ capturing' = [capturing EXCEPT ![s] = NoShape]
  /\ Leave(t, "ok")
  /\ UNCHANGED <<shape, events, blocks, work>>

(* There is no capture to end, or no graph comes out of it. *)
end_capture_fails(t, s) ==
  /\ Enters(t)
  /\ capturing' = [capturing EXCEPT ![s] = NoShape]
  /\ Leave(t, "raised")
  /\ UNCHANGED <<graph_exec, is_instantiated, shape, events, blocks, work>>

-----------------------------------------------------------------------------
(* launch *)

Completed(e) == \A s \in Streams : \A k \in DOMAIN work[s] : work[s][k] # e

(* Fault: the pool takes what it has no room for. *)
cleanup_unbounded(n) ==
  /\ event_pool' = event_pool \o SubSeq(in_flight_states, 1, n)
  /\ in_flight_states' = From(in_flight_states, n + 1)

(* Give back n events; push says nothing of those the pool has no room for.*)
cleanup(n) ==
  LET all == event_pool \o SubSeq(in_flight_states, 1, n) IN
  /\ event_pool' = SubSeq(all, 1, Smaller(PoolCapacity, Len(all)))
  /\ in_flight_states' = From(in_flight_states, n + 1)

(* Fault: an event that is not ready is skipped. *)
cleanup_in_flight_states_unordered ==
  \E n \in 0 .. Len(in_flight_states) :
    /\ n > 0 => Completed(in_flight_states[n])
    /\ \A m \in n + 1 .. Len(in_flight_states) : ~ Completed(in_flight_states[m])
    /\ cleanup(n)

cleanup_completed(n) ==
  /\ \A k \in 1 .. n : Completed(in_flight_states[k])
  /\ cleanup(n)

cleanup_in_flight_states ==
  \E n \in 0 .. Len(in_flight_states) :
    /\ n < Len(in_flight_states) => ~ Completed(in_flight_states[n + 1])
    /\ cleanup_completed(n)

(* The query of the event after the first n fails. *)
cleanup_raises == \E n \in 0 .. Len(in_flight_states) - 1 : cleanup_completed(n)

(* An event cannot be queried, nothing is instantiated, or a stream object *)
(* is no integer.                                                          *)
launch_refused(t) ==
  /\ Enters(t)
  /\ cleanup_raises \/ cleanup_in_flight_states
  /\ Leave(t, "raised")
  /\ UNCHANGED <<graphVars, blocks, work>>

(* Up to the release of the GIL. *)
launch(t, stream_objs) ==
  /\ Enters(t)
  /\ is_instantiated
  /\ cleanup_in_flight_states
  /\ engine_mutex' = t
  /\ gil' = Nobody
  /\ pc' = [pc EXCEPT ![t] = "dispatch"]
  /\ todo' = [todo EXCEPT ![t] = stream_objs]
  /\ UNCHANGED <<outcome, graphVars, blocks, work>>

Dispatch(t) ==
  /\ pc[t] = "dispatch"
  /\ \A s \in todo[t] : Len(work[s]) < MaxQueued
  /\ \E launched \in IF LaunchMayFail THEN SUBSET todo[t] ELSE {todo[t]} :
       /\ work' = [s \in Streams |->
            IF s \in launched THEN Append(work[s], NoEvent) ELSE work[s]]
       /\ outcome' = [outcome EXCEPT ![t] =
            IF launched = todo[t] THEN "ok" ELSE "raised"]
  /\ pc' = [pc EXCEPT ![t] = "reacquire"]
  /\ UNCHANGED <<gil, engine_mutex, todo, graphVars, events, blocks>>

(* A launch that failed raises as soon as the GIL is back. *)
Reacquire(t) ==
  /\ pc[t] = "reacquire"
  /\ gil = Nobody
  /\ IF outcome[t] = "raised" THEN Leave(t, "raised")
     ELSE /\ gil' = t
          /\ pc' = [pc EXCEPT ![t] = "record"]
          /\ UNCHANGED <<engine_mutex, todo, outcome>>
  /\ UNCHANGED <<graphVars, events, blocks, work>>

Done(t, s) == todo' = [todo EXCEPT ![t] = @ \ {s}]

(* The event completes with what the stream has queued now. *)
hipEventRecord(e, s) ==
  work' = IF work[s] = << >> THEN work
          ELSE [work EXCEPT ![s] = [@ EXCEPT ![Len(@)] = e]]

KeepInFlight(e) == in_flight_states' = Append(in_flight_states, e)

(* Fault: the event stays in the pool. *)
RecordPooledKept(t, s) ==
  /\ pc[t] = "record" /\ s \in todo[t]
  /\ event_pool # << >>
  /\ hipEventRecord(Head(event_pool), s)
  /\ KeepInFlight(Head(event_pool))
  /\ Done(t, s)
  /\ UNCHANGED <<event_pool, gil, engine_mutex, pc, outcome, graphVars, blocks>>

RecordPooled(t, s) ==
  /\ pc[t] = "record" /\ s \in todo[t]
  /\ event_pool # << >>
  /\ hipEventRecord(Head(event_pool), s)
  /\ KeepInFlight(Head(event_pool))
  /\ event_pool' = Tail(event_pool)
  /\ Done(t, s)
  /\ UNCHANGED <<gil, engine_mutex, pc, outcome, graphVars, blocks>>

RecordCreated(t, s) ==
  /\ pc[t] = "record" /\ s \in todo[t]
  /\ event_pool = << >>
  /\ Events \ Elements(in_flight_states) # {}
  /\ LET e == CHOOSE e \in Events : e \notin Elements(in_flight_states) IN
       hipEventRecord(e, s) /\ KeepInFlight(e)
  /\ Done(t, s)
  /\ UNCHANGED <<event_pool, gil, engine_mutex, pc, outcome, graphVars, blocks>>

(* No event, or it cannot be recorded: the stream is waited for.  An event *)
(* taken from the pool is neither put back nor destroyed.                  *)
SynchronizeInstead(t, s) ==
  /\ pc[t] = "record" /\ s \in todo[t]
  /\ work' = [work EXCEPT ![s] = << >>]
  /\ event_pool' = IF event_pool = << >> THEN << >> ELSE Tail(event_pool)
  /\ Done(t, s)
  /\ UNCHANGED <<in_flight_states, gil, engine_mutex, pc, outcome, graphVars,
                 blocks>>

LaunchReturns(t) ==
  /\ pc[t] = "record" /\ todo[t] = {}
  /\ Leave(t, "ok")
  /\ UNCHANGED <<graphVars, events, blocks, work>>

(* A stream is done with a launch, and with the event recorded after it. *)
Execute(s) ==
  /\ work[s] # << >>
  /\ work' = [work EXCEPT ![s] = Tail(@)]
  /\ UNCHANGED <<locks, graphVars, events, blocks>>

-----------------------------------------------------------------------------
LaunchStep(t) ==
  \/ Dispatch(t) \/ Reacquire(t)
  \/ \E s \in Streams :
       RecordPooled(t, s) \/ RecordCreated(t, s) \/ SynchronizeInstead(t, s)
  \/ LaunchReturns(t)

Method(t) ==
  \/ invalidate(t)
  \/ \E sh \in Shapes :
       \/ begin_capture_valid(t, sh)
       \/ \E s \in Streams : begin_capture(t, s, sh)
  \/ \E s \in Streams : end_capture(t, s) \/ end_capture_fails(t, s)
  \/ launch_refused(t)
  \/ \E stream_objs \in SUBSET Streams : launch(t, stream_objs)

Next ==
  \/ \E t \in Threads : Call(t) \/ Method(t) \/ LaunchStep(t)
  \/ \E s \in Streams : Execute(s)

(* A thread in a call goes on when it can, and streams execute. *)
Fairness ==
  /\ \A t \in Threads : WF_graphWrapperVars(Method(t) \/ LaunchStep(t))
  /\ \A s \in Streams : WF_graphWrapperVars(Execute(s))

Spec     == Init /\ [][Next]_graphWrapperVars
FairSpec == Spec /\ Fairness

-----------------------------------------------------------------------------
Blocks == 0 .. NumBlocks - 1

(* Every variable has its type. *)
TypeOK ==
  /\ gil \in Threads \cup {Nobody}
  /\ engine_mutex \in Threads \cup {Nobody}
  /\ pc \in [Threads -> {"idle", "enter", "dispatch", "reacquire", "record"}]
  /\ todo \in [Threads -> SUBSET Streams]
  /\ outcome \in [Threads -> {"ok", "raised"}]
  /\ capturing \in [Streams -> Shapes \cup {NoShape}]
  /\ graph_exec \in Shapes \cup {NoShape}
  /\ is_instantiated \in BOOLEAN
  /\ shape \in Shapes \cup {NoShape}
  /\ in_flight_states \in Seq(Events)
  /\ event_pool \in Seq(Events) /\ Len(event_pool) <= PoolCapacity
  /\ current_block_table \in Seq(Blocks)
  /\ free_blocks \in Seq(Blocks)
  /\ work \in [Streams -> Seq(Events \cup {NoEvent})]

Repeats(s) == \E j, k \in DOMAIN s : j # k /\ s[j] = s[k]

(* Every KV block is either free or in the block table, once, whatever     *)
(* begin_capture ran into: free_block itself would take a block twice      *)
(* (BlockManager.h 73-82, GraphWrapper.cpp 100-104 and 134-145).           *)
BlocksConserved ==
  LET all == free_blocks \o current_block_table IN
  Elements(all) = Blocks /\ ~ Repeats(all)

(* An event belongs to one launch or to the pool, and one in the pool is   *)
(* not waiting for anything (GraphWrapper.cpp 107-119 and 205-232).        *)
EventsOwnedOnce ==
  /\ ~ Repeats(event_pool \o in_flight_states)
  /\ \A e \in Elements(event_pool) : Completed(e)

(* What is running on a stream is kept alive by an in-flight state with the*)
(* event recorded after it, or by the launch call that is at it            *)
(* (GraphWrapper.h 156, GraphWrapper.cpp 224-233).                         *)
RunningLaunchesHeld ==
  \A s \in Streams : \A k \in DOMAIN work[s] :
    \/ work[s][k] \in Elements(in_flight_states)
    \/ k = Len(work[s]) /\ \E t \in Threads :
         s \in todo[t] /\ pc[t] \in {"reacquire", "record"}

(* A graph is destroyed only when nothing that was launched is still       *)
(* running (GraphWrapper.cpp 69-75; mock_hip.h 117 calls it a severe       *)
(* error).                                                                 *)
DestroyedIdle ==
  [][graph_exec # NoShape /\ graph_exec' = NoShape =>
       \A s \in Streams : work'[s] = << >>]_graphWrapperVars

(* If captures are not interrupted, a graph that is_valid says can be      *)
(* launched was captured for that shape and has exactly the blocks of that *)
(* shape, and no capture replaces a graph without destroying it            *)
(* (GraphWrapper.cpp 121-164).                                             *)
GraphFitsShape ==
  /\ \A sh \in Shapes : is_valid(sh) =>
       /\ graph_exec = sh
       /\ Len(current_block_table) = blocks_needed(sh)
  /\ ~ NoCapture => graph_exec = NoShape

(* GraphWrapper.h 191: engine_mutex_ is a "Mutex for thread safety": every *)
(* call of every thread returns.                                           *)
CallsReturn == \A t \in Threads : pc[t] # "idle" ~> pc[t] = "idle"

=============================================================================
