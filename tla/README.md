# A verification project for Kinetic-RT

Kinetic-RT serves language models on AMD (HIP) and NVIDIA (TensorRT) devices: a
C++ core that compiles, loads and launches kernels and HIP graphs, pybind11
bindings, and a Python layer with an orchestrator and an HTTP server. This
directory holds TLA+ modules translated from that code, TLC configurations that
check them on small instances, and TLAPS proofs of what matters most.

Every definition that models code is listed with its file and lines in
`PROJECT.json` ("map"); so are the properties that each hazard of the code is
covered by ("hazards").

## 1. Inventory

| Component | State it keeps | Operations | Shared with |
|---|---|---|---|
| `LockFreeRingBuffer` (`include/GraphWrapper.h` 31-91) | head, tail, slots with a `readable` flag | `push`, `pop` | both queues of the server, the event pool |
| `InferenceQueue` (`include/AsyncAPI.h` 27-58) | a ring of requests, a ring of responses | `submit`, `poll` (Python side), `fetch_request`, `push_response` (worker side) | server and worker |
| `InferenceWorker` (`AsyncAPI.h` 60-130) | `stop_`, the request at hand, the token counter | thread loop, destructor | the queue, the router |
| `KineticServer` (`python/kinetic_rt/serve.py`) | `pinned_tensors`, `_pending_responses` | one `_async_generate` coroutine per request | event loop, queue |
| `RequestContext` (`RequestContext.h/.cpp`) | lifecycle state, owner, cancellation flag, deadline, finish reason, cleanup callbacks, attached resources | transitions, two-phase cancellation, ownership transfer, cleanup | any number of threads |
| `GraphWrapper` (`GraphWrapper.cpp`) | the instantiated graph and its shape, in-flight states, event pool, block table | `begin_capture`, `end_capture`, `launch`, `is_valid`, `invalidate` | Python threads, HIP streams |
| `BlockManager` (`BlockManager.h`) | list of free KV blocks | `allocate_block`, `free_block` | `GraphWrapper` only |
| `AOTEngine`, `Serializer` (`AOTEngine.cpp`) | the loaded HIP module and its functions; `.kin` files | compile, save, load, launch | Python threads, the worker |
| `HardwareRouter` (`Router.h`), `TRTEngine` | which backend is loaded | load, launch | the worker |
| `KineticRuntime` (`orchestrator.py`) | tokenizer, model paths, the tokens of the call at hand | `load_model`, `generate` | engine, wrapper |
| bindings (`python_bindings.cpp`) | tensor descriptors, filled in by hand or made from a tensor | `validate_tensor_descriptor`, `make_descriptor_from_tensor`, the launches | Python code, engine, router |
| `ThreadPool` (`GraphWrapper.h` 93-145) | task queue, `stop`, a condition variable, its workers | `enqueue`, worker loop, destructor | nobody in this repository constructs one |
| `fusion_forge.py` | the kind of the last artifact (a module global) | compile and serialise | engine, through Python |
| `Communicator`, `kernel_tuner.py`, `hardware_probe.py` | - | thin layers over libraries | - |

How they interact: an HTTP request becomes a coroutine of `KineticServer` that
pins its input tensor, submits its pointer to the request ring and polls the
response ring, together with all other coroutines on the one event loop. One
worker thread fetches requests, launches the model once per token through the
router, and pushes a response per token. Submitting and polling hold the GIL;
the worker does not need it. A `GraphWrapper` is called from Python threads that
hold the GIL, and lets go of it inside `launch` only.

What is hard here: the memory order of the ring; two bounded rings between a
thread that polls and submits and a thread that fetches and pushes; responses
that reach the coroutine of somebody else; requests that are given up while the
worker still has them; requests whose end several threads race for; GPU work
that outlives the call that started it; two locks, the GIL and `engine_mutex_`,
taken in both orders; HIP calls that fail half way; sums, products and
conversions of machine integers on numbers that come from files and tensors.

What makes each component correct:

* ring: a FIFO; nothing lost, duplicated or torn; every call returns;
* queue, worker, server: each client sees its own tokens, all of them, once and
  in order; every accepted request ends; the worker reads live tensors only and
  stops when told to;
* request context: a request ends once and for a reason that fits; its callbacks
  run once, in LIFO order, and never under a backend step;
* graph wrapper: what runs on a stream is kept alive; blocks and events have one
  owner; a graph said to be valid is the one for that shape; calls return;
* engine: labels are true, no mock is launched in production, a failed load leaves
  nothing half replaced; nothing is read from outside a file, and a file is loaded
  if it is whole;
* bindings and runtime: what is accepted as a tensor is dense and lies in its
  storage, a grid covers the work, each token is chosen from logits the device has
  finished to write;
* thread pool: each task is taken, once and in order, and the destructor returns.

## 2. Modules

| Module | What it is |
|---|---|
| `BoundedFifo` | abstract: a linearizable bounded queue |
| `LockFreeRingBuffer` | `push` and `pop`, one action per access to shared memory |
| `LockFreeRingBufferFifo` | the refinement mapping from the ring to `BoundedFifo` |
| `InferenceQueue` | the two rings as atomic queues |
| `InferenceWorker` | extends it with the worker thread |
| `KineticServer` | extends that with the event loop: the whole serving path |
| `GenerationService` | abstract: what the serving path promises its clients |
| `RequestContext` | one request's lifecycle |
| `GraphWrapper` | captures, launches, events, blocks, GIL and mutex |
| `AOTEngine` | compiles, labels, saves, loads and launches, over `.kin` files |
| `MachineWords`, `KinFormat`, `TensorDescriptor` | operators: integers of a width, the bytes of a `.kin` file, the checks on tensors |
| `NativeBoundary` | the calls in which numbers reach the engine from files and tensors |
| `KineticRuntime` | extends it with the generation loop |
| `ThreadPool` | workers, `enqueue`, destructor |
| `MC...` | the instances TLC runs on |
| `...Proofs` | the theorems about the module of that name; those of `LockFreeRingBufferFifo` are in `LockFreeRingBufferProofs` |

An operator whose comment begins with "Fault:" is not part of the
specification: it is an operation with a plausible bug, and shows that the
property it is listed with in `PROJECT.json` ("mutants") can notice one.

### LockFreeRingBuffer

`head`, `tail`, `data`, `readable` are the members; `pc`, `pos`, `reg` are a
thread's place in `push` or `pop` and its locals. Each action is one load, store
or compare-exchange, so threads interleave wherever they can. The item itself is
not atomic: a copy that overlaps a write may yield any value, two overlapping
writes leave either the item or `Torn`. The compare-exchanges are weak and may
fail spuriously.

The model is sequentially consistent. The orderings the code asks for suffice
where the properties are claimed, with one push and one pop at a time: publishing
`readable` releases the item and `pop` acquires it; `head` is moved with release
and read by the full check with acquire, and because one slot stays free, a push
can reach a slot again only after a *later* pop has moved `head`, which orders
the earlier pop's clearing of the flag before it.

`SerialPush` and `SerialPop` say whether callers exclude each other for a whole
call. In the server they do: `submit` and `poll` are called with the GIL held and
the bindings do not release it, and there is one worker. In `GraphWrapper` they
do by `engine_mutex_`. With several workers on one queue, which the bindings
allow, they do not.

### InferenceQueue, InferenceWorker, KineticServer

The rings are atomic here, which is what the refinement of the ring shows for
serialised callers. A request is `[id, max_tokens]`; a response carries the
*index* of its token, so that loss, duplication and reordering are visible,
whether the token can be decoded, and `is_finished`. A step of a coroutine is
what it does from one await to the next. `submit` does not await: while it spins
on a full ring the event loop stands still (`LoopIsFree`), and with it everything
that polls. With both rings full the two spins wait for each other for ever; the
state has a name, `Stalled`.

A response is popped before its token is converted to a Python string; a byte
that is no UTF-8 makes `poll` raise (`PollRaises`), the response is gone
(`lost`), and the request that happened to poll ends in an error, even if the
response was another's. A launch may throw; nobody catches it on the worker
thread and the process ends (`Terminated`).

`GenerationService` says what is left of this for a client: a request is rejected
or accepted with a limit, is sent its tokens one after the other, ends with the
last or is given up; a token may be missing only if some request failed over it.
It has no queues, no worker and nobody's responses but one's own. The mapping is
`Service`: `coro` becomes the status, `lost` what is missing.

### RequestContext

Each method is one step, since it holds `mutex_` throughout; not so cleanup, which
extracts the callbacks under the mutex and runs them, one step each, after it;
nor a backend step, which begins with `ensure_executable` (`BeginStep`) and ends
later (`EndStep`). `EndsBetweenSteps` is the discipline of callers under which no
callback runs under a step: a request reaches a terminal state only while no step
is in flight. It restricts nothing else. `set_finish_reason` has no guard, as in
the code, and `transition_to` takes a caller to any state the table of transitions
allows, also to `CANCELLED` and `TIMED_OUT`. `registered`, `ran` and `given`, the
last reason a caller has set, are histories; they influence nothing.

### GraphWrapper

`Call` is the interpreter entering a method with the GIL; the thread then waits
for `engine_mutex`, *with* the GIL. All methods but `launch` are one step. `launch`
cleans up completed states, releases the GIL (`launch`), launches on every stream
(`Dispatch`), takes the GIL back (`Reacquire`, which raises when a launch failed)
and records an event per stream (`RecordPooled`, `RecordCreated`,
`SynchronizeInstead`). `work[s]` is what stream `s` still has to execute, each
launch with the event recorded after it; an event has completed when no stream
has it any more. A graph is known by the shape it was captured for. Events are
drawn from a finite set; when all exist, creation fails, and the code's fallback
(wait for the stream) is taken; it may also be taken at any other time, since
recording may fail.

`launch_refused` has no guard beyond entry: it stands for "not instantiated" and
for a stream object that is no integer, which may happen at any time. It is also
how a launch ends when the query of an event fails with another error than
"not ready" (`cleanup_raises`): the loop over the in-flight states throws at that
event, and those before it have been given back already.
`CapturesUninterrupted` is the discipline under which `is_valid` can be believed.

Not in the model: `sync_event_` (always recorded right after an event on the same
stream, so it covers nothing more), errors of destroying and synchronising
(after which the device is lost), the constructor's environment variables, and
the destructor (an `invalidate`).

### AOTEngine

An artifact is what a file was written from: device, target, label
(`artifact_kind`) and kernels, these known by whether they are genuine or a mock,
for which machine they are, and under which symbols. A file is the sequence of its
sections, header, metadata and kernels, each with the artifact it came from; it
may have fewer than three, since nobody looks at whether a write succeeded.

A compilation is four steps, with the GIL free between any two: it begins
(`compile_ahead_of_time` with `engine_mutex`, `compile_and_serialize` without),
`native_triton_compile` builds the kernels and sets the module global,
`get_op_graph_data` reads it, `Save` writes. Loading is two steps because the code
opens the file twice: the gate (`load_model`) and the loader, which refuses
(`load_fails`), loses the old module (`load_kernel_fails`) or replaces it
(`load_kernel`). `Restart` ends the process in any state; files stay.
`OtherProcessSaves` writes files with a true label or, as earlier versions did,
with none. `loaded` and `launched` are histories.

`Compilers` and `FilesStable` are what the properties need and the code does not
enforce: a single compiling thread, and no writer between the gate and the loader.
With two compilers TLC finds a mock labelled "production" (`ArtifactKindTrue`), with
unstable files a mock that is launched (`NoMockLaunched`), in seven steps each.

A launch is refused (`CanLaunch`) when nothing is loaded, and when the default
kernel is the fused one, which takes its arguments through a descriptor only: the
worker's launch of it throws.

Not in the model: the hash of the weights (which no load reads),
`loaded_kinetic_target_` (compared with itself only), streams and what runs on
them. Byte offsets and the grid of a launch are in the next modules. TensorRT has
no part in it.

### MachineWords, KinFormat, TensorDescriptor, NativeBoundary, KineticRuntime

`MachineWords` has the conversions of the code with the widths as constants:
`Word` (to `size_t`, modulo `WordSize`), `ToInt64`, `ToInt`, `Unsigned`.

`KinFormat` has the two readers of a header as predicates. The gate of
`load_model` compares a sum that may wrap and then relies on the number of bytes
the stream has read; `load_kin_file` checks for the overflow first. A file is its
size, its magic number and the two stretches its header names. `TensorDescriptor`
has the three checks on tensors, that of the bindings on a descriptor, that of the
bindings on a tensor, and that of `orchestrator.py`, each as one predicate, and
what they should amount to: `Dense`, by the place of every element. A loop over a
shape is a recursive function, so that it can be proved about.

`NativeBoundary` gives these to the calls that use them. `in` is the file
`load_model` has open: one this code saved (`saved` remembers with which sizes),
cut short anywhere, or any other. `taken` is what was read of it. `input` is the
descriptor or tensor of a call, `launched` the arguments of the kernel launch. Only
one call is under way at a time, as `engine_mutex_` has it. What a kernel is and
whether it is a mock is left to `AOTEngine`: `SectionsDecide` is the bridge, for a
file this code saved is loaded exactly when its sections are all there.

`KineticRuntime` adds `generate`. A turn of its loop is three steps, with the
device's own between them: the tensors are made, checked and launched on
(`launch_backend`), the device writes the logits (`DeviceWrites`), `synchronize`
waits for it, and a token is chosen (`ChooseToken`). The checks are that of
residency (`validate_device_residency`), which mocks switch off, and that of each
tensor. `synchronize` waits only if torch has a device; with mocks allowed on a
machine without one nothing waits. What is launched depends on the backend. The
router launches with the size of the input. An `AOTEngine` takes that size, the
fourth argument, for the stream and has a size of 0; what it launches may come to
nothing. A `GraphWrapper` captures a graph in which nothing is launched
(`LaunchGraph`), so that its logits stay unwritten. A text is known by the number
of its tokens.

Not in the model: the tokenizer, which token is chosen, and `load_model` of the
orchestrator, whose loop over shards has a single turn, since every file this code
writes says that it is the only shard.

### ThreadPool

What happens under `queue_mutex` is one step; `notify_one` and `notify_all` are
steps of their own, since they come after the mutex is released. A wait may end
spuriously. Tasks may enqueue tasks, also when the destructor has begun, and may
throw, which nobody catches. `enqueued` and `taken` are histories.

## 3. Runs

Passing runs:

| Run | Instance | What it shows |
|---|---|---|
| `ring_serial` | 2 producers and 1 consumer, serialised; 2 items; 3 slots | FIFO of two places (`ImplementsFifo`), no lost slot, no data race, claimed slots are free, every call returns |
| `serve` | 3 requests, rings of one place, a window of 3 | each stream in order (`StreamContinuity`), one that finishes whole, but for tokens a raising poll has lost, and nothing left behind by it (`FinishedLeavesNothing`), inputs pinned unless given up, every accepted request ends unless the server is `Stalled`, the worker stops, the abstract service is implemented (`ImplementsService`) |
| `request_context` | 2 threads, 2 owners, 3 callbacks, a deadline | LIFO exactly once, no callback under a step, a reason no caller set is the one the request ended for, all callbacks run |
| `graph` | 2 threads, 2 streams, 3 events (pool of 2), 3 shapes, 2 blocks, 2 launches queued per stream | blocks and events owned once, running launches held, graphs destroyed idle, `is_valid` truthful |
| `engine` | 2 threads of which 1 compiles, 1 file, 2 devices, 4 kinds of kernels, 2 symbols | true labels, no mock launched in production, kernels of the last load or none |
| `boundary` | a `size_t` of 6 bits, an `int` of 3, a header of one unit; see `MCKineticRuntime` | nothing taken from outside a file, saved files load when whole, accepted tensors are dense, both tensor checks agree, grids cover the work, tokens are chosen from written logits |
| `thread_pool` | 2 workers, 2 clients, 3 tasks | tasks taken once and in order, none left behind, enough wakeups for the queue (`NoWakeupLost`), all taken, the destructor returns |

Why these bounds are enough for the interesting cases:

* Ring: three slots make it full, empty and wrap, with a lap of the consumer by
  the producer; two producers show that serialising calls, not threads, is what
  counts.
* Serving: three requests are what it takes for one to poll the other's responses
  while a third is in `submit`, and a ring of one place is full at every turn. The
  prompts leave room for two tokens, for one (so that the limit is clamped), and
  for one or none (so that it is rejected). Misdecoded tokens, time-outs,
  disconnects, throwing launches and the shutdown may happen at any step. The
  instance reaches `Stalled`: the property without that disjunct fails on it.
* Request context: two threads can race to end a request, to clean it up and to
  destroy it; three callbacks tell LIFO from other orders.
* Graph: two streams let a later launch complete first; three events with a pool
  of two overfill the pool and exhaust creation; the shapes need one block, both,
  and more than there are. `MaxQueued` bounds what is queued on a stream.
* Engine: one file is replaced by every other, whole or cut short; kernels with
  the first symbol, the second and none tell the default and leftovers apart.
* Boundary: the fields of a foreign header are the small numbers and those next to
  the largest signed and unsigned ones, in every combination, so that each sum
  wraps or just does not; shapes have up to three dimensions, an empty one, a
  negative one, and products that are no `int64_t` and no `size_t`; sizes of
  launches go past what is an `int`'s worth of items.
* Thread pool: with two workers a notification can wake the one that is overtaken
  by the other; a third task can be enqueued by a task, before or after the
  destructor begins. Each task is enqueued at most once, which bounds the queue.

The real sizes (1023, 4095 and 2047 places, 64 and 32 bits) differ in nothing the
code looks at; for the widths and for the sizes of rings and pools the theorems
say so.

`CHECK_DEADLOCK FALSE` is set where the system really may stop: when all requests
have ended and the server is shut down, when a launch ends the process, when a
request context is destroyed, when a thread pool is destroyed, when a task ends
the process, and in `graph` and `engine`, where the threads may deadlock, as
`graph_deadlock` shows for the first.

Runs that refute something the repository says:

| Run | What is said | What the code does |
|---|---|---|
| `ring_two_consumers` | "if head != tail, the slot *will* become readable shortly" (`GraphWrapper.h` 70) | with two pops at a time, the late clearing of a flag erases the flag of the next item |
| `serve_unpinned` | `input_ptr` is a GPU pointer for the prefill (`AsyncAPI.h` 91) | a request given up while queued is launched on a tensor that was unpinned |
| `request_context_steps` | cleanup is "Terminal-gated to prevent racing with in-flight backend steps" (`RequestContext.h` 172) | the gate looks at the state, not at steps: callbacks run under a step |
| `graph_deadlock` | "Mutex for thread safety" (`GraphWrapper.h` 191) | a launch waits for the GIL with the mutex, another call for the mutex with the GIL |
| `graph_partial_launch` | "holding buffer references" (`python_bindings.cpp` 294), "Sync every in-flight event" (`GraphWrapper.cpp` 70) | when a later stream's launch fails, nothing holds the earlier ones |

## 4. Fairness

* Ring: a thread inside a call is scheduled (weak fairness per thread), and a weak
  compare-exchange does not fail spuriously for ever (strong fairness on its
  success). Nobody has to call.
* Serving: the event loop gives every coroutine its turns, and the worker thread
  runs and its launches return or throw (weak fairness); a time-out is looked at
  in each turn without a response of one's own, and the clock advances, so it is
  weakly fair as well. Clients need not come or disconnect, nobody has to shut the
  server down.
* Request context: a thread that runs callbacks goes on.
* Graph wrapper: a thread in a call goes on when it can, streams execute. Under
  this fairness a single thread's calls always return; two threads' need not.
* Thread pool: threads are scheduled, `queue_mutex` goes round, a task comes to an
  end (weak fairness of each worker's step, of each pending notification, of the
  destructor once it has begun). Wakeups for no reason, new tasks, throwing tasks
  and the destruction itself are not assumed.
* Boundary and runtime have safety properties only.

## 5. Proofs

The theorems hold for every value of the constants that satisfies the named
`ASSUME`s of the modules; TLC evaluates those in the runs above. What a theorem
needs of callers beyond them is a hypothesis of its own, named below.

**Ring** (`LockFreeRingBufferProofs`). `TypeCorrect` holds for any threads,
serialised or not: no index leaves the ring. The rest assumes `SerialPush` and
`SerialPop`:

* `Invariance`: `IInv` is an invariant. The safety properties are not inductive:
  that a push may write its slot rests on what `head`, `tail` and the flags were
  when it claimed it. `IInv` therefore adds what each thread *knows* at each step:
  a push, that nobody else moves `tail` and its slot is in flight and unreadable
  (`PushKnows`); a pop, that nobody else moves `head` or clears its flag
  (`PopKnows`); that at most one thread is in each (`OneEach`); and that a flag
  outlives its item only while the pop that took it clears it (`NoStrayFlag`).
* `NothingLost`, `RaceFreedom`, `ClaimSafety`: from it.
* `Implements`: the ring implements `BoundedFifo`. A push takes effect when it
  moves `tail` and a pop when it moves `head`; every other step is a stutter. To
  `IInv` this adds that what a pop has copied is still in the slot when it moves
  `head` (`PopHolds`), which is what the free slot is for.

**Request context** (`RequestContextProofs`): `ContextTypeCorrect`,
`CallbacksLIFO` and `ReasonMatches` with no assumption on callers,
`NoCleanupUnderAStep` assuming `EndsBetweenSteps`; the strengthening of the last is
that no step is in flight once the state is terminal.

**Server** (`KineticServerProofs`), for any number of requests, rings of any size,
prompts and limits of any length: `TypeCorrect`, `StreamsContinuous`,
`FinishedClean`, `InputPinned`, and `Implements`, that every step is one of
`GenerationService` or a stutter. The invariant speaks of *sets of tokens*: those
sent, put aside and in the ring are disjoint and in this order (`InOrder`); each of
them, and each that is lost, was made by the worker (`TokensMade`); requests are
queued once, as submitted (`RequestsOK`), and the worker is at one that has left
the queue (`WorkerOK`); and for a client that waits or has finished every token
made is somewhere (`Whole`). `FinishedClean` has two halves: that nothing is left
(`NothingLeft`) is part of the invariant, and with nothing left `Whole` says that
every token was sent or lost (`FinishedWhole`). The lemmas before it turn appends,
tails and searches of sequences into facts about these sets.

**Graph wrapper** (`GraphWrapperProofs`), for any threads, streams, shapes, events
and blocks: `TypeCorrect`, `NoBlockLost` and `OneOwnerEach` with no assumption,
also when launches fail; `GraphMatchesShape` assuming `CapturesUninterrupted`;
`LaunchesStayHeld` and `DestroyedWhenIdle` if `hipGraphLaunch` does not fail. The
last two rest on `Held`: each launch on a stream is followed there by an event that
an in-flight state holds, or is one the thread with `engine_mutex` is about to
record.

**Engine** (`AOTEngineProofs`): `NoStaleHandle` (`KernelsOfLastLoad`) and
`TypeCorrect` whatever other threads and processes do; `LabelsTrue` for one
compiling thread (`OneCompiler`), also while other processes replace files;
`NoMockIsLaunched` if, besides, files stay while they are loaded (`FilesStable`).
The invariant has one layer for each: types and what a job or file can be made of
(`TypeInv`); a kernel from the compiler that labels it to the file, whole or cut
short (`LabelInv`); and past the gate to the functions table (`GateInv`). Section 2
says what TLC finds without each hypothesis.

**Boundary and runtime** (`KineticRuntimeProofs`), for words of any width:
`TypeCorrect`, `NothingBeyondFile`, `WholeFilesLoad`, `GridsCover`,
`TokensAreSettled`, `ValidDescriptorsAreDense`, `TensorsAreJudgedAlike`. The
arithmetic is in the lemmas `Fitting` (a conversion leaves alone what fits) and
`GridCovers` (rounding up); the invariant adds what is known of a call since it
began: that what was taken was read in full, the header of a saved file is the one
`save_kin_file` writes (`FileInv`), and the numbers of a launch passed its checks
(`CallInv`). `GridsCover` is for blocks, and items counted from a size, that are no
more than an `int` counts: beyond that the conversions of the code change them.
For `TokensAreSettled` the invariant follows a turn (`LoopInv`, `Settles`): past
the check of residency the device is one torch can wait for, so `synchronize`
waits, and what it waits for is the launch on all tokens so far.

**Tensors** (`TensorDescriptorProofs`), for shapes and strides of any length and
any numbers: `ValidDescriptor`, that what `validate_tensor_descriptor` accepts is
dense and has the size it says; `ChecksAgree`, that the bindings and
`orchestrator.py` accept the same tensors and that these lie in their storage. The
loops of the code are recursive functions in the model. The library's induction
theorems cannot be used, as the provers do not instantiate an operator parameter;
so induction is over *sets* of numbers here (`Induction`, `InductionDown`, from
`LeastNumber`: a counterexample would have a least one), and with it `Recursion`
and `RecursionDown`: a function defined by `f[k] = G[k][f[k - 1]]` exists. From there on:

* the lemmas `...Unfolds` give the equations of each recursive definition;
* `DenseStrides`: a view is dense if and only if each stride is the product of the
  later sizes, dimensions of size one excepted. One direction sums up offsets
  (`RowMajorStrides`), the other looks at unit indexes (`OffsetOfUnit`);
* `NumelIsExtent`, `NumelOfExtent`: the guarded product, if it is not given up, is
  the number of elements, and it is not when that number is positive and a `size_t`;
* `ContiguousHasDenseStrides`, `DenseStridesAreContiguous`: the loop from the last
  dimension accepts these strides and no others, as its guard on overflow cannot
  fire when the elements can be counted;
* `LastElement`: so the end of the last element is the size of the tensor.

**Thread pool** (`ThreadPoolProofs`), for any workers, clients and tasks:
`TypeCorrect` and `InOrder`. That no task is left when all workers have returned
is not inductive by itself, since a task may come later; `StopsForDestructor` and
`ReturnsWhenStopped` say that none does. `WakeupsSuffice` (`NoWakeupLost`) is the
safety half of "each task is taken": while a worker waits, there are at least as
many pending notifications and workers awake as tasks in the queue, although
`notify_one` comes after the mutex is released and the worker it wakes can be
overtaken; and once the destructor has notified, nobody waits. It counts threads,
which is why `PoolAssumption` has finite `Workers` and `Clients`.

Every invariant and every action property that a passing run checks is stated by
one of these theorems, and so are both refinements. Only model-checked: liveness
(`CallsReturn`, `RequestsEnd`, `StopJoins`, `AllCallbacksRun`, `TasksTaken`,
`DestructorReturns`: the provers cannot reason about fairness and ENABLED), and the
runs that refute something. The safety facts behind liveness are proved:
`NothingLost` for the ring, `Whole` for the server, `CallbacksLIFO` for the request
context, `WakeupsSuffice` for the pool.

## 6. Not modelled, and what is left

* `TRTEngine`, `Communicator`: calls of TensorRT and of a collective library, with
  no state of their own beyond handles.
* `kernel_tuner.py`, `hardware_probe.py`, `setup.py`, and the code generation and
  graph validation of `fusion_forge.py`: programs from input to output without
  behaviour over time; the autotuner measures.
* The slots of `RequestContext` (tokens, device pointers, KV blocks, handles,
  sequence, error code): getters and setters which no other method reads.
* The HTTP formatting of `serve.py`, the tokenizer, the resolution of model sizes,
  the declarations of names in the bindings.
* `LockFreeRingBuffer.empty`, which nobody calls; `sync_event_`; errors of
  destroying and synchronising, after which the device is lost.
* What the driver does when a module is unloaded under running kernels.

`PROJECT.json` gives the reason for each hazard no property covers.

The modules were written in this order, which is also a good one to read them in:
the ring and its refinement; queue, worker and server; the request context; the
graph wrapper; the engine and its files; the arithmetic at the boundary and the
generation loop; the thread pool; then the proofs of each. What could be added is
a model of the memory order of the ring (the argument is in section 2) and of
several workers on one queue, which the bindings allow and the server does not use.
