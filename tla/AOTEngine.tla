----------------------------- MODULE AOTEngine -----------------------------
(***************************************************************************)
(* A process with an AOTEngine (AOTEngine.cpp) and the .kin files it loads:*)
(* fusion_forge.py and compile_ahead_of_time compile a kernel, label it as *)
(* genuine or as a mock and save it; load_model looks at the label first,  *)
(* reads the file again and replaces the HIP module; launch looks a kernel *)
(* up in it.                                                               *)
(*                                                                         *)
(* Methods of the engine are called with the GIL and take engine_mutex_;   *)
(* the Python code of a compilation lets go of the GIL between any two of  *)
(* its steps, with engine_mutex_ if compile_ahead_of_time called it.       *)
(*                                                                         *)
(* A .kin file is the sequence of its sections, header, metadata, kernels, *)
(* each known by the artifact it was written from; nothing checks that a   *)
(* write succeeded, so a file may end early.  hipModule is external: it    *)
(* may fail to load or to unload.  loaded_kinetic_target_ is left out: it  *)
(* is set from the header and compared with nothing but itself.            *)
(***************************************************************************)
EXTENDS Integers, Sequences

CONSTANTS
  Threads,
  Compilers,         \* those that compile
  Nobody,
  Paths, NoPath,
  Devices,
  device_id,         \* what Serializer::device_id_ was set to
  Binaries,          \* [genuine, machine, symbols]
  Symbols,           \* candidate_symbols, in their order
  NoSymbol,
  Fused,             \* "fused_rmsnorm_qkv_rope"
  NoArtifact,
  AllowMocks,        \* KINETIC_ALLOW_MOCKS is "1"
  FilesStable        \* no other process writes a file while it is loaded

Targets == {"CUDA", "ROCm"}

(* A file of an earlier version has no artifact_kind. *)
Artifacts ==
  [device_id : Devices, kinetic_target : Targets,
   artifact_kind : {"production", "mock", "missing"}, binary : Binaries]

ASSUME EngineAssumption ==
  /\ Compilers \subseteq Threads /\ Nobody \notin Threads
  /\ NoPath \notin Paths
  /\ device_id \in Devices
  /\ \A b \in Binaries : /\ b.genuine \in BOOLEAN
                         /\ b.symbols \subseteq {Symbols[k] : k \in DOMAIN Symbols}
  /\ DOMAIN Symbols \subseteq Nat
  /\ NoSymbol \notin {Symbols[k] : k \in DOMAIN Symbols}
  /\ NoArtifact \notin Artifacts
  /\ AllowMocks \in BOOLEAN /\ FilesStable \in BOOLEAN

VARIABLES
  gil,                  \* who holds the interpreter lock
  engine_mutex,
  pc,                   \* where each thread is in a call
  job,                  \* what each thread is compiling
  artifact_kind,        \* fusion_forge._artifact_kind
  files,
  loading,              \* the file that has passed the gate
  module,               \* module_, known by the artifact it came from
  kernel_functions,     \* symbol -> the module it was found in
  default_kernel_name,
  loaded,               \* history: what the last load_model to return loaded
  launched              \* history: what the last launch ran a kernel of

locks      == <<gil, engine_mutex, pc>>
compiler   == <<job, artifact_kind>>
engine     == <<module, kernel_functions, default_kernel_name, loaded, launched>>
engineVars == <<locks, compiler, files, loading, engine>>

Init ==
  /\ gil = Nobody
  /\ engine_mutex = Nobody
  /\ pc = [t \in Threads |-> "idle"]
  /\ job = [t \in Threads |-> NoArtifact]
  /\ artifact_kind = "production"
  /\ loading = NoPath
  /\ module = NoArtifact
  /\ kernel_functions = << >>
  /\ default_kernel_name = NoSymbol
  /\ loaded = NoArtifact
  /\ launched = NoArtifact
  /\ files = [p \in Paths |-> << >>]

-----------------------------------------------------------------------------
(* Python calls a method of the engine: with the GIL, it waits for the     *)
(* mutex.                                                                  *)
Call(t) ==
  /\ pc[t] = "idle"
  /\ gil = Nobody
  /\ gil' = t
  /\ pc' = [pc EXCEPT ![t] = "enter"]
  /\ UNCHANGED <<engine_mutex, compiler, files, loading, engine>>

Enters(t) == pc[t] = "enter" /\ engine_mutex = Nobody

(* The call returns or raises. *)
Leave(t) ==
  /\ gil' = IF gil = t THEN Nobody ELSE gil
  /\ engine_mutex' = IF engine_mutex = t THEN Nobody ELSE engine_mutex
  /\ pc' = [pc EXCEPT ![t] = "idle"]

(* Nothing of the engine changes; likewise a compilation whose profiling   *)
(* fails.                                                                  *)
synchronize_and_clear(t) ==
  /\ Enters(t)
  /\ Leave(t)
  /\ UNCHANGED <<compiler, files, loading, engine>>

-----------------------------------------------------------------------------
(* Compiling and saving *)

compile_ahead_of_time(t) ==
  /\ t \in Compilers
  /\ Enters(t)
  /\ engine_mutex' = t
  /\ gil' = Nobody
  /\ pc' = [pc EXCEPT ![t] = "compile"]
  /\ UNCHANGED <<compiler, files, loading, engine>>

compile_and_serialize(t) ==
  /\ t \in Compilers
  /\ pc[t] = "idle" /\ gil = Nobody
  /\ pc' = [pc EXCEPT ![t] = "compile"]
  /\ UNCHANGED <<gil, engine_mutex, compiler, files, loading, engine>>

expected_em(target) == IF target = "CUDA" THEN "EM_CUDA" ELSE "EM_AMDGPU"

(* Triton compiles for the device it finds, a mock is built for the target.*)
(* What is saved is for the engine's device if the engine compiles, for    *)
(* any device otherwise.                                                   *)
native_triton_compile(t, d, target, b) ==
  /\ pc[t] = "compile" /\ gil = Nobody
  /\ engine_mutex = t => d = device_id
  /\ ~ b.genuine => b.machine = expected_em(target)
  /\ artifact_kind' = IF b.genuine THEN "production" ELSE "mock"
  /\ job' = [job EXCEPT ![t] =
       [device_id |-> d, kinetic_target |-> target,
        artifact_kind |-> "missing", binary |-> b]]
  /\ pc' = [pc EXCEPT ![t] = "label"]
  /\ UNCHANGED <<gil, engine_mutex, files, loading, engine>>

(* Triton raises, validation does, or the file cannot be opened. *)
CompileFails(t) ==
  /\ pc[t] \in {"compile", "label", "save"} /\ gil = Nobody
  /\ job' = [job EXCEPT ![t] = NoArtifact]
  /\ Leave(t)
  /\ UNCHANGED <<artifact_kind, files, loading, engine>>

get_op_graph_data(t) ==
  /\ pc[t] = "label" /\ gil = Nobody
  /\ job' = [job EXCEPT ![t].artifact_kind = artifact_kind]
  /\ pc' = [pc EXCEPT ![t] = "save"]
  /\ UNCHANGED <<gil, engine_mutex, artifact_kind, files, loading, engine>>

Truncated(a, n) == [k \in 1 .. n |-> a]

(* Fault: what was in the file and is not written over stays. *)
save_kin_file_over(p, a) ==
  \E n \in 0 .. 3 :
    files' = [files EXCEPT ![p] = Truncated(a, n) \o SubSeq(@, n + 1, Len(@))]

(* Fault: the file is written to at its end. *)
save_kin_file_append(p, a) ==
  \E n \in 0 .. 3 : files' = [files EXCEPT ![p] = @ \o Truncated(a, n)]

(* The file is cut short by a full disk, or by a crash (Restart). *)
save_kin_file(p, a) ==
  \E n \in 0 .. 3 : files' = [files EXCEPT ![p] = Truncated(a, n)]

Save(t, p) ==
  /\ pc[t] = "save" /\ gil = Nobody
  /\ save_kin_file(p, job[t])
  /\ job' = [job EXCEPT ![t] = NoArtifact]
  /\ Leave(t)
  /\ UNCHANGED <<artifact_kind, loading, engine>>

-----------------------------------------------------------------------------
(* Loading *)

(* Fault: only what says that it is a mock is one. *)
PassesGate_legacy(f) ==
  Len(f) >= 2 /\ (f[2].artifact_kind # "mock" \/ AllowMocks)

(* Header and metadata are there; a missing kind is taken for a mock. *)
PassesGate(f) ==
  Len(f) >= 2 /\ (f[2].artifact_kind = "production" \/ AllowMocks)

load_model(t, p) ==
  /\ Enters(t)
  /\ PassesGate(files[p])
  /\ loading' = p
  /\ engine_mutex' = t
  /\ pc' = [pc EXCEPT ![t] = "load"]
  /\ UNCHANGED <<gil, compiler, files, engine>>

load_model_refuses(t, p) ==
  /\ Enters(t)
  /\ ~ PassesGate(files[p])
  /\ Leave(t)
  /\ UNCHANGED <<compiler, files, loading, engine>>

(* What the loader puts together from a file. *)
Assembled(f) ==
  [device_id |-> f[1].device_id, kinetic_target |-> f[1].kinetic_target,
   artifact_kind |-> f[2].artifact_kind, binary |-> f[3].binary]

load_kin_file(f) ==
  /\ Len(f) = 3
  /\ f[1].device_id = device_id

validate_elf_structure(a) == a.binary.machine = expected_em(a.kinetic_target)

Loadable(f) == load_kin_file(f) /\ validate_elf_structure(Assembled(f))

(* Refused, or the module that is loaded cannot be unloaded. *)
load_fails(t) ==
  /\ pc[t] = "load"
  /\ ~ Loadable(files[loading]) \/ module # NoArtifact
  /\ loading' = NoPath
  /\ Leave(t)
  /\ UNCHANGED <<compiler, files, engine>>

(* The candidates found, and the first of them. *)
Found(b)    == {k \in DOMAIN Symbols : Symbols[k] \in b.symbols}
FoundIn(a)  == [s \in {Symbols[k] : k \in Found(a.binary)} |-> a]
FirstFound(b) ==
  IF Found(b) = {} THEN NoSymbol
  ELSE Symbols[CHOOSE k \in Found(b) : \A j \in Found(b) : k <= j]

(* Fault: the functions of the last module are kept. *)
clear_kernels_not ==
  UNCHANGED <<kernel_functions, default_kernel_name>>

(* Nothing is left of the last module. *)
clear_kernels ==
  /\ kernel_functions' = << >>
  /\ default_kernel_name' = NoSymbol

(* hipModuleLoadData fails. *)
load_kernel_fails(t) ==
  /\ pc[t] = "load"
  /\ Loadable(files[loading])
  /\ module' = NoArtifact
  /\ clear_kernels
  /\ loading' = NoPath
  /\ Leave(t)
  /\ UNCHANGED <<compiler, files, loaded, launched>>

(* It raises in the end if no candidate was found. *)
load_kernel(t) ==
  LET a == Assembled(files[loading]) IN
  /\ pc[t] = "load"
  /\ Loadable(files[loading])
  /\ module' = a
  /\ kernel_functions' = FoundIn(a)
  /\ default_kernel_name' = FirstFound(a.binary)
  /\ loaded' = IF Found(a.binary) = {} THEN loaded ELSE a
  /\ loading' = NoPath
  /\ Leave(t)
  /\ UNCHANGED <<compiler, files, launched>>

-----------------------------------------------------------------------------
(* Launching *)

(* The fused kernel needs buffers that only a descriptor can name. *)
CanLaunch(kernel_name, has_buffers) ==
  /\ module # NoArtifact
  /\ kernel_name \in DOMAIN kernel_functions
  /\ kernel_name = Fused => has_buffers

LaunchKernel(kernel_name, has_buffers) ==
  /\ CanLaunch(kernel_name, has_buffers)
  /\ launched' = kernel_functions[kernel_name]

(* By name and with all buffers through a descriptor; otherwise the        *)
(* default.                                                                *)
launch(t) ==
  /\ Enters(t)
  /\ \E s \in DOMAIN kernel_functions \cup {default_kernel_name},
        has_buffers \in BOOLEAN : LaunchKernel(s, has_buffers)
  /\ Leave(t)
  /\ UNCHANGED <<compiler, files, loading, module, kernel_functions,
                 default_kernel_name, loaded>>

(* The thread of the InferenceWorker has no GIL, and pointers only.  A     *)
(* launch that raises there ends the process, as Restart does.             *)
launch_ptr ==
  /\ engine_mutex = Nobody
  /\ LaunchKernel(default_kernel_name, FALSE)
  /\ UNCHANGED <<locks, compiler, files, loading, module, kernel_functions,
                 default_kernel_name, loaded>>

-----------------------------------------------------------------------------
Kind(b) == IF b.genuine THEN "production" ELSE "mock"

(* A process of its own, or one of an earlier version, saves a file. *)
OtherProcessSaves(p, a) ==
  /\ FilesStable => loading = NoPath
  /\ a.artifact_kind \in {"missing", Kind(a.binary)}
  /\ save_kin_file(p, a)
  /\ UNCHANGED <<locks, compiler, loading, engine>>

(* The process ends, wherever it is, and another one begins. *)
Restart ==
  /\ gil' = Nobody
  /\ engine_mutex' = Nobody
  /\ pc' = [t \in Threads |-> "idle"]
  /\ job' = [t \in Threads |-> NoArtifact]
  /\ artifact_kind' = "production"
  /\ loading' = NoPath
  /\ module' = NoArtifact
  /\ kernel_functions' = << >>
  /\ default_kernel_name' = NoSymbol
  /\ loaded' = NoArtifact
  /\ launched' = NoArtifact
  /\ UNCHANGED files

-----------------------------------------------------------------------------
CompileStep(t) ==
  \/ compile_ahead_of_time(t) \/ compile_and_serialize(t)
  \/ \E d \in Devices, target \in Targets, b \in Binaries :
       native_triton_compile(t, d, target, b)
  \/ CompileFails(t) \/ get_op_graph_data(t)
  \/ \E p \in Paths : Save(t, p)

LoadStep(t) ==
  \/ \E p \in Paths : load_model(t, p) \/ load_model_refuses(t, p)
  \/ load_fails(t) \/ load_kernel_fails(t) \/ load_kernel(t)

Next ==
  \/ \E t \in Threads :
       \/ Call(t) \/ CompileStep(t) \/ LoadStep(t)
       \/ launch(t) \/ synchronize_and_clear(t)
  \/ launch_ptr
  \/ \E p \in Paths, a \in Artifacts : OtherProcessSaves(p, a)
  \/ Restart

Spec == Init /\ [][Next]_engineVars

-----------------------------------------------------------------------------
(* Every variable has its type. *)
TypeOK ==
  /\ gil \in Threads \cup {Nobody}
  /\ engine_mutex \in Threads \cup {Nobody}
  /\ pc \in [Threads -> {"idle", "enter", "compile", "label", "save", "load"}]
  /\ job \in [Threads -> Artifacts \cup {NoArtifact}]
  /\ artifact_kind \in {"production", "mock"}
  /\ files \in [Paths -> Seq(Artifacts)] /\ \A p \in Paths : Len(files[p]) <= 3
  /\ loading \in Paths \cup {NoPath}
  /\ module \in Artifacts \cup {NoArtifact}
  /\ \A s \in DOMAIN kernel_functions : kernel_functions[s] \in Artifacts
  /\ default_kernel_name \in {Symbols[k] : k \in DOMAIN Symbols} \cup {NoSymbol}
  /\ loaded \in Artifacts \cup {NoArtifact}
  /\ launched \in Artifacts \cup {NoArtifact}

(* A whole file is labelled with what its own kernels are, if at all, also *)
(* when it replaces another one and whatever was compiled before           *)
(* (fusion_forge.py 594: the kind is "injected based on compilation        *)
(* outcome").                                                              *)
ArtifactKindTrue ==
  \A p \in Paths : Len(files[p]) = 3 =>
    LET a == Assembled(files[p]) IN a.artifact_kind \in {"missing", Kind(a.binary)}

(* From compiling to launching: in production no mock is ever run          *)
(* (AOTEngine.cpp 383-386: "Refusing to load mock artifact in production   *)
(* mode").                                                                 *)
NoMockLaunched ==
  launched # NoArtifact => launched.binary.genuine \/ AllowMocks

(* A load that fails leaves what the last successful one loaded, or        *)
(* nothing that can be launched: no handle of an unloaded module           *)
(* (AOTEngine.cpp 446-451).                                                *)
KernelsOfLastLoad ==
  \A s \in DOMAIN kernel_functions : kernel_functions[s] = loaded /\ module = loaded

=============================================================================
