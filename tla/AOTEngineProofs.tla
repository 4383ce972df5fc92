-------------------------- MODULE AOTEngineProofs --------------------------
(***************************************************************************)
(* Whatever the files, the devices and the kernels, and however many       *)
(* threads load and launch: no handle of an unloaded module is kept; with  *)
(* one thread that compiles, no file lies about its kernel; and if files   *)
(* stay while they are loaded, no mock is launched in production.          *)
(*                                                                         *)
(* That a whole file tells the truth is not inductive: it was said of a    *)
(* compilation that others may follow before it is saved.  The invariant is*)
(* built in three parts, each on those before it: TypeInv, which needs     *)
(* nothing; LabelInv, what holds of a kernel from the compiler that labels *)
(* it to the file, for one compiler; and GateInv, what holds of it from the*)
(* gate to the launch, for files that stay.                                *)
(***************************************************************************)
EXTENDS AOTEngine, WellFoundedInduction, TLAPS

OneCompiler == \A t, u \in Compilers : t = u

SymbolNames == {Symbols[k] : k \in DOMAIN Symbols}

(* What TypeOK says of the variables that no other part is about. *)
Types ==
  /\ gil \in Threads \cup {Nobody}
  /\ engine_mutex \in Threads \cup {Nobody}
  /\ pc \in [Threads -> {"idle", "enter", "compile", "label", "save", "load"}]
  /\ artifact_kind \in {"production", "mock"}
  /\ loading \in Paths \cup {NoPath}
  /\ module \in Artifacts \cup {NoArtifact}
  /\ loaded \in Artifacts \cup {NoArtifact}
  /\ default_kernel_name \in SymbolNames \cup {NoSymbol}

FileType(f) == f \in Seq(Artifacts) /\ Len(f) <= 3

FileTypes == files \in [Paths -> Seq(Artifacts)] /\ \A p \in Paths : FileType(files[p])

(* What is labelled or saved was compiled. *)
JobTypes ==
  /\ job \in [Threads -> Artifacts \cup {NoArtifact}]
  /\ \A t \in Threads :
       /\ pc[t] \in {"compile", "label", "save"} => t \in Compilers
       /\ pc[t] \in {"label", "save"} => job[t] \in Artifacts

(* One thread loads, with both locks. *)
LoadsLocked ==
  \A t \in Threads :
    /\ pc[t] \in {"enter", "load"} => gil = t
    /\ pc[t] = "load" => engine_mutex = t /\ loading \in Paths

KernelTypes ==
  /\ \A s \in DOMAIN kernel_functions : kernel_functions[s] \in Artifacts
  /\ launched \in Artifacts \cup {NoArtifact}

TypeInv == Types /\ FileTypes /\ JobTypes /\ LoadsLocked /\ KernelTypes

TrueKind(a) == a.artifact_kind \in {"missing", Kind(a.binary)}

(* A file is a beginning of one artifact, which is labelled as what it is. *)
TrueFile(f) == \A k \in 1 .. Len(f) : TrueKind(f[k]) /\ f[k] = f[1]

(* What was compiled is labelled as what it is before it is saved. *)
LabelInv ==
  /\ \A p \in Paths : TrueFile(files[p])
  /\ \A t \in Threads :
       /\ pc[t] = "label" => artifact_kind = Kind(job[t].binary)
       /\ pc[t] = "save" => TrueKind(job[t])

NoMock(a) == a.binary.genuine \/ AllowMocks

(* What is loaded passed the gate, and all kernels have. *)
GateInv ==
  /\ \A t \in Threads : pc[t] = "load" => PassesGate(files[loading])
  /\ \A s \in DOMAIN kernel_functions : NoMock(kernel_functions[s])
  /\ launched # NoArtifact => NoMock(launched)

-----------------------------------------------------------------------------
(* No handle of an unloaded module: a load that fails once the old module  *)
(* is gone has let go of its functions too (AOTEngine.cpp 446-451).        *)

LEMMA InitKernels == Init => KernelsOfLastLoad
BY DEF Init, KernelsOfLastLoad

LEMMA StepKernels == KernelsOfLastLoad /\ [Next]_engineVars => KernelsOfLastLoad'
<1> SUFFICES ASSUME KernelsOfLastLoad, [Next]_engineVars
             PROVE  KernelsOfLastLoad'
  OBVIOUS
<1>1. CASE UNCHANGED <<kernel_functions, module, loaded>>
  BY <1>1 DEF KernelsOfLastLoad
<1>2. ASSUME NEW t \in Threads, load_kernel_fails(t)
      PROVE  KernelsOfLastLoad'
  BY <1>2 DEF KernelsOfLastLoad, load_kernel_fails, clear_kernels
<1>3. ASSUME NEW t \in Threads, load_kernel(t)
      PROVE  KernelsOfLastLoad'
  <2> DEFINE a == Assembled(files[loading])
  <2>1. /\ kernel_functions' = FoundIn(a)
        /\ module' = a
        /\ loaded' = IF Found(a.binary) = {} THEN loaded ELSE a
    BY <1>3 DEF load_kernel
  <2>2. \A s \in DOMAIN FoundIn(a) : FoundIn(a)[s] = a /\ Found(a.binary) # {}
    BY DEF FoundIn
  <2> QED
    BY <2>1, <2>2 DEF KernelsOfLastLoad
<1>4. CASE Restart
  BY <1>4 DEF KernelsOfLastLoad, Restart
<1> QED
  BY <1>1, <1>2, <1>3, <1>4
     DEF Next, CompileStep, LoadStep, Call, synchronize_and_clear,
         compile_ahead_of_time, compile_and_serialize, native_triton_compile,
         CompileFails, get_op_graph_data, Save, load_model,
         load_model_refuses, load_fails, launch, launch_ptr,
         OtherProcessSaves, engineVars, locks, compiler, engine

(* Every kernel that can be launched is of the module that is loaded, the  *)
(* one of the last load that returned.                                     *)
THEOREM NoStaleHandle == Spec => []KernelsOfLastLoad
BY InitKernels, StepKernels, PTL DEF Spec

-----------------------------------------------------------------------------
(* Artifacts, the sections of files and what is put together from them. *)

LEMMA Labelled ==
  ASSUME NEW a \in Artifacts, NEW k \in {"production", "mock"}
  PROVE  /\ [a EXCEPT !.artifact_kind = k] \in Artifacts
         /\ [a EXCEPT !.artifact_kind = k].artifact_kind = k
         /\ [a EXCEPT !.artifact_kind = k].binary = a.binary
BY DEF Artifacts

LEMMA TruncatedFile ==
  ASSUME NEW a \in Artifacts, NEW n \in 0 .. 3
  PROVE  FileType(Truncated(a, n)) /\ (TrueKind(a) => TrueFile(Truncated(a, n)))
<1>1. Truncated(a, n) \in Seq(Artifacts) /\ Len(Truncated(a, n)) = n
  BY DEF Truncated
<1>2. \A k \in 1 .. n : Truncated(a, n)[k] = a
  BY DEF Truncated
<1> QED
  BY <1>1, <1>2 DEF FileType, TrueFile

(* The loader reads three sections; only a whole file is loaded. *)
LEMMA AssembledType ==
  ASSUME NEW f, FileType(f), Len(f) = 3
  PROVE  Assembled(f) \in Artifacts
<1>1. f[1] \in Artifacts /\ f[2] \in Artifacts /\ f[3] \in Artifacts
  BY DEF FileType
<1> QED
  BY <1>1 DEF Assembled, Artifacts

(* And if it tells the truth it holds one artifact. *)
LEMMA WholeFile ==
  ASSUME NEW f, FileType(f), TrueFile(f), Len(f) = 3
  PROVE  Assembled(f) = f[1] /\ TrueKind(f[1])
<1>1. /\ f[1] \in Artifacts /\ TrueKind(f[1])
      /\ f[2] = f[1] /\ f[3] = f[1]
  BY DEF FileType, TrueFile
<1> QED
  BY <1>1 DEF Assembled, Artifacts

(* What passed the gate and could be loaded is no mock in production. *)
LEMMA GatedGenuine ==
  ASSUME NEW f, FileType(f), TrueFile(f), PassesGate(f), Len(f) = 3
  PROVE  NoMock(Assembled(f))
<1>1. Assembled(f) = f[1] /\ TrueKind(f[1])
  BY WholeFile
<1>2. f[2] = f[1]
  BY DEF TrueFile
<1> QED
  BY <1>1, <1>2 DEF PassesGate, NoMock, TrueKind, Kind

(* The default is one of the candidates, or there is none. *)
LEMMA Smallest ==
  ASSUME NEW K \in SUBSET Nat, K # {}
  PROVE  \E k \in K : \A j \in K : k <= j
<1> DEFINE R == OpToRel(<, Nat)
<1>1. \A x, y \in Nat : <<y, x>> \in R <=> y < x
  BY DEF OpToRel
<1>2. IsWellFoundedOn(R, Nat)
  BY NatLessThanWellFounded
<1> HIDE DEF R
<1>3. PICK k \in K : \A j \in K : <<j, k>> \notin R
  BY <1>2, WFMin
<1>4. \A j \in K : ~ j < k
  BY <1>1, <1>3, Zenon
<1> QED
  BY <1>4

LEMMA DefaultIsCandidate ==
  ASSUME NEW b
  PROVE  FirstFound(b) \in SymbolNames \cup {NoSymbol}
<1>1. CASE Found(b) = {}
  BY <1>1 DEF FirstFound
<1>2. CASE Found(b) # {}
  <2>1. Found(b) \in SUBSET Nat /\ Found(b) \subseteq DOMAIN Symbols
    BY EngineAssumption DEF Found
  <2>2. \E k \in Found(b) : \A j \in Found(b) : k <= j
    BY <1>2, <2>1, Smallest
  <2> DEFINE k == CHOOSE i \in Found(b) : \A j \in Found(b) : i <= j
  <2>3. k \in Found(b)
    BY <2>2
  <2>4. FirstFound(b) = Symbols[k]
    BY <1>2 DEF FirstFound
  <2> QED
    BY <2>1, <2>3, <2>4 DEF SymbolNames
<1> QED
  BY <1>1, <1>2

-----------------------------------------------------------------------------
(* Types: they hold whoever compiles and writes files. *)

LEMMA InitTypes == Init => TypeInv
BY DEF Init, TypeInv, Types, FileTypes, FileType, JobTypes, LoadsLocked,
       KernelTypes

LEMMA SaveTypes ==
  ASSUME FileTypes, NEW p \in Paths, NEW a \in Artifacts, save_kin_file(p, a)
  PROVE  FileTypes'
<1>1. PICK n \in 0 .. 3 : files' = [files EXCEPT ![p] = Truncated(a, n)]
  BY DEF save_kin_file
<1>2. FileType(Truncated(a, n))
  BY TruncatedFile
<1> QED
  BY <1>1, <1>2 DEF FileTypes, FileType

LEMMA StepTypes == TypeInv /\ [Next]_engineVars => TypeInv'
<1> SUFFICES ASSUME TypeInv, [Next]_engineVars PROVE TypeInv'
  OBVIOUS
<1> USE EngineAssumption DEF TypeInv, Types
<1>1. ASSUME NEW t \in Threads, Call(t) PROVE TypeInv'
  BY <1>1 DEF Call, compiler, engine, FileTypes, JobTypes, LoadsLocked,
              KernelTypes
<1>2. ASSUME NEW t \in Threads, synchronize_and_clear(t) PROVE TypeInv'
  BY <1>2 DEF synchronize_and_clear, Enters, Leave, compiler, engine,
              FileTypes, JobTypes, LoadsLocked, KernelTypes
<1>3. ASSUME NEW t \in Threads, compile_ahead_of_time(t) PROVE TypeInv'
  BY <1>3 DEF compile_ahead_of_time, Enters, compiler, engine,
              FileTypes, JobTypes, LoadsLocked, KernelTypes
<1>4. ASSUME NEW t \in Threads, compile_and_serialize(t) PROVE TypeInv'
  BY <1>4 DEF compile_and_serialize, compiler, engine,
              FileTypes, JobTypes, LoadsLocked, KernelTypes
<1>5. ASSUME NEW t \in Threads, NEW d \in Devices, NEW target \in Targets,
             NEW b \in Binaries, native_triton_compile(t, d, target, b)
      PROVE  TypeInv'
  <2> DEFINE a == [device_id |-> d, kinetic_target |-> target,
                   artifact_kind |-> "missing", binary |-> b]
  <2>1. a \in Artifacts
    BY DEF Artifacts
  <2>2. /\ artifact_kind' \in {"production", "mock"}
        /\ job' = [job EXCEPT ![t] = a]
        /\ pc' = [pc EXCEPT ![t] = "label"]
        /\ pc[t] = "compile" /\ gil = Nobody
        /\ UNCHANGED <<gil, engine_mutex, files, loading, engine>>
    BY <1>5 DEF native_triton_compile
  <2> HIDE DEF a
  <2>3. JobTypes' /\ LoadsLocked'
    BY <2>1, <2>2 DEF JobTypes, LoadsLocked
  <2> QED
    BY <2>2, <2>3 DEF engine, FileTypes, KernelTypes
<1>6. ASSUME NEW t \in Threads, CompileFails(t) PROVE TypeInv'
  BY <1>6 DEF CompileFails, Leave, engine, FileTypes, JobTypes, LoadsLocked,
              KernelTypes
<1>7. ASSUME NEW t \in Threads, get_op_graph_data(t) PROVE TypeInv'
  <2>1. [job[t] EXCEPT !.artifact_kind = artifact_kind] \in Artifacts
    BY <1>7, Labelled DEF get_op_graph_data, JobTypes
  <2>2. JobTypes'
    BY <1>7, <2>1 DEF get_op_graph_data, JobTypes
  <2> QED
    BY <1>7, <2>2 DEF get_op_graph_data, engine, FileTypes, LoadsLocked,
                      KernelTypes
<1>8. ASSUME NEW t \in Threads, NEW p \in Paths, Save(t, p) PROVE TypeInv'
  <2>1. FileTypes'
    BY <1>8, SaveTypes DEF Save, JobTypes
  <2>2. JobTypes' /\ LoadsLocked'
    BY <1>8 DEF Save, Leave, JobTypes, LoadsLocked
  <2> QED
    BY <1>8, <2>1, <2>2 DEF Save, Leave, engine, KernelTypes
<1>9. ASSUME NEW t \in Threads, NEW p \in Paths, load_model(t, p) PROVE TypeInv'
  <2>1. LoadsLocked'
    BY <1>9 DEF load_model, Enters, LoadsLocked
  <2> QED
    BY <1>9, <2>1 DEF load_model, compiler, engine, FileTypes, JobTypes,
                      KernelTypes
<1>10. ASSUME NEW t \in Threads, NEW p \in Paths, load_model_refuses(t, p)
       PROVE  TypeInv'
  BY <1>10 DEF load_model_refuses, Enters, Leave, compiler, engine,
               FileTypes, JobTypes, LoadsLocked, KernelTypes
<1>11. ASSUME NEW t \in Threads, load_fails(t) PROVE TypeInv'
  BY <1>11 DEF load_fails, Leave, compiler, engine,
               FileTypes, JobTypes, LoadsLocked, KernelTypes
<1>12. ASSUME NEW t \in Threads, load_kernel_fails(t) PROVE TypeInv'
  BY <1>12 DEF load_kernel_fails, clear_kernels, Leave, compiler,
               FileTypes, JobTypes, LoadsLocked, KernelTypes
<1>13. ASSUME NEW t \in Threads, load_kernel(t) PROVE TypeInv'
  <2> DEFINE a == Assembled(files[loading])
  <2>1. a \in Artifacts
    <3>1. FileType(files[loading]) /\ Len(files[loading]) = 3
      BY <1>13 DEF load_kernel, Loadable, load_kin_file, LoadsLocked, FileTypes
    <3> QED
      BY <3>1, AssembledType
  <2>2. /\ kernel_functions' = FoundIn(a)
        /\ \A s \in DOMAIN FoundIn(a) : FoundIn(a)[s] = a
        /\ launched' = launched
    BY <1>13 DEF load_kernel, FoundIn
  <2>3. KernelTypes'
    BY <2>1, <2>2 DEF KernelTypes
  <2>4. module' \in Artifacts /\ loaded' \in Artifacts \cup {NoArtifact}
    BY <1>13, <2>1 DEF load_kernel
  <2>5. default_kernel_name' \in SymbolNames \cup {NoSymbol}
    BY <1>13, DefaultIsCandidate DEF load_kernel
  <2> QED
    BY <1>13, <2>3, <2>4, <2>5 DEF load_kernel, Leave, compiler, FileTypes,
                                   JobTypes, LoadsLocked
<1>14. ASSUME NEW s, NEW has_buffers \in BOOLEAN, LaunchKernel(s, has_buffers),
              kernel_functions' = kernel_functions
       PROVE  KernelTypes'
  BY <1>14 DEF LaunchKernel, CanLaunch, KernelTypes
<1>15. ASSUME NEW t \in Threads, launch(t) PROVE TypeInv'
  <2>1. KernelTypes'
    BY <1>14, <1>15 DEF launch
  <2> QED
    BY <1>15, <2>1 DEF launch, Enters, Leave, compiler, FileTypes, JobTypes,
                       LoadsLocked
<1>16. CASE launch_ptr
  <2>1. KernelTypes'
    BY <1>14, <1>16 DEF launch_ptr
  <2> QED
    BY <1>16, <2>1 DEF launch_ptr, locks, compiler, FileTypes, JobTypes,
                       LoadsLocked
<1>17. ASSUME NEW p \in Paths, NEW a \in Artifacts, OtherProcessSaves(p, a)
       PROVE  TypeInv'
  <2>1. FileTypes'
    BY <1>17, SaveTypes DEF OtherProcessSaves
  <2> QED
    BY <1>17, <2>1 DEF OtherProcessSaves, locks, compiler, engine, JobTypes,
                       LoadsLocked, KernelTypes
<1>18. CASE Restart
  BY <1>18 DEF Restart, FileTypes, JobTypes, LoadsLocked, KernelTypes
<1>19. CASE UNCHANGED engineVars
  BY <1>19 DEF engineVars, locks, compiler, engine, FileTypes, JobTypes,
               LoadsLocked, KernelTypes
<1> QED
  BY <1>1, <1>2, <1>3, <1>4, <1>5, <1>6, <1>7, <1>8, <1>9, <1>10, <1>11,
     <1>12, <1>13, <1>15, <1>16, <1>17, <1>18, <1>19
     DEF Next, CompileStep, LoadStep

(* What TypeOK needs to be inductive holds in every state. *)
THEOREM TypeInvariance == Spec => []TypeInv
BY InitTypes, StepTypes, PTL DEF Spec

(* Every variable keeps its type, however many threads compile and whatever*)
(* other processes write.                                                  *)
THEOREM TypeCorrect == Spec => []TypeOK
<1>1. TypeInv => TypeOK
  BY DEF TypeInv, TypeOK, Types, SymbolNames, FileTypes, FileType, JobTypes,
         KernelTypes
<1> QED
  BY TypeInvariance, <1>1, PTL

-----------------------------------------------------------------------------
(* Labels. *)

LEMMA InitLabels == Init => LabelInv
BY DEF Init, LabelInv, TrueFile

LEMMA SaveLabels ==
  ASSUME FileTypes, \A p \in Paths : TrueFile(files[p]),
         NEW p \in Paths, NEW a \in Artifacts, TrueKind(a), save_kin_file(p, a)
  PROVE  \A q \in Paths : TrueFile(files'[q])
<1>1. PICK n \in 0 .. 3 : files' = [files EXCEPT ![p] = Truncated(a, n)]
  BY DEF save_kin_file
<1>2. TrueFile(Truncated(a, n))
  BY TruncatedFile
<1> QED
  BY <1>1, <1>2 DEF FileTypes

LEMMA StepLabels ==
  ASSUME OneCompiler, TypeInv, LabelInv, [Next]_engineVars
  PROVE  LabelInv'
<1> USE DEF TypeInv, Types
<1>1. ASSUME UNCHANGED <<files, job, artifact_kind>>,
             \A t \in Threads : pc'[t] \in {"label", "save"} => pc'[t] = pc[t]
      PROVE  LabelInv'
  BY <1>1 DEF LabelInv
<1>2. ASSUME NEW t \in Threads,
             \/ Call(t) \/ synchronize_and_clear(t) \/ LoadStep(t) \/ launch(t)
             \/ compile_ahead_of_time(t) \/ compile_and_serialize(t)
      PROVE  LabelInv'
  BY <1>1, <1>2
     DEF Call, synchronize_and_clear, LoadStep, load_model, load_model_refuses,
         load_fails, load_kernel_fails, load_kernel, launch,
         compile_ahead_of_time, compile_and_serialize, Enters, Leave, compiler
<1>3. ASSUME NEW t \in Threads, NEW d \in Devices, NEW target \in Targets,
             NEW b \in Binaries, native_triton_compile(t, d, target, b)
      PROVE  LabelInv'
  <2>1. /\ files' = files /\ pc' = [pc EXCEPT ![t] = "label"]
        /\ artifact_kind' = Kind(b)
        /\ job'[t].binary = b
        /\ t \in Compilers
    BY <1>3 DEF native_triton_compile, Kind, JobTypes
  <2>2. \A u \in Threads : u # t => pc[u] \notin {"label", "save"}
    BY <2>1 DEF OneCompiler, JobTypes
  <2> QED
    BY <2>1, <2>2 DEF LabelInv
<1>4. ASSUME NEW t \in Threads, CompileFails(t) PROVE LabelInv'
  BY <1>4 DEF CompileFails, Leave, LabelInv, JobTypes
<1>5. ASSUME NEW t \in Threads, get_op_graph_data(t) PROVE LabelInv'
  <2>1. job[t] \in Artifacts /\ artifact_kind = Kind(job[t].binary)
    BY <1>5 DEF get_op_graph_data, LabelInv, JobTypes
  <2> DEFINE a == [job[t] EXCEPT !.artifact_kind = artifact_kind]
  <2>2. TrueKind(a)
    BY <2>1, Labelled DEF TrueKind
  <2>3. job' = [job EXCEPT ![t] = a] /\ pc' = [pc EXCEPT ![t] = "save"]
        /\ UNCHANGED <<artifact_kind, files>>
    BY <1>5 DEF get_op_graph_data
  <2> HIDE DEF a
  <2> QED
    BY <2>2, <2>3 DEF LabelInv, JobTypes
<1>6. ASSUME NEW t \in Threads, NEW p \in Paths, Save(t, p) PROVE LabelInv'
  <2>1. \A q \in Paths : TrueFile(files'[q])
    BY <1>6, SaveLabels DEF Save, LabelInv, JobTypes
  <2> QED
    BY <1>6, <2>1 DEF Save, Leave, LabelInv, JobTypes
<1>7. ASSUME NEW p \in Paths, NEW a \in Artifacts, OtherProcessSaves(p, a)
      PROVE  LabelInv'
  <2>1. \A q \in Paths : TrueFile(files'[q])
    BY <1>7, SaveLabels DEF OtherProcessSaves, LabelInv, TrueKind
  <2> QED
    BY <1>7, <2>1 DEF OtherProcessSaves, locks, compiler, LabelInv
<1>8. CASE Restart
  BY <1>8 DEF Restart, LabelInv
<1>9. CASE launch_ptr \/ UNCHANGED engineVars
  BY <1>1, <1>9 DEF launch_ptr, engineVars, locks, compiler
<1> QED
  BY <1>2, <1>3, <1>4, <1>5, <1>6, <1>7, <1>8, <1>9
     DEF Next, CompileStep

(* A whole file is labelled as what its kernels are, wherever it is from   *)
(* and whatever it replaced, also while another process replaces it        *)
(* (fusion_forge.py 594).                                                  *)
THEOREM LabelsTrue == OneCompiler /\ Spec => []ArtifactKindTrue
<1> SUFFICES ASSUME OneCompiler PROVE Spec => []ArtifactKindTrue
  OBVIOUS
<1>1. ASSUME TypeInv, LabelInv, NEW p \in Paths, Len(files[p]) = 3
      PROVE  TrueKind(Assembled(files[p]))
  BY <1>1, WholeFile DEF TypeInv, FileTypes, LabelInv
<1>2. TypeInv /\ LabelInv => ArtifactKindTrue
  BY <1>1 DEF ArtifactKindTrue, TrueKind
<1>3. TypeInv /\ LabelInv /\ [Next]_engineVars => LabelInv'
  BY StepLabels
<1> QED
  BY TypeInvariance, InitLabels, <1>2, <1>3, PTL DEF Spec

-----------------------------------------------------------------------------
(* The gate. *)

IInv == TypeInv /\ LabelInv /\ GateInv

LEMMA StepGate ==
  ASSUME FilesStable, IInv, [Next]_engineVars
  PROVE  GateInv'
<1> USE DEF IInv, TypeInv, Types
<1>1. ASSUME UNCHANGED <<kernel_functions, launched>>,
             \A t \in Threads : pc'[t] = "load" =>
               pc[t] = "load" /\ UNCHANGED <<files, loading>>
      PROVE  GateInv'
  BY <1>1 DEF GateInv, NoMock
<1>2. ASSUME NEW t \in Threads,
             \/ Call(t) \/ synchronize_and_clear(t)
             \/ \E p \in Paths : load_model_refuses(t, p)
             \/ compile_ahead_of_time(t) \/ compile_and_serialize(t)
             \/ \E d \in Devices, target \in Targets, b \in Binaries :
                  native_triton_compile(t, d, target, b)
             \/ CompileFails(t) \/ get_op_graph_data(t)
      PROVE  GateInv'
  BY <1>1, <1>2
     DEF Call, synchronize_and_clear, load_model_refuses,
         compile_ahead_of_time, compile_and_serialize, native_triton_compile,
         CompileFails, get_op_graph_data, Enters, Leave, engine
<1>3. ASSUME NEW t \in Threads, NEW p \in Paths, Save(t, p) PROVE GateInv'
  <2>1. \A u \in Threads : pc[u] # "load"
    BY <1>3, EngineAssumption DEF Save, LoadsLocked
  <2>2. \A u \in Threads : pc'[u] # "load"
    BY <1>3, <2>1 DEF Save, Leave
  <2> QED
    BY <1>1, <1>3, <2>2 DEF Save, engine
<1>4. ASSUME NEW t \in Threads, NEW p \in Paths, load_model(t, p) PROVE GateInv'
  <2>1. \A u \in Threads : pc'[u] = "load" => u = t
    BY <1>4, EngineAssumption DEF load_model, Enters, LoadsLocked
  <2> QED
    BY <1>4, <2>1 DEF load_model, engine, GateInv, NoMock
<1>5. ASSUME NEW t \in Threads, pc[t] = "load", pc' = [pc EXCEPT ![t] = "idle"]
      PROVE  \A u \in Threads : pc'[u] # "load"
  BY <1>5, EngineAssumption DEF LoadsLocked
<1>6. ASSUME NEW t \in Threads, load_fails(t) PROVE GateInv'
  BY <1>1, <1>5, <1>6 DEF load_fails, Leave, engine
<1>7. ASSUME NEW t \in Threads, load_kernel_fails(t) PROVE GateInv'
  <2>1. \A u \in Threads : pc'[u] # "load"
    BY <1>5, <1>7 DEF load_kernel_fails, Leave
  <2> QED
    BY <1>7, <2>1 DEF load_kernel_fails, clear_kernels, GateInv, NoMock
<1>8. ASSUME NEW t \in Threads, load_kernel(t) PROVE GateInv'
  <2> DEFINE a == Assembled(files[loading])
  <2>1. NoMock(a)
    <3>1. /\ PassesGate(files[loading]) /\ TrueFile(files[loading])
          /\ FileType(files[loading]) /\ Len(files[loading]) = 3
      BY <1>8 DEF load_kernel, Loadable, load_kin_file, LoadsLocked, FileTypes,
                  LabelInv, GateInv
    <3> QED
      BY <3>1, GatedGenuine
  <2>2. /\ kernel_functions' = FoundIn(a)
        /\ \A s \in DOMAIN FoundIn(a) : FoundIn(a)[s] = a
        /\ launched' = launched
    BY <1>8 DEF load_kernel, FoundIn
  <2>3. \A u \in Threads : pc'[u] # "load"
    BY <1>5, <1>8 DEF load_kernel, Leave
  <2> QED
    BY <2>1, <2>2, <2>3 DEF GateInv, NoMock
<1>9. ASSUME NEW s, NEW has_buffers \in BOOLEAN, LaunchKernel(s, has_buffers),
             UNCHANGED <<kernel_functions, files, loading>>,
             \A t \in Threads : pc'[t] = "load" => pc[t] = "load"
      PROVE  GateInv'
  BY <1>9 DEF LaunchKernel, CanLaunch, GateInv, NoMock
<1>10. ASSUME NEW t \in Threads, launch(t) PROVE GateInv'
  BY <1>9, <1>10 DEF launch, Leave
<1>11. CASE launch_ptr
  BY <1>9, <1>11 DEF launch_ptr, locks
<1>12. ASSUME NEW p \in Paths, NEW a \in Artifacts, OtherProcessSaves(p, a)
       PROVE  GateInv'
  <2>1. \A u \in Threads : pc[u] # "load"
    BY <1>12, EngineAssumption DEF OtherProcessSaves, LoadsLocked
  <2> QED
    BY <1>1, <1>12, <2>1 DEF OtherProcessSaves, locks, engine
<1>13. CASE Restart
  BY <1>13 DEF Restart, GateInv
<1>14. CASE UNCHANGED engineVars
  BY <1>1, <1>14 DEF engineVars, locks, engine
<1> QED
  BY <1>2, <1>3, <1>4, <1>6, <1>7, <1>8, <1>10, <1>11, <1>12, <1>13, <1>14
     DEF Next, CompileStep, LoadStep

(* The whole of the invariant holds in every state. *)
THEOREM Invariance == OneCompiler /\ FilesStable /\ Spec => []IInv
<1> SUFFICES ASSUME OneCompiler, FilesStable PROVE Spec => []IInv
  OBVIOUS
<1>1. Init => IInv
  BY InitTypes, InitLabels DEF Init, IInv, GateInv
<1>2. IInv /\ [Next]_engineVars => IInv'
  BY StepTypes, StepLabels, StepGate DEF IInv
<1> QED
  BY <1>1, <1>2, PTL DEF Spec

(* No mock is run in production, although a file is looked at twice and    *)
(* the label belongs to the compiler, not to the kernel (AOTEngine.cpp     *)
(* 383-386).                                                               *)
THEOREM NoMockIsLaunched == OneCompiler /\ FilesStable /\ Spec => []NoMockLaunched
<1>1. IInv => NoMockLaunched
  BY DEF IInv, GateInv, NoMock, NoMockLaunched
<1> QED
  BY Invariance, <1>1, PTL

=============================================================================
