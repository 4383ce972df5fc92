--------------------------- MODULE KineticRuntime ---------------------------
(***************************************************************************)
(* KineticRuntime.generate of orchestrator.py over an engine, that is the  *)
(* router (on its HIP path) or an AOTEngine, or over a GraphWrapper: one   *)
(* launch per token, on all tokens so far.  A text is known by the number  *)
(* of its tokens.                                                          *)
(*                                                                         *)
(* A launch is asynchronous: it has been given to the device when the call *)
(* returns, and the device writes the logits at some later time.  torch    *)
(* reads them on a stream of its own choice, so that only a synchronize    *)
(* orders the two.                                                         *)
(***************************************************************************)
EXTENDS NativeBoundary

CONSTANTS
  max_seq_len,
  vocab_size,
  PromptLens,
  MaxNewTokens

(* The number of tokens is an int for launch. *)
ASSUME RuntimeAssumption ==
  /\ max_seq_len \in 1 .. IntMax /\ vocab_size \in Nat \ {0}
  /\ PromptLens \subseteq Nat \ {0}
  /\ MaxNewTokens \subseteq Nat \ {0}

Call ==
  [prompt : PromptLens, max_new_tokens : MaxNewTokens,
   backend : {"router", "AOTEngine", "wrapper"},
   device : {"cuda", "cpu"},         \* cuda if torch has it
   allow_mocks : BOOLEAN]            \* MOCK_HIP or KINETIC_ALLOW_MOCKS is set

VARIABLES
  call,        \* the call of generate at hand
  at,          \* where in its loop it is
  tokens,      \* how many there are, 0 outside of generate
  left,        \* turns of the loop to come
  logits       \* of output_tensor: whether a launch has or will have written them

runtimeVars == <<call, at, tokens, left, logits>>
vars        == <<boundaryVars, runtimeVars>>

Init ==
  /\ BoundaryInit
  /\ call = None /\ at = "idle"
  /\ tokens = 0 /\ left = 0 /\ logits = "unwritten"

generate ==
  /\ at = "idle" /\ NoCall
  /\ call' \in Call
  /\ call'.prompt < max_seq_len
  /\ tokens' = call'.prompt /\ left' = call'.max_new_tokens
  /\ at' = "loop"
  /\ UNCHANGED <<logits, boundaryVars>>

-----------------------------------------------------------------------------
(* A turn: new tensors, checked, are launched on. *)
NewTensor(shape, strides, type) ==
  [allocated |-> TRUE, shape |-> shape, strides |-> strides, dtype |-> type,
   storage_offset |-> 0, nbytes |-> Extent(shape) * element_size[type]]

input_tensor  == NewTensor(<<tokens>>, <<1>>, "INT32")
output_tensor ==
  NewTensor(<<tokens, vocab_size>>, <<vocab_size, 1>>, "FLOAT32")

validate_device_residency == call.allow_mocks \/ call.device = "cuda"

(* Fault: a tensor may be anywhere. *)
convert_tensors_anywhere ==
  /\ validate_tensor_for_zero_copy(input_tensor, "INT32")
  /\ validate_tensor_for_zero_copy(output_tensor, "FLOAT32")

convert_tensors ==
  /\ validate_device_residency
  /\ validate_tensor_for_zero_copy(input_tensor, "INT32")
  /\ validate_tensor_for_zero_copy(output_tensor, "FLOAT32")

(* A graph is captured in which nothing is launched. *)
LaunchGraph ==
  /\ call.backend = "wrapper"
  /\ UNCHANGED <<logits, input, launched, fileVars>>

LaunchRouter ==
  /\ call.backend = "router"
  /\ launch(tokens, tokens * element_size["INT32"], DefaultBlock)
  /\ logits' = "awaited"

(* An AOTEngine takes the fourth argument, the size, for the stream: what  *)
(* is launched on a stream that nobody has created may come to nothing.    *)
LaunchAOTEngine ==
  /\ call.backend = "AOTEngine"
  /\ launch(tokens, 0, DefaultBlock)
  /\ logits' \in {"unwritten", "awaited"}

MayGoOn == at = "loop" /\ left > 0 /\ tokens < max_seq_len

(* Fault: the last place of the window is filled as well. *)
launch_backend_full ==
  /\ at = "loop" /\ left > 0 /\ tokens <= max_seq_len
  /\ convert_tensors
  /\ LaunchGraph \/ LaunchRouter \/ LaunchAOTEngine
  /\ at' = "launched"
  /\ UNCHANGED <<call, tokens, left>>

launch_backend ==
  /\ MayGoOn
  /\ convert_tensors
  /\ LaunchGraph \/ LaunchRouter \/ LaunchAOTEngine
  /\ at' = "launched"
  /\ UNCHANGED <<call, tokens, left>>

(* The device gets round to the launch. *)
DeviceWrites ==
  /\ logits = "awaited"
  /\ logits' = "written"
  /\ UNCHANGED <<call, at, tokens, left, boundaryVars>>

(* torch.cuda.synchronize, if torch has a device to wait for. *)
synchronize ==
  /\ at = "launched"
  /\ call.device = "cuda" => logits # "awaited"
  /\ at' = "choose"
  /\ UNCHANGED <<call, tokens, left, logits, boundaryVars>>

(* The most likely token after the last one; the tensors go. *)
ChooseToken ==
  /\ at = "choose"
  /\ at' = "loop"
  /\ tokens' = tokens + 1
  /\ left' = left - 1
  /\ logits' = "unwritten"
  /\ launched' = None
  /\ UNCHANGED <<call, input, fileVars>>

-----------------------------------------------------------------------------
(* The call is over. *)
Leave ==
  /\ call' = None /\ at' = "idle"
  /\ tokens' = 0 /\ left' = 0 /\ logits' = "unwritten"
  /\ launched' = None
  /\ UNCHANGED <<input, fileVars>>

generate_returns == at = "loop" /\ ~ MayGoOn /\ Leave

(* A tensor is not where it must be, nothing is loaded or HIP refuses the  *)
(* launch; or the device has failed, which whoever waits for it is told.   *)
generate_raises ==
  /\ MayGoOn \/ (at \in {"launched", "choose"} /\ call.device = "cuda")
  /\ Leave

Next ==
  \/ at = "idle" /\ BoundaryNext /\ UNCHANGED runtimeVars
  \/ generate \/ launch_backend \/ DeviceWrites \/ synchronize \/ ChooseToken
  \/ generate_returns \/ generate_raises

Spec == Init /\ [][Next]_vars

-----------------------------------------------------------------------------
(* Every variable has its type; the tokens stay within the window. *)
TypeOK ==
  /\ BoundaryTypeOK
  /\ call \in Call \cup {None}
  /\ at \in {"idle", "loop", "launched", "choose"}
  /\ tokens \in 0 .. max_seq_len
  /\ left \in Nat
  /\ logits \in {"unwritten", "awaited", "written"}

(* With the router, a token is only chosen from logits that a launch with a*)
(* grid for all the tokens has finished to write: nothing is read, nor its *)
(* memory let go, while the device may still write to it.  The code waits  *)
(* only if torch has a device, so this rests on the check of residency as  *)
(* well, which keeps tensors of the CPU from being launched on - unless    *)
(* mocks are allowed (orchestrator.py 101-121, 374-388, 414-417, 440-444). *)
TokensFromWrittenLogits ==
  at = "choose" /\ call.backend = "router"
    /\ (call.allow_mocks => call.device = "cuda")
  => /\ logits = "written"
     /\ launched.grid_x * launched.block_x >= tokens

=============================================================================
