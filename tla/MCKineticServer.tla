--------------------------- MODULE MCKineticServer ---------------------------
(***************************************************************************)
(* KineticServer for TLC: a prompt that leaves room for two tokens, one    *)
(* that leaves room for one, and one that may also fill the window.        *)
(***************************************************************************)
EXTENDS KineticServer

CONSTANTS r1, r2, r3

MCPromptLens ==
  [r \in Requests |-> CASE r = r1 -> {1} [] r = r2 -> {2} [] r = r3 -> {1, 3}]
MCMaxTokens  == {2}
MCMaxSeqLen  == 3

=============================================================================
