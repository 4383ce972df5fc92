------------------------- MODULE GenerationService -------------------------
(***************************************************************************)
(* What the server promises its clients, without queues, workers or other  *)
(* people's responses: a request is rejected or accepted with a limit; an  *)
(* accepted one is sent its tokens in order, each once, and ends with the  *)
(* last of them or is given up.  A token is lost only when a request fails *)
(* over it, and is then missing from the stream it belongs to.             *)
(*                                                                         *)
(* KineticServer implements this.                                          *)
(***************************************************************************)
EXTENDS Naturals, Sequences

CONSTANTS
  Requests,
  MaxLimit

VARIABLES
  status,     \* of each request
  limit,      \* how many tokens it may have
  output,     \* the tokens its client was sent
  missing     \* <<request, token>>: lost

vars == <<status, limit, output, missing>>

Init ==
  /\ status = [r \in Requests |-> "new"]
  /\ limit = [r \in Requests |-> 0]
  /\ output = [r \in Requests |-> << >>]
  /\ missing = {}

Reject(r) ==
  /\ status[r] = "new"
  /\ status' = [status EXCEPT ![r] = "rejected"]
  /\ UNCHANGED <<limit, output, missing>>

Accept(r) ==
  /\ status[r] = "new"
  /\ status' = [status EXCEPT ![r] = "accepted"]
  /\ \E n \in 1 .. MaxLimit : limit' = [limit EXCEPT ![r] = n]
  /\ UNCHANGED <<output, missing>>

(* The token to be sent next: all before it were sent or are missing. *)
Sent(r, k) == \E j \in DOMAIN output[r] : output[r][j] = k

IsNext(r, k) ==
  /\ k < limit[r] /\ ~ Sent(r, k) /\ <<r, k>> \notin missing
  /\ \A j \in 0 .. k - 1 : Sent(r, j) \/ <<r, j>> \in missing

(* The last token of the limit is also the end of the stream. *)
Deliver(r) ==
  /\ status[r] = "accepted"
  /\ \E k \in 0 .. MaxLimit - 1 :
       /\ IsNext(r, k)
       /\ output' = [output EXCEPT ![r] = Append(@, k)]
       /\ status' = [status EXCEPT ![r] =
                       IF k = limit[r] - 1 THEN "finished" ELSE @]
  /\ UNCHANGED <<limit, missing>>

GiveUp(r) ==
  /\ status[r] = "accepted"
  /\ status' = [status EXCEPT ![r] = "given up"]
  /\ UNCHANGED <<limit, output, missing>>

(* A token, of this request or of another, that was not sent. *)
FailOver(r) ==
  /\ status[r] = "accepted"
  /\ status' = [status EXCEPT ![r] = "given up"]
  /\ \E q \in Requests, k \in 0 .. MaxLimit - 1 :
       /\ ~ Sent(q, k)
       /\ missing' = missing \cup {<<q, k>>}
  /\ UNCHANGED <<limit, output>>

Next ==
  \E r \in Requests :
    Reject(r) \/ Accept(r) \/ Deliver(r) \/ GiveUp(r) \/ FailOver(r)

Spec == Init /\ [][Next]_vars

=============================================================================
