------------------------ MODULE KineticServerProofs ------------------------
(***************************************************************************)
(* For any number of requests, rings of any size and prompts and limits of *)
(* any length: every client is sent its tokens in order, each once, however*)
(* the coroutines poll one another's responses, and the server implements  *)
(* GenerationService.                                                      *)
(*                                                                         *)
(* That a stream is whole while its client waits is not inductive: it must *)
(* also be known that a response is only ever of a request that has left   *)
(* the request ring, that no token is in two places, and that requests     *)
(* given up keep to this as well.  IInv says it in terms of sets of tokens;*)
(* the first lemmas take these from sequences.                             *)
(***************************************************************************)
EXTENDS KineticServer, SequenceTheorems, TLAPS

Sent(r)   == Elements(delivered[r])
Aside(r)  == TokensIn(pending[r], r)
Tokens(r) == Sent(r) \cup Aside(r) \cup InRing(r)

UnderWay == {"wait", "aborted", "timeout", "error"}
Working  == wpc \in {"launch", "push", "terminated"}

(* The worker has pushed token i of request r. *)
Made(r, i) ==
  /\ coro[r] \notin {"new", "rejected", "submit"}
  /\ i < max_tokens[r]
  /\ ~ Queued(r)
  /\ req.id = r => i < tok

(* Distinct tokens: the k-th is at least k - 1. *)
Spread(s) == \A k \in 1 .. Len(s) : s[k] >= k - 1

CoroutinesOK ==
  \A r \in Requests :
    /\ coro[r] \notin {"new", "rejected"} => max_tokens[r] >= 1
    /\ coro[r] \in {"submit", "wait"} => r \in pinned
    /\ coro[r] = "finished" => r \notin pinned

(* Requests in the ring are there once, as they were submitted. *)
RequestsOK ==
  /\ \A k \in DOMAIN request_queue :
       LET q == request_queue[k] IN
       q.max_tokens = max_tokens[q.id] /\ coro[q.id] \in UnderWay
  /\ \A j, k \in DOMAIN request_queue :
       request_queue[j].id = request_queue[k].id => j = k

(* The worker is at a request it has taken from the ring, or at none. *)
WorkerOK ==
  IF Working
    THEN /\ req \in Request /\ req.max_tokens = max_tokens[req.id]
         /\ tok < req.max_tokens
         /\ coro[req.id] \in UnderWay /\ ~ Queued(req.id)
    ELSE req = Idle

IsLast(resp) == resp.is_finished <=> resp.index = max_tokens[resp.id] - 1

TokensMade ==
  /\ \A r \in Requests : \A i \in Tokens(r) : Made(r, i)
  /\ \A r \in Requests, i \in Nat : <<r, i>> \in lost => Made(r, i)
  /\ \A resp \in Elements(response_queue) : IsLast(resp)
  /\ \A r \in Requests : \A resp \in Elements(pending[r]) :
       resp.id = r /\ IsLast(resp)

InOrder ==
  /\ Ordered(response_queue)
  /\ \A r \in Requests :
       /\ Increasing(delivered[r]) /\ Spread(delivered[r])
       /\ Ordered(pending[r])
       /\ Below(Sent(r), Aside(r)) /\ Below(Sent(r) \cup Aside(r), InRing(r))
       /\ \A i \in Tokens(r) : <<r, i>> \notin lost

(* What was produced for a client that still waits or has it all is there. *)
Whole ==
  \A r \in Requests, i \in Nat :
    /\ coro[r] \in {"wait", "finished"}
    /\ i < max_tokens[r] /\ ~ Queued(r) /\ (req.id = r => i < tok)
    => i \in Tokens(r) \/ <<r, i>> \in lost

IInv ==
  /\ TypeOK
  /\ CoroutinesOK
  /\ RequestsOK
  /\ WorkerOK
  /\ TokensMade
  /\ InOrder
  /\ Whole
  /\ NothingLeft

-----------------------------------------------------------------------------
(* Sequences and the sets of tokens in them. *)

LEMMA EmptyElements == Elements(<< >>) = {} /\ \A r : TokensIn(<< >>, r) = {}
BY DEF Elements, TokensIn

LEMMA AppendElements ==
  ASSUME NEW S, NEW s \in Seq(S), NEW e \in S
  PROVE  /\ Append(s, e) \in Seq(S)
         /\ Len(Append(s, e)) = Len(s) + 1
         /\ Elements(Append(s, e)) = Elements(s) \cup {e}
<1>1. /\ Append(s, e) \in Seq(S) /\ Len(Append(s, e)) = Len(s) + 1
      /\ \A k \in 1 .. Len(s) : Append(s, e)[k] = s[k]
      /\ Append(s, e)[Len(s) + 1] = e
  BY AppendProperties
<1>2. DOMAIN s = 1 .. Len(s) /\ Len(s) \in Nat
  BY LenProperties
<1>3. DOMAIN Append(s, e) = 1 .. Len(s) + 1
  BY <1>1, LenProperties
<1>4. DOMAIN Append(s, e) = DOMAIN s \cup {Len(s) + 1}
  BY <1>2, <1>3
<1> QED
  BY <1>1, <1>2, <1>4 DEF Elements

LEMMA TailElements ==
  ASSUME NEW S, NEW s \in Seq(S), s # << >>
  PROVE  /\ Head(s) \in S /\ Tail(s) \in Seq(S)
         /\ Len(s) \in Nat \ {0} /\ Len(Tail(s)) = Len(s) - 1
         /\ Elements(s) = {Head(s)} \cup Elements(Tail(s))
<1>1. /\ Head(s) \in S /\ Tail(s) \in Seq(S)
      /\ Len(Tail(s)) = Len(s) - 1
      /\ \A k \in 1 .. Len(Tail(s)) : Tail(s)[k] = s[k + 1]
  BY HeadTailProperties
<1>2. Len(s) \in Nat \ {0} /\ DOMAIN s = 1 .. Len(s)
  BY EmptySeq, LenProperties
<1>3. DOMAIN Tail(s) = 1 .. Len(s) - 1
  BY <1>1, LenProperties
<1>4. Head(s) = s[1]
  OBVIOUS
<1>5. ASSUME NEW e \in Elements(s), e # Head(s)
      PROVE  e \in Elements(Tail(s))
  <2>1. PICK k \in 1 .. Len(s) : e = s[k]
    BY <1>2 DEF Elements
  <2>2. k - 1 \in 1 .. Len(s) - 1
    BY <1>2, <1>4, <1>5, <2>1
  <2>3. Tail(s)[k - 1] = s[k]
    BY <1>1, <1>2, <2>1, <2>2
  <2> QED
    BY <1>3, <2>1, <2>2, <2>3 DEF Elements
<1>6. Elements(Tail(s)) \subseteq Elements(s)
  BY <1>1, <1>2, <1>3 DEF Elements
<1>7. Head(s) \in Elements(s)
  BY <1>2, <1>4 DEF Elements
<1> QED
  BY <1>1, <1>2, <1>5, <1>6, <1>7

LEMMA TokensAppended ==
  ASSUME NEW s \in Seq(Response), NEW e \in Response
  PROVE  \A r : TokensIn(Append(s, e), r) =
                  TokensIn(s, r) \cup IF e.id = r THEN {e.index} ELSE {}
BY AppendElements DEF TokensIn

LEMMA TokensOfTail ==
  ASSUME NEW s \in Seq(Response), s # << >>
  PROVE  \A r : TokensIn(s, r) =
                  TokensIn(Tail(s), r)
                    \cup IF Head(s).id = r THEN {Head(s).index} ELSE {}
BY TailElements DEF TokensIn

LEMMA TokensType ==
  ASSUME NEW s \in Seq(Response), NEW r
  PROVE  TokensIn(s, r) \in SUBSET Nat
<1>1. \A x \in Elements(s) : x \in Response
  BY LenProperties DEF Elements
<1>2. \A x \in Elements(s) : x.index \in Nat
  BY <1>1 DEF Response
<1> QED
  BY <1>2 DEF TokensIn

LEMMA DomainType ==
  ASSUME NEW S, NEW s \in Seq(S)
  PROVE  \A k \in DOMAIN s : s[k] \in S
BY LenProperties

LEMMA ElementsType ==
  ASSUME NEW s \in Seq(Response), NEW x \in Elements(s)
  PROVE  /\ x \in Response /\ x.id \in Requests /\ x.index \in Nat
         /\ x.index \in TokensIn(s, x.id)
<1>1. x \in Response
  BY LenProperties DEF Elements
<1> QED
  BY <1>1 DEF Response, TokensIn

LEMMA EmptyOrdered == Ordered(<< >>)
BY DEF Ordered

LEMMA OrderedAppended ==
  ASSUME NEW s \in Seq(Response), NEW e \in Response, Ordered(s),
         \A i \in TokensIn(s, e.id) : i < e.index
  PROVE  Ordered(Append(s, e))
<1>1. /\ Len(Append(s, e)) = Len(s) + 1 /\ Append(s, e) \in Seq(Response)
      /\ \A k \in 1 .. Len(s) : Append(s, e)[k] = s[k]
      /\ Append(s, e)[Len(s) + 1] = e
  BY AppendProperties
<1>2. DOMAIN s = 1 .. Len(s) /\ Len(s) \in Nat
  BY LenProperties
<1>3. DOMAIN Append(s, e) = 1 .. Len(s) + 1
  BY <1>1, LenProperties
<1>4. \A k \in 1 .. Len(s) : s[k].id = e.id => s[k].index < e.index
  BY <1>2 DEF TokensIn, Elements
<1> SUFFICES ASSUME NEW j \in 1 .. Len(s) + 1, NEW k \in 1 .. Len(s) + 1,
                    j < k, Append(s, e)[j].id = Append(s, e)[k].id
             PROVE  Append(s, e)[j].index < Append(s, e)[k].index
  BY <1>3 DEF Ordered
<1>5. j \in 1 .. Len(s)
  BY <1>2
<1>6. CASE k = Len(s) + 1
  BY <1>1, <1>4, <1>5, <1>6
<1>7. CASE k \in 1 .. Len(s)
  BY <1>1, <1>2, <1>5, <1>7 DEF Ordered
<1> QED
  BY <1>2, <1>6, <1>7

LEMMA OrderedTail ==
  ASSUME NEW s \in Seq(Response), s # << >>, Ordered(s)
  PROVE  /\ Ordered(Tail(s))
         /\ \A i \in TokensIn(Tail(s), Head(s).id) : Head(s).index < i
<1>1. /\ Len(s) \in Nat \ {0} /\ DOMAIN s = 1 .. Len(s)
      /\ DOMAIN Tail(s) = 1 .. Len(s) - 1
      /\ \A k \in 1 .. Len(s) - 1 : Tail(s)[k] = s[k + 1]
      /\ Head(s) = s[1]
  BY HeadTailProperties, EmptySeq, LenProperties
<1>2. \A k \in 1 .. Len(s) - 1 : k + 1 \in 1 .. Len(s)
  BY <1>1
<1>3. Ordered(Tail(s))
  BY <1>1, <1>2 DEF Ordered
<1>4. \A k \in 1 .. Len(s) - 1 :
        Tail(s)[k].id = Head(s).id => Head(s).index < Tail(s)[k].index
  BY <1>1, <1>2 DEF Ordered
<1>5. ASSUME NEW i \in TokensIn(Tail(s), Head(s).id)
      PROVE  Head(s).index < i
  <2>1. PICK k \in DOMAIN Tail(s) :
          Tail(s)[k].id = Head(s).id /\ i = Tail(s)[k].index
    BY DEF TokensIn, Elements
  <2> QED
    BY <1>1, <1>4, <2>1
<1> QED
  BY <1>3, <1>5

LEMMA TokenAppended ==
  ASSUME NEW s \in Seq(Nat), NEW e \in Nat, Increasing(s), Spread(s),
         \A i \in Elements(s) : i < e
  PROVE  /\ Len(s) \in Nat /\ Len(s) <= e
         /\ Increasing(Append(s, e)) /\ Spread(Append(s, e))
<1>1. /\ Len(s) \in Nat /\ DOMAIN s = 1 .. Len(s)
      /\ Len(Append(s, e)) = Len(s) + 1
      /\ \A k \in 1 .. Len(s) : Append(s, e)[k] = s[k] /\ s[k] \in Nat
      /\ Append(s, e)[Len(s) + 1] = e
  BY AppendProperties, LenProperties, ElementOfSeq
<1>2. \A k \in 1 .. Len(s) : s[k] < e
  BY <1>1 DEF Elements
<1>3. Len(s) <= e
  <2>1. CASE Len(s) = 0
    BY <2>1
  <2>2. CASE Len(s) # 0
    BY <1>1, <1>2, <2>2 DEF Spread
  <2> QED
    BY <2>1, <2>2
<1>4. Increasing(Append(s, e))
  BY <1>1, <1>2 DEF Increasing
<1>5. Spread(Append(s, e))
  BY <1>1, <1>3 DEF Spread
<1> QED
  BY <1>1, <1>3, <1>4, <1>5

-----------------------------------------------------------------------------
(* What is queued after a submit and after a fetch. *)

LEMMA Submitted ==
  ASSUME NEW q \in Request, request_queue \in Seq(Request),
         request_queue' = Append(request_queue, q)
  PROVE  /\ request_queue' \in Seq(Request)
         /\ Len(request_queue') = Len(request_queue) + 1
         /\ \A r : Queued(r)' <=> Queued(r) \/ r = q.id
         /\ \A k \in DOMAIN request_queue' :
              \/ k \in DOMAIN request_queue /\ request_queue'[k] = request_queue[k]
              \/ k = Len(request_queue) + 1 /\ request_queue'[k] = q
<1>1. /\ Len(request_queue') = Len(request_queue) + 1
      /\ request_queue' \in Seq(Request)
      /\ \A k \in 1 .. Len(request_queue) : request_queue'[k] = request_queue[k]
      /\ request_queue'[Len(request_queue) + 1] = q
  BY AppendProperties
<1>2. DOMAIN request_queue = 1 .. Len(request_queue) /\ Len(request_queue) \in Nat
  BY LenProperties
<1>3. DOMAIN request_queue' = 1 .. Len(request_queue) + 1
  BY <1>1, LenProperties
<1>4. /\ DOMAIN request_queue \subseteq DOMAIN request_queue'
      /\ Len(request_queue) + 1 \in DOMAIN request_queue'
      /\ \A k \in DOMAIN request_queue' :
           k \in DOMAIN request_queue \/ k = Len(request_queue) + 1
  BY <1>2, <1>3
<1> QED
  BY <1>1, <1>2, <1>4 DEF Queued

LEMMA Fetched ==
  ASSUME request_queue \in Seq(Request), request_queue # << >>,
         request_queue' = Tail(request_queue), RequestsOK
  PROVE  /\ request_queue' \in Seq(Request)
         /\ Len(request_queue') < Len(request_queue)
         /\ Head(request_queue) \in Request
         /\ \E k \in DOMAIN request_queue : request_queue[k] = Head(request_queue)
         /\ \A r : Queued(r)' <=> Queued(r) /\ r # Head(request_queue).id
         /\ \A k \in DOMAIN request_queue' :
              k + 1 \in DOMAIN request_queue /\ request_queue'[k] = request_queue[k + 1]
<1> DEFINE s == request_queue
<1>1. /\ Len(s) \in Nat \ {0} /\ DOMAIN s = 1 .. Len(s)
      /\ DOMAIN s' = 1 .. Len(s) - 1 /\ Len(s') = Len(s) - 1
      /\ \A k \in 1 .. Len(s) - 1 : s'[k] = s[k + 1]
      /\ Head(s) = s[1]
      /\ s' \in Seq(Request) /\ Head(s) \in Request
  BY HeadTailProperties, EmptySeq, LenProperties
<1>2. \A k \in DOMAIN s' : k + 1 \in DOMAIN s /\ k + 1 # 1 /\ s'[k] = s[k + 1]
  BY <1>1
<1>3. \A k \in DOMAIN s : k # 1 => k - 1 \in DOMAIN s' /\ s'[k - 1] = s[k]
  BY <1>1
<1>4. 1 \in DOMAIN s /\ \A k \in DOMAIN s : s[k].id = s[1].id => k = 1
  BY <1>1 DEF RequestsOK
<1>5. \A r : Queued(r)' <=> Queued(r) /\ r # Head(s).id
  <2>1. ASSUME NEW r, NEW k \in DOMAIN s, s[k].id = r, r # Head(s).id
        PROVE  \E j \in DOMAIN s' : s'[j].id = r
    BY <1>1, <1>3, <2>1
  <2>2. ASSUME NEW r, NEW k \in DOMAIN s', s'[k].id = r
        PROVE  (\E j \in DOMAIN s : s[j].id = r) /\ r # Head(s).id
    BY <1>1, <1>2, <1>4, <2>2
  <2> QED
    BY <2>1, <2>2 DEF Queued
<1> QED
  BY <1>1, <1>2, <1>4, <1>5

-----------------------------------------------------------------------------
(* The server as its clients see it. *)

Statuses == [r \in Requests |-> Status(r)]

(* A step of one coroutine changes the status of one request. *)
LEMMA StatusChanges ==
  ASSUME NEW r \in Requests, NEW v, Status(r)' = v,
         \A q \in Requests \ {r} : coro'[q] = coro[q]
  PROVE  Statuses' = [Statuses EXCEPT ![r] = v]
<1>1. \A q \in Requests \ {r} : Status(q)' = Status(q)
  BY DEF Status
<1> QED
  BY <1>1 DEF Statuses

LEMMA SentOfService ==
  \A r \in Requests : \A k : Service!Sent(r, k) <=> k \in Sent(r)
BY DEF Service!Sent, Sent, Elements

-----------------------------------------------------------------------------
(* The invariant holds at first and every step keeps it. *)

LEMMA InitIInv == Init => IInv
<1> SUFFICES ASSUME Init PROVE IInv
  OBVIOUS
<1>1. TypeOK
  <2>1. /\ << >> \in Seq(Request) /\ << >> \in Seq(Response) /\ << >> \in Seq(Nat)
        /\ Len(<< >>) = 0
    BY EmptySeq
  <2>2. /\ request_queue \in Seq(Request) /\ Len(request_queue) <= ReqCapacity
        /\ response_queue \in Seq(Response) /\ Len(response_queue) <= RespCapacity
    BY <2>1, CapacityAssumption DEF Init, QueueInit
  <2>3. /\ delivered \in [Requests -> Seq(Nat)]
        /\ pending \in [Requests -> Seq(Response)]
    BY <2>1 DEF Init
  <2>4. /\ stop \in BOOLEAN /\ wpc = "check" /\ req = Idle /\ tok \in Nat
        /\ coro \in [Requests -> {"new"}] /\ pinned = {} /\ lost = {}
    BY DEF Init, WorkerInit
  <2>5. max_tokens \in [Requests -> 0 .. MaxSeqLen]
    BY ServerAssumption DEF Init
  <2> QED
    BY <2>2, <2>3, <2>4, <2>5 DEF TypeOK
<1>2. \A r \in Requests : Tokens(r) = {} /\ ~ Queued(r)
  BY EmptyElements DEF Init, QueueInit, Tokens, Sent, Aside, InRing, Queued
<1>3. InOrder
  BY EmptyElements, <1>2
     DEF Init, QueueInit, InOrder, Tokens, Ordered, Increasing, Spread, Below,
         Sent, Aside
<1>4. TokensMade
  BY EmptyElements, <1>2 DEF Init, QueueInit, TokensMade
<1> QED
  BY <1>1, <1>2, <1>3, <1>4
     DEF Init, QueueInit, WorkerInit, IInv, CoroutinesOK, RequestsOK, WorkerOK,
         Working, Whole, NothingLeft

LEMMA QueuedIds ==
  ASSUME TypeOK
  PROVE  \A k \in DOMAIN request_queue :
           request_queue[k] \in Request /\ request_queue[k].id \in Requests
<1>1. \A k \in DOMAIN request_queue : request_queue[k] \in Request
  BY DomainType DEF TypeOK
<1> QED
  BY <1>1 DEF Request

LEMMA TokensAreNumbers ==
  ASSUME TypeOK
  PROVE  \A r \in Requests : Tokens(r) \in SUBSET Nat
<1>1. \A r \in Requests : Aside(r) \cup InRing(r) \in SUBSET Nat
  BY TokensType DEF Aside, InRing, TypeOK
<1>2. \A r \in Requests : \A i \in Sent(r) : i \in Nat
  <2>1. \A r \in Requests : \A k \in DOMAIN delivered[r] : delivered[r][k] \in Nat
    BY DomainType DEF TypeOK
  <2> QED
    BY <2>1 DEF Sent, Elements
<1> QED
  BY <1>1, <1>2 DEF Tokens

(* Of a request that was not submitted there is nothing anywhere. *)
LEMMA NothingYet ==
  ASSUME IInv, NEW r \in Requests, coro[r] \in {"new", "submit"}
  PROVE  /\ Tokens(r) = {} /\ ~ Queued(r) /\ req.id # r
         /\ \A i \in Nat : <<r, i>> \notin lost
<1>1. Tokens(r) = {} /\ \A i \in Nat : <<r, i>> \notin lost
  BY DEF IInv, TokensMade, Made
<1>2. ~ Queued(r)
  BY DEF IInv, RequestsOK, UnderWay, Queued
<1>3. req.id # r
  BY WorkerAssumption DEF IInv, WorkerOK, UnderWay, Idle
<1> QED
  BY <1>1, <1>2, <1>3

(* A coroutine that is not waiting for responses moves. *)
LEMMA BeforeTheLoop ==
  ASSUME IInv, NEW r \in Requests,
         Reject(r) \/ Start(r) \/ ValidationFails(r)
  PROVE  IInv'
<1> USE DEF IInv
<1>1. /\ coro[r] \in {"new", "submit"}
      /\ coro' \in [Requests -> {"new", "submit", "wait"} \cup Ended]
      /\ coro'[r] \in {"rejected", "submit", "error"}
      /\ \A q \in Requests \ {r} : coro'[q] = coro[q]
  BY DEF Reject, Start, ValidationFails, End, TypeOK, Ended
<1>2. UNCHANGED <<delivered, lost, workerVars, queueVars>>
  BY DEF Reject, Start, ValidationFails
<1>3. /\ max_tokens' \in [Requests -> 0 .. MaxSeqLen]
      /\ \A q \in Requests \ {r} : max_tokens'[q] = max_tokens[q]
      /\ coro'[r] # "rejected" => max_tokens'[r] >= 1
  <2>1. CASE Start(r)
    <3>1. PICK len \in PromptLens[r], wanted \in MaxTokens :
            /\ len < MaxSeqLen
            /\ max_tokens' = [max_tokens EXCEPT ![r] =
                                Smaller(wanted, MaxSeqLen - len)]
      BY <2>1 DEF Start
    <3>2. Smaller(wanted, MaxSeqLen - len) \in 1 .. MaxSeqLen
      BY <3>1, ServerAssumption DEF Smaller
    <3> QED
      BY <3>1, <3>2 DEF TypeOK
  <2>2. CASE Reject(r) \/ ValidationFails(r)
    BY <2>2 DEF Reject, ValidationFails, End, TypeOK, CoroutinesOK
  <2> QED
    BY <2>1, <2>2
<1>4. /\ pinned' \subseteq Requests
      /\ \A q \in Requests \ {r} : q \in pinned' <=> q \in pinned
      /\ coro'[r] = "submit" => r \in pinned'
  BY <1>1 DEF Reject, Start, ValidationFails, End, TypeOK
<1>5. /\ pending' \in [Requests -> Seq(Response)]
      /\ \A q \in Requests \ {r} : pending'[q] = pending[q]
      /\ pending'[r] \in {pending[r], << >>}
  BY EmptySeq DEF Reject, Start, ValidationFails, TypeOK
<1>6. /\ Tokens(r) = {} /\ ~ Queued(r) /\ req.id # r
      /\ \A i \in Nat : <<r, i>> \notin lost
  BY <1>1, NothingYet
<1>7. \A q \in Requests : Tokens(q)' = Tokens(q) /\ Aside(q)' = Aside(q)
  <2>1. Aside(r) = {} /\ Aside(r)' = {}
    BY <1>5, <1>6, EmptyElements DEF Tokens, Aside
  <2> QED
    BY <1>2, <1>5, <2>1 DEF Tokens, Sent, Aside, InRing, queueVars
<1>8. \A q \in Requests : Queued(q)' <=> Queued(q)
  BY <1>2 DEF Queued, queueVars
<1>9. TypeOK'
  BY <1>1, <1>2, <1>3, <1>4, <1>5 DEF TypeOK, workerVars, queueVars
<1>10. CoroutinesOK'
  BY <1>1, <1>3, <1>4 DEF CoroutinesOK
<1>11. RequestsOK' /\ WorkerOK'
  <2>1. \A k \in DOMAIN request_queue : request_queue[k].id \in Requests \ {r}
    BY <1>6, QueuedIds DEF Queued
  <2>2. RequestsOK'
    BY <1>1, <1>2, <1>3, <2>1 DEF RequestsOK, queueVars
  <2>3. WorkerOK'
    BY <1>1, <1>2, <1>3, <1>6, <1>8 DEF WorkerOK, Working, Request, workerVars
  <2> QED
    BY <2>2, <2>3
<1>12. TokensMade'
  <2>1. /\ \A q \in Requests : \A i \in Tokens(q) : q # r
        /\ \A q \in Requests, i \in Nat : <<q, i>> \in lost => q # r
    BY <1>6
  <2>2. \A q \in Requests \ {r} : \A i : Made(q, i) => Made(q, i)'
    BY <1>1, <1>2, <1>3, <1>8 DEF Made, workerVars
  <2>3. \A resp \in Elements(response_queue) : resp.id \in Requests \ {r}
    BY <1>6, ElementsType DEF Tokens, InRing, TypeOK
  <2>4. ASSUME NEW q \in Requests, NEW resp \in Elements(pending'[q])
        PROVE  resp.id = q /\ IsLast(resp)'
    <3>1. resp \in Elements(pending[q])
      BY <1>5, EmptyElements
    <3>2. resp.id = q /\ IsLast(resp) /\ resp.index \in Aside(q)
      BY <3>1, ElementsType DEF TokensMade, Aside, TypeOK
    <3> QED
      BY <1>3, <1>6, <3>2 DEF IsLast, Tokens
  <2>5. \A q \in Requests : \A i \in Tokens(q)' : Made(q, i)'
    BY <1>7, <2>1, <2>2 DEF TokensMade
  <2>6. \A q \in Requests, i \in Nat : <<q, i>> \in lost' => Made(q, i)'
    BY <1>2, <2>1, <2>2 DEF TokensMade
  <2>7. \A resp \in Elements(response_queue') : IsLast(resp)'
    BY <1>2, <1>3, <2>3 DEF TokensMade, IsLast, queueVars
  <2> QED
    BY <2>4, <2>5, <2>6, <2>7 DEF TokensMade
<1>13. InOrder'
  <2>1. \A q \in Requests : Ordered(pending'[q])
    BY <1>5, EmptyOrdered DEF InOrder
  <2> QED
    BY <1>2, <1>7, <2>1 DEF InOrder, Sent, InRing, queueVars
<1>14. Whole' /\ NothingLeft'
  BY <1>1, <1>2, <1>3, <1>4, <1>5, <1>7, <1>8
     DEF Whole, NothingLeft, InRing, workerVars, queueVars
<1> QED
  BY <1>9, <1>10, <1>11, <1>12, <1>13, <1>14

LEMMA SubmitStep ==
  ASSUME IInv, NEW r \in Requests, SubmitRequest(r)
  PROVE  IInv'
<1> USE DEF IInv
<1> DEFINE q == [id |-> r, max_tokens |-> max_tokens[r]]
<1>1. /\ q \in Request /\ q.id = r /\ q.max_tokens = max_tokens[r]
      /\ max_tokens[r] \in Nat
  BY ServerAssumption DEF Request, TypeOK
<1>2. /\ coro[r] = "submit"
      /\ coro' = [coro EXCEPT ![r] = "wait"]
      /\ Len(request_queue) < ReqCapacity
      /\ request_queue' = Append(request_queue, q)
      /\ UNCHANGED <<max_tokens, delivered, pinned, pending, lost, workerVars,
                     response_queue>>
  BY DEF SubmitRequest, Submit
<1>3. /\ Tokens(r) = {} /\ ~ Queued(r) /\ req.id # r
      /\ \A i \in Nat : <<r, i>> \notin lost
  BY <1>2, NothingYet
<1> HIDE DEF q
<1>4. /\ request_queue' \in Seq(Request)
      /\ Len(request_queue') = Len(request_queue) + 1
      /\ \A p : Queued(p)' <=> Queued(p) \/ p = r
      /\ \A k \in DOMAIN request_queue' :
           \/ k \in DOMAIN request_queue /\ request_queue'[k] = request_queue[k]
           \/ k = Len(request_queue) + 1 /\ request_queue'[k] = q
  BY <1>1, <1>2, Submitted DEF TypeOK
<1>5. \A p \in Requests : /\ Tokens(p)' = Tokens(p) /\ Sent(p)' = Sent(p)
                          /\ Aside(p)' = Aside(p) /\ InRing(p)' = InRing(p)
  BY <1>2 DEF Tokens, Sent, Aside, InRing
<1>6. TypeOK'
  <2>1. Len(request_queue') <= ReqCapacity
    BY <1>2, <1>4, CapacityAssumption, LenProperties DEF TypeOK
  <2> QED
    BY <1>2, <1>4, <2>1 DEF TypeOK, workerVars
<1>7. CoroutinesOK'
  BY <1>2 DEF CoroutinesOK, TypeOK
<1>8. RequestsOK'
  <2>1. \A k \in DOMAIN request_queue :
          request_queue[k].id \in Requests /\ request_queue[k].id # r
    BY <1>3, QueuedIds DEF Queued
  <2>2. \A k \in DOMAIN request_queue' :
          LET x == request_queue'[k] IN
          x.max_tokens = max_tokens'[x.id] /\ coro'[x.id] \in UnderWay
    BY <1>1, <1>2, <1>4, <2>1 DEF RequestsOK, UnderWay, TypeOK
  <2>3. \A j, k \in DOMAIN request_queue' :
          request_queue'[j].id = request_queue'[k].id => j = k
    BY <1>1, <1>4, <2>1 DEF RequestsOK
  <2> QED
    BY <2>2, <2>3 DEF RequestsOK
<1>9. WorkerOK'
  BY <1>2, <1>3, <1>4 DEF WorkerOK, Working, Request, TypeOK, workerVars
<1>10. TokensMade'
  <2>1. \A p \in Requests \ {r} : \A i : Made(p, i) => Made(p, i)'
    BY <1>2, <1>4 DEF Made, TypeOK, workerVars
  <2> QED
    BY <1>2, <1>3, <1>5, <2>1 DEF TokensMade, IsLast
<1>11. InOrder'
  BY <1>2, <1>5 DEF InOrder
<1>12. Whole'
  BY <1>2, <1>4, <1>5 DEF Whole, TypeOK, workerVars
<1>13. NothingLeft'
  BY <1>2, <1>4, <1>5 DEF NothingLeft, TypeOK, workerVars
<1> QED
  BY <1>6, <1>7, <1>8, <1>9, <1>10, <1>11, <1>12, <1>13

(* The client goes, or is told that its time is up. *)
LEMMA GiveUpStep ==
  ASSUME IInv, NEW r \in Requests, TimeOut(r) \/ Disconnect(r)
  PROVE  IInv'
<1> USE DEF IInv
<1>1. /\ coro[r] = "wait"
      /\ coro'[r] \in {"timeout", "aborted"}
      /\ coro' \in [Requests -> {"new", "submit", "wait"} \cup Ended]
      /\ \A q \in Requests \ {r} : coro'[q] = coro[q]
      /\ pinned' = pinned \ {r}
      /\ pending' \in [Requests -> Seq(Response)]
      /\ \A q \in Requests \ {r} : pending'[q] = pending[q]
      /\ pending'[r] \in {pending[r], << >>}
      /\ UNCHANGED <<max_tokens, delivered, lost, workerVars, queueVars>>
  <2>1. CASE TimeOut(r)
    BY <2>1 DEF TimeOut, InLoop, End, PollFindsNothing, TypeOK, Ended
  <2>2. CASE Disconnect(r)
    <3>1. /\ coro' = [coro EXCEPT ![r] = "aborted"]
          /\ pending' = [pending EXCEPT ![r] = << >>]
          /\ << >> \in Seq(Response)
      BY <2>2, EmptySeq DEF Disconnect, End
    <3> QED
      BY <2>2, <3>1 DEF Disconnect, InLoop, End, TypeOK, Ended
  <2> QED
    BY <2>1, <2>2
<1>2. \A q \in Requests : /\ Sent(q)' = Sent(q) /\ InRing(q)' = InRing(q)
                          /\ Aside(q)' \subseteq Aside(q)
                          /\ q # r => Aside(q)' = Aside(q)
                          /\ Queued(q)' <=> Queued(q)
  BY <1>1, EmptyElements DEF Sent, InRing, Aside, Queued, queueVars
<1>3. TypeOK'
  BY <1>1 DEF TypeOK, workerVars, queueVars
<1>4. CoroutinesOK'
  BY <1>1 DEF CoroutinesOK
<1>5. RequestsOK'
  BY <1>1, QueuedIds DEF RequestsOK, UnderWay, queueVars
<1>6. WorkerOK'
  BY <1>1, <1>2 DEF WorkerOK, Working, UnderWay, Request, workerVars
<1>7. TokensMade'
  <2>1. \A q \in Requests : \A i : Made(q, i) => Made(q, i)'
    BY <1>1, <1>2 DEF Made, workerVars
  <2>2. \A q \in Requests : Elements(pending'[q]) \subseteq Elements(pending[q])
    BY <1>1, EmptyElements
  <2> QED
    BY <1>1, <1>2, <2>1, <2>2 DEF TokensMade, IsLast, Tokens, queueVars
<1>8. InOrder'
  <2>1. \A q \in Requests : Ordered(pending'[q])
    BY <1>1, EmptyOrdered DEF InOrder
  <2> QED
    BY <1>1, <1>2, <2>1 DEF InOrder, Below, Tokens, queueVars
<1>9. Whole' /\ NothingLeft'
  BY <1>1, <1>2
     DEF Whole, NothingLeft, Tokens, workerVars, queueVars
<1> QED
  BY <1>3, <1>4, <1>5, <1>6, <1>7, <1>8, <1>9

-----------------------------------------------------------------------------
(* A response leaves the ring: it is the next of its request, and all that *)
(* was sent or put aside for it came before.                               *)
LEMMA Popped ==
  ASSUME IInv, response_queue # << >>, response_queue' = Tail(response_queue),
         NEW resp, resp = Head(response_queue)
  PROVE  /\ resp \in Response /\ resp.id \in Requests /\ resp.index \in Nat
         /\ resp.index \in InRing(resp.id) /\ IsLast(resp)
         /\ response_queue' \in Seq(Response)
         /\ Len(response_queue') <= RespCapacity
         /\ Ordered(response_queue')
         /\ Elements(response_queue') \subseteq Elements(response_queue)
         /\ \A r : InRing(r) = InRing(r)' \cup
                                 IF resp.id = r THEN {resp.index} ELSE {}
         /\ \A i \in InRing(resp.id)' : resp.index < i
<1> USE DEF IInv
<1>1. response_queue \in Seq(Response) /\ Len(response_queue) <= RespCapacity
  BY DEF TypeOK
<1>2. /\ resp \in Response /\ response_queue' \in Seq(Response)
      /\ Len(response_queue) \in Nat
      /\ Len(response_queue') = Len(response_queue) - 1
      /\ Elements(response_queue) = {resp} \cup Elements(response_queue')
  BY <1>1, TailElements
<1>3. /\ resp.id \in Requests /\ resp.index \in Nat
      /\ resp.index \in InRing(resp.id)
  BY <1>1, <1>2, ElementsType DEF InRing
<1>4. IsLast(resp)
  BY <1>2 DEF TokensMade
<1>5. \A r : InRing(r) = InRing(r)' \cup
                           IF resp.id = r THEN {resp.index} ELSE {}
  BY <1>1, TokensOfTail DEF InRing
<1>6. /\ Ordered(response_queue')
      /\ \A i \in InRing(resp.id)' : resp.index < i
  BY <1>1, OrderedTail DEF InOrder, InRing
<1>7. Len(response_queue') <= RespCapacity
  BY <1>1, <1>2, CapacityAssumption
<1> QED
  BY <1>2, <1>3, <1>4, <1>5, <1>6, <1>7

(* A coroutine puts a response aside for another one. *)
LEMMA PollOtherStep ==
  ASSUME IInv, NEW r \in Requests, PollOther(r)
  PROVE  IInv'
<1> USE DEF IInv
<1>1. PICK resp :
        /\ resp = Head(response_queue) /\ resp.id # r
        /\ response_queue # << >> /\ response_queue' = Tail(response_queue)
        /\ pending' = [pending EXCEPT ![resp.id] = Append(@, resp)]
  BY DEF PollOther, Poll
<1>2. /\ coro[r] = "wait" /\ coro'[r] \in {"wait", "timeout"}
      /\ coro' \in [Requests -> {"new", "submit", "wait"} \cup Ended]
      /\ \A p \in Requests \ {r} : coro'[p] = coro[p]
      /\ pinned' \in {pinned, pinned \ {r}}
      /\ coro'[r] = "wait" => pinned' = pinned
      /\ UNCHANGED <<max_tokens, delivered, lost, workerVars, request_queue>>
  BY DEF PollOther, Poll, InLoop, End, TypeOK, Ended
<1> DEFINE q == resp.id
           i == resp.index
<1>3. /\ resp \in Response /\ q \in Requests /\ i \in Nat
      /\ i \in InRing(q) /\ IsLast(resp)
      /\ response_queue' \in Seq(Response)
      /\ Len(response_queue') <= RespCapacity
      /\ Ordered(response_queue')
      /\ Elements(response_queue') \subseteq Elements(response_queue)
      /\ \A p : InRing(p) = InRing(p)' \cup IF q = p THEN {i} ELSE {}
      /\ \A j \in InRing(q)' : i < j
  BY <1>1, Popped
<1>4. /\ pending[q] \in Seq(Response)
      /\ Append(pending[q], resp) \in Seq(Response)
      /\ Elements(Append(pending[q], resp)) = Elements(pending[q]) \cup {resp}
      /\ TokensIn(Append(pending[q], resp), q) = Aside(q) \cup {i}
      /\ pending'[q] = Append(pending[q], resp)
      /\ \A p \in Requests \ {q} : pending'[p] = pending[p]
  <2>1. pending \in [Requests -> Seq(Response)]
    BY DEF TypeOK
  <2>2. pending[q] \in Seq(Response)
    BY <1>3, <2>1
  <2>3. /\ Append(pending[q], resp) \in Seq(Response)
        /\ Elements(Append(pending[q], resp)) =
             Elements(pending[q]) \cup {resp}
    BY <1>3, <2>2, AppendElements
  <2>4. TokensIn(Append(pending[q], resp), q) = Aside(q) \cup {i}
    BY <1>3, <2>2, TokensAppended DEF Aside
  <2>5. /\ pending'[q] = Append(pending[q], resp)
        /\ \A p \in Requests \ {q} : pending'[p] = pending[p]
    BY <1>1, <1>3, <2>1
  <2> QED
    BY <2>2, <2>3, <2>4, <2>5
<1>5. \A p \in Requests :
        /\ Sent(p)' = Sent(p)
        /\ Aside(p)' = Aside(p) \cup IF p = q THEN {i} ELSE {}
        /\ Queued(p)' <=> Queued(p)
  BY <1>2, <1>4 DEF Sent, Aside, Queued
<1> HIDE DEF q, i
<1>6. \A p \in Requests : Tokens(p)' = Tokens(p)
  BY <1>3, <1>5 DEF Tokens
<1>7. TypeOK'
  <2>1. pending' \in [Requests -> Seq(Response)]
    BY <1>1, <1>4 DEF TypeOK
  <2> QED
    BY <1>2, <1>3, <2>1 DEF TypeOK, workerVars
<1>8. CoroutinesOK'
  BY <1>2 DEF CoroutinesOK
<1>9. RequestsOK'
  BY <1>2, QueuedIds DEF RequestsOK, UnderWay
<1>10. WorkerOK'
  BY <1>2, <1>5 DEF WorkerOK, Working, UnderWay, Request, TypeOK, workerVars
<1>11. TokensMade'
  <2>1. \A p \in Requests : \A j : Made(p, j) => Made(p, j)'
    BY <1>2, <1>5 DEF Made, TypeOK, workerVars
  <2>2. \A p \in Requests : \A x \in Elements(pending'[p]) :
          x.id = p /\ IsLast(x)'
    <3>1. ASSUME NEW p \in Requests, NEW x \in Elements(pending'[p])
          PROVE  x.id = p /\ IsLast(x)
      <4>1. CASE p # q
        BY <1>4, <3>1, <4>1 DEF TokensMade
      <4>2. CASE p = q
        <5>1. x \in Elements(pending[q]) \/ x = resp
          BY <1>4, <3>1, <4>2
        <5>2. resp.id = q
          BY DEF q
        <5> QED
          BY <1>3, <4>2, <5>1, <5>2 DEF TokensMade
      <4> QED
        BY <4>1, <4>2
    <3> QED
      BY <1>2, <3>1 DEF IsLast
  <2> QED
    BY <1>2, <1>3, <1>6, <2>1, <2>2 DEF TokensMade, IsLast
<1>12. InOrder'
  <2>1. Ordered(pending'[q])
    <3>1. \A j \in TokensIn(pending[q], q) : j < i
      BY <1>3 DEF InOrder, Below, Aside
    <3> QED
      BY <1>3, <1>4, <3>1, OrderedAppended DEF InOrder, q, i
  <2>2. \A p \in Requests : /\ Below(Sent(p)', Aside(p)')
                            /\ Below(Sent(p)' \cup Aside(p)', InRing(p)')
    BY <1>3, <1>5 DEF InOrder, Below
  <2>3. \A p \in Requests : Ordered(pending'[p])
    BY <1>4, <2>1 DEF InOrder
  <2> QED
    BY <1>2, <1>3, <1>6, <2>2, <2>3 DEF InOrder
<1>13. Whole'
  BY <1>2, <1>5, <1>6 DEF Whole, workerVars
<1>14. NothingLeft'
  BY <1>2, <1>3, <1>4, <1>5 DEF NothingLeft, workerVars
<1> QED
  BY <1>7, <1>8, <1>9, <1>10, <1>11, <1>12, <1>13, <1>14

(* A response that cannot be decoded is lost, and whoever polled it fails. *)
LEMMA PollFailsStep ==
  ASSUME IInv, NEW r \in Requests, PollFails(r)
  PROVE  IInv'
<1> USE DEF IInv
<1>1. PICK resp :
        /\ resp = Head(response_queue)
        /\ response_queue # << >> /\ response_queue' = Tail(response_queue)
        /\ lost' = lost \cup {<<resp.id, resp.index>>}
  BY DEF PollFails, PollRaises
<1>2. /\ coro[r] = "wait" /\ coro' = [coro EXCEPT ![r] = "error"]
      /\ coro' \in [Requests -> {"new", "submit", "wait"} \cup Ended]
      /\ pinned' = pinned \ {r}
      /\ UNCHANGED <<max_tokens, delivered, pending, workerVars, request_queue>>
  BY DEF PollFails, PollRaises, InLoop, End, TypeOK, Ended
<1> DEFINE q == resp.id
           i == resp.index
<1>3. /\ resp \in Response /\ q \in Requests /\ i \in Nat
      /\ i \in InRing(q) /\ IsLast(resp)
      /\ response_queue' \in Seq(Response)
      /\ Len(response_queue') <= RespCapacity
      /\ Ordered(response_queue')
      /\ Elements(response_queue') \subseteq Elements(response_queue)
      /\ \A p : InRing(p) = InRing(p)' \cup IF q = p THEN {i} ELSE {}
      /\ \A j \in InRing(q)' : i < j
  BY <1>1, Popped
<1>4. lost' = lost \cup {<<q, i>>}
  BY <1>1
<1> HIDE DEF q, i
<1>5. \A p \in Requests : /\ Sent(p)' = Sent(p) /\ Aside(p)' = Aside(p)
                          /\ Queued(p)' <=> Queued(p)
  BY <1>2 DEF Sent, Aside, Queued
<1>6. /\ \A p \in Requests : Tokens(p)' \subseteq Tokens(p)
      /\ \A p \in Requests : \A j \in Tokens(p) : j \in Tokens(p)' \/ (p = q /\ j = i)
      /\ i \in Tokens(q)
  BY <1>3, <1>5 DEF Tokens
<1>7. i \notin Tokens(q)'
  <2>1. i \notin InRing(q)'
    BY <1>3
  <2>2. i \notin Sent(q) \cup Aside(q)
    BY <1>3 DEF InOrder, Below
  <2> QED
    BY <1>3, <1>5, <2>1, <2>2 DEF Tokens
<1>8. TypeOK'
  BY <1>2, <1>3, <1>4 DEF TypeOK, workerVars
<1>9. CoroutinesOK'
  BY <1>2 DEF CoroutinesOK, TypeOK
<1>10. RequestsOK'
  BY <1>2, QueuedIds DEF RequestsOK, UnderWay, TypeOK
<1>11. WorkerOK'
  BY <1>2, <1>5 DEF WorkerOK, Working, UnderWay, Request, TypeOK, workerVars
<1>12. TokensMade'
  <2>1. \A p \in Requests : \A j : Made(p, j) => Made(p, j)'
    BY <1>2, <1>5 DEF Made, TypeOK, workerVars
  <2> QED
    BY <1>2, <1>3, <1>4, <1>6, <2>1 DEF TokensMade, IsLast
<1>13. InOrder'
  BY <1>2, <1>3, <1>4, <1>5, <1>6, <1>7 DEF InOrder, Below
<1>14. Whole'
  BY <1>2, <1>4, <1>5, <1>6 DEF Whole, TypeOK, workerVars
<1>15. NothingLeft'
  BY <1>2, <1>3, <1>5 DEF NothingLeft, TypeOK, workerVars
<1> QED
  BY <1>8, <1>9, <1>10, <1>11, <1>12, <1>13, <1>14, <1>15

-----------------------------------------------------------------------------
(* A coroutine accepts the next response of its own, from what is pending  *)
(* or from the ring; all but that token stays where it is.  The client is  *)
(* sent the next token of its stream.                                      *)
LEMMA AcceptStep ==
  ASSUME IInv, NEW r \in Requests, NEW resp \in Response, NEW rest,
         coro[r] = "wait", resp.id = r, IsLast(resp),
         resp.index \in Aside(r) \cup InRing(r), \A i \in Sent(r) : i < resp.index,
         rest \in Seq(Response), Ordered(rest),
         Elements(rest) \subseteq Elements(pending[r]),
         request_queue' = request_queue,
         response_queue' \in Seq(Response), Len(response_queue') <= RespCapacity,
         Ordered(response_queue'),
         Elements(response_queue') \subseteq Elements(response_queue),
         \A q : q # r => InRing(q)' = InRing(q),
         Aside(r) \cup InRing(r) =
           {resp.index} \cup TokensIn(rest, r) \cup InRing(r)',
         TokensIn(rest, r) \subseteq Aside(r), InRing(r)' \subseteq InRing(r),
         \A i \in TokensIn(rest, r) \cup InRing(r)' : resp.index < i,
         Accept(r, resp, rest)
  PROVE  IInv' /\ Service!Deliver(r)
<1> USE DEF IInv
<1> DEFINE i == resp.index
           last == resp.is_finished
<1>1. /\ i \in Nat /\ i < max_tokens[r] /\ max_tokens[r] \in Nat
      /\ ~ Queued(r) /\ (req.id = r => i < tok)
      /\ <<r, i>> \notin lost
  <2>1. i \in Nat /\ i \in Tokens(r)
    BY DEF Response, Tokens
  <2>2. max_tokens[r] \in Nat
    BY ServerAssumption DEF TypeOK
  <2>3. Made(r, i) /\ <<r, i>> \notin lost
    BY <2>1 DEF TokensMade, InOrder
  <2> QED
    BY <2>1, <2>2, <2>3 DEF Made
<1>2. /\ Len(delivered[r]) \in Nat /\ Len(delivered[r]) <= i
      /\ Increasing(Append(delivered[r], i)) /\ Spread(Append(delivered[r], i))
      /\ Append(delivered[r], i) \in Seq(Nat)
      /\ Elements(Append(delivered[r], i)) = Sent(r) \cup {i}
  <2>1. delivered[r] \in Seq(Nat)
    BY DEF TypeOK
  <2>2. Increasing(delivered[r]) /\ Spread(delivered[r])
    BY DEF InOrder
  <2>3. \A j \in Elements(delivered[r]) : j < i
    BY DEF Sent
  <2> HIDE DEF i
  <2>4. /\ Len(delivered[r]) \in Nat /\ Len(delivered[r]) <= i
        /\ Increasing(Append(delivered[r], i)) /\ Spread(Append(delivered[r], i))
    BY <1>1, <2>1, <2>2, <2>3, TokenAppended
  <2>5. /\ Append(delivered[r], i) \in Seq(Nat)
        /\ Elements(Append(delivered[r], i)) = Sent(r) \cup {i}
    BY <1>1, <2>1, AppendElements DEF Sent
  <2> QED
    BY <2>4, <2>5
<1>3. last <=> i = max_tokens[r] - 1
  BY DEF IsLast
<1>4. /\ delivered' = [delivered EXCEPT ![r] = Append(delivered[r], i)]
      /\ coro' = IF last THEN [coro EXCEPT ![r] = "finished"] ELSE coro
      /\ pinned' = IF last THEN pinned \ {r} ELSE pinned
      /\ pending' = [pending EXCEPT ![r] = IF last THEN << >> ELSE rest]
      /\ UNCHANGED <<max_tokens, lost, workerVars, request_queue>>
  <2>1. Len(delivered[r]) < max_tokens[r]
    BY <1>1, <1>2
  <2> QED
    BY <2>1 DEF Accept, End
<1> DEFINE kept == TokensIn(rest, r)
<1>5. kept \in SUBSET Nat /\ InRing(r) \in SUBSET Nat
  BY TokensType DEF InRing, TypeOK
<1>6. last => kept = {} /\ InRing(r)' = {} /\ req.id # r
  <2>1. ASSUME last, NEW j \in kept \cup InRing(r)' PROVE FALSE
    <3>1. Made(r, j) /\ j \in Nat
      BY <1>5, <2>1 DEF TokensMade, Tokens
    <3> QED
      BY <1>1, <1>3, <2>1, <3>1 DEF Made
  <2>2. ASSUME last, req.id = r PROVE FALSE
    <3>1. tok < max_tokens[r] /\ tok \in Nat
      BY <2>2, WorkerAssumption DEF WorkerOK, Idle, TypeOK
    <3> QED
      BY <1>1, <1>3, <2>2, <3>1
  <2> QED
    BY <2>1, <2>2
<1>7. /\ Sent(r)' = Sent(r) \cup {i} /\ Aside(r)' = kept
      /\ \A q \in Requests \ {r} : /\ Sent(q)' = Sent(q) /\ Aside(q)' = Aside(q)
                                   /\ InRing(q)' = InRing(q)
      /\ \A q \in Requests : Queued(q)' <=> Queued(q)
  BY <1>2, <1>4, <1>6, EmptyElements DEF Sent, Aside, Queued, TypeOK
<1> HIDE DEF i, last, kept
<1>8. \A q \in Requests : Tokens(q)' = Tokens(q)
  BY <1>7 DEF Tokens, kept, i
<1>9. TypeOK'
  <2>1. /\ delivered' \in [Requests -> Seq(Nat)]
        /\ coro' \in [Requests -> {"new", "submit", "wait"} \cup Ended]
        /\ pinned' \subseteq Requests
    BY <1>2, <1>4 DEF TypeOK, Ended
  <2>2. pending' \in [Requests -> Seq(Response)]
    BY <1>4, EmptySeq DEF TypeOK
  <2> QED
    BY <1>4, <2>1, <2>2 DEF TypeOK, workerVars
<1>10. CoroutinesOK'
  BY <1>4 DEF CoroutinesOK, TypeOK
<1>11. RequestsOK'
  BY <1>1, <1>4, QueuedIds DEF RequestsOK, Queued, TypeOK
<1>12. WorkerOK'
  BY <1>4, <1>6, <1>7 DEF WorkerOK, Working, Request, TypeOK, workerVars
<1>13. TokensMade'
  <2>1. \A q \in Requests : \A j : Made(q, j) => Made(q, j)'
    BY <1>4, <1>7 DEF Made, TypeOK, workerVars
  <2>2. \A q \in Requests : Elements(pending'[q]) \subseteq Elements(pending[q])
    BY <1>4, EmptyElements DEF TypeOK
  <2>3. \A x : IsLast(x)' <=> IsLast(x)
    BY <1>4 DEF IsLast
  <2>4. \A q \in Requests : \A j \in Tokens(q)' : Made(q, j)'
    BY <1>8, <2>1 DEF TokensMade
  <2>5. \A q \in Requests, j \in Nat : <<q, j>> \in lost' => Made(q, j)'
    BY <1>4, <2>1 DEF TokensMade
  <2>6. /\ \A x \in Elements(response_queue') : IsLast(x)'
        /\ \A q \in Requests : \A x \in Elements(pending'[q]) :
             x.id = q /\ IsLast(x)'
    BY <2>2, <2>3 DEF TokensMade
  <2> QED
    BY <2>4, <2>5, <2>6 DEF TokensMade
<1>14. InOrder'
  <2>1. \A q \in Requests : /\ Increasing(delivered'[q]) /\ Spread(delivered'[q])
                            /\ Ordered(pending'[q])
    BY <1>2, <1>4, EmptyOrdered DEF InOrder, TypeOK
  <2>2. /\ Below(Sent(r)', Aside(r)')
        /\ Below(Sent(r)' \cup Aside(r)', InRing(r)')
    BY <1>7 DEF InOrder, Below, kept, i
  <2>3. \A q \in Requests \ {r} :
          /\ Below(Sent(q)', Aside(q)')
          /\ Below(Sent(q)' \cup Aside(q)', InRing(q)')
    BY <1>7 DEF InOrder
  <2> QED
    BY <1>4, <1>8, <2>1, <2>2, <2>3 DEF InOrder
<1>15. Whole'
  BY <1>4, <1>7, <1>8 DEF Whole, TypeOK, workerVars
<1>16. NothingLeft'
  BY <1>1, <1>4, <1>6, <1>7 DEF NothingLeft, TypeOK, workerVars
<1>17. Service!IsNext(r, i)
  <2>1. ASSUME NEW j \in 0 .. i - 1
        PROVE  j \in Sent(r) \/ <<r, j>> \in lost
    <3>1. /\ j \in Nat /\ j < i
          /\ j < max_tokens[r] /\ (req.id = r => j < tok)
      <4>1. tok \in Nat
        BY DEF TypeOK
      <4> QED
        BY <1>1, <2>1, <4>1
    <3>2. j \in Tokens(r) \/ <<r, j>> \in lost
      BY <1>1, <3>1 DEF Whole
    <3>3. j \notin Aside(r) \cup InRing(r)
      <4>1. \A k \in kept \cup InRing(r)' : i < k
        BY DEF i, kept
      <4>2. i \in Nat /\ j # i /\ ~ (i < j)
        BY <1>1, <3>1
      <4>3. Aside(r) \cup InRing(r) = {i} \cup kept \cup InRing(r)'
        BY DEF i, kept
      <4> QED
        BY <4>1, <4>2, <4>3, Zenon
    <3> QED
      BY <3>2, <3>3 DEF Tokens
  <2>2. i \notin Sent(r)
    BY <1>1 DEF i
  <2> QED
    BY <1>1, <2>1, <2>2, SentOfService DEF Service!IsNext
<1>18. Service!Deliver(r)
  <2>1. /\ Statuses[r] = "accepted"
        /\ Statuses' = [Statuses EXCEPT ![r] =
                          IF i = max_tokens[r] - 1 THEN "finished" ELSE @]
    <3>1. Status(r) = "accepted"
      BY DEF Status
    <3>2. Status(r)' = IF last THEN "finished" ELSE Status(r)
      BY <1>4 DEF Status, TypeOK
    <3>3. \A q \in Requests \ {r} : coro'[q] = coro[q]
      BY <1>4 DEF TypeOK
    <3> QED
      BY <1>3, <3>1, <3>2, <3>3, StatusChanges DEF Statuses
  <2>2. i \in 0 .. MaxSeqLen - 1
    BY <1>1, ServerAssumption DEF TypeOK
  <2> QED
    BY <1>4, <1>17, <2>1, <2>2 DEF Service!Deliver, Statuses
<1> QED
  BY <1>9, <1>10, <1>11, <1>12, <1>13, <1>14, <1>15, <1>16, <1>18

LEMMA TakePendingStep ==
  ASSUME IInv, NEW r \in Requests, TakePending(r)
  PROVE  IInv' /\ Service!Deliver(r)
<1> DEFINE s == pending[r]
           resp == Head(s)
           rest == Tail(s)
<1>1. /\ coro[r] = "wait" /\ s # << >> /\ s \in Seq(Response)
      /\ Accept(r, resp, rest)
      /\ request_queue' = request_queue /\ response_queue' = response_queue
  BY DEF TakePending, InLoop, queueVars, IInv, TypeOK
<1>2. /\ resp \in Response /\ rest \in Seq(Response)
      /\ Elements(s) = {resp} \cup Elements(rest)
  BY <1>1, TailElements
<1>3. resp.id = r /\ IsLast(resp)
  BY <1>2 DEF IInv, TokensMade
<1>4. Aside(r) = TokensIn(rest, r) \cup {resp.index}
  BY <1>1, <1>3, TokensOfTail DEF Aside
<1>5. /\ Ordered(rest)
      /\ \A i \in TokensIn(rest, r) : resp.index < i
  BY <1>1, <1>3, OrderedTail DEF IInv, InOrder
<1>6. \A q : InRing(q)' = InRing(q)
  BY <1>1 DEF InRing
<1>7. /\ \A i \in Sent(r) : i < resp.index
      /\ \A i \in InRing(r) : resp.index < i
  BY <1>4 DEF IInv, InOrder, Below
<1>8. /\ response_queue \in Seq(Response) /\ Len(response_queue) <= RespCapacity
      /\ Ordered(response_queue)
  BY DEF IInv, TypeOK, InOrder
<1> HIDE DEF s, resp, rest
<1> QED
  BY <1>1, <1>2, <1>3, <1>4, <1>5, <1>6, <1>7, <1>8, AcceptStep DEF s

LEMMA PollOwnStep ==
  ASSUME IInv, NEW r \in Requests, PollOwn(r)
  PROVE  IInv' /\ Service!Deliver(r)
<1>1. PICK resp :
        /\ resp = Head(response_queue) /\ resp.id = r
        /\ response_queue # << >> /\ response_queue' = Tail(response_queue)
        /\ request_queue' = request_queue
        /\ Accept(r, resp, << >>)
        /\ coro[r] = "wait" /\ pending[r] = << >>
  BY DEF PollOwn, Poll, InLoop
<1>2. /\ resp \in Response /\ resp.index \in InRing(r) /\ IsLast(resp)
      /\ response_queue' \in Seq(Response)
      /\ Len(response_queue') <= RespCapacity
      /\ Ordered(response_queue')
      /\ Elements(response_queue') \subseteq Elements(response_queue)
      /\ \A q : InRing(q) = InRing(q)' \cup IF r = q THEN {resp.index} ELSE {}
      /\ \A i \in InRing(r)' : resp.index < i
  BY <1>1, Popped
<1>3. \A i \in Sent(r) : i < resp.index
  BY <1>2 DEF IInv, InOrder, Below
<1>4. /\ << >> \in Seq(Response) /\ Ordered(<< >>)
      /\ TokensIn(<< >>, r) = {} /\ Elements(<< >>) = {} /\ Aside(r) = {}
  BY <1>1, EmptySeq, EmptyOrdered, EmptyElements DEF Aside
<1> QED
  BY <1>1, <1>2, <1>3, <1>4, AcceptStep

-----------------------------------------------------------------------------
(* The worker looks around, or launches; or somebody tells it to stop. *)
LEMMA QuietStep ==
  ASSUME IInv,
         UNCHANGED <<serverVars, queueVars, req, tok>>,
         stop' \in BOOLEAN,
         wpc' \in {"check", "fetch", "launch", "push", "exited", "terminated"},
         Working' <=> Working
  PROVE  IInv'
<1> USE DEF IInv
<1>1. \A r \in Requests :
        /\ Sent(r)' = Sent(r) /\ Aside(r)' = Aside(r) /\ InRing(r)' = InRing(r)
        /\ Tokens(r)' = Tokens(r)
        /\ Queued(r)' <=> Queued(r)
  BY DEF Tokens, Sent, Aside, InRing, Queued, serverVars, queueVars
<1>2. TypeOK' /\ CoroutinesOK' /\ RequestsOK' /\ WorkerOK'
  BY <1>1 DEF TypeOK, CoroutinesOK, RequestsOK, WorkerOK, Queued, serverVars,
              queueVars
<1>3. TokensMade' /\ InOrder' /\ Whole' /\ NothingLeft'
  BY <1>1 DEF TokensMade, Made, IsLast, InOrder, Whole, NothingLeft,
              serverVars, queueVars
<1> QED
  BY <1>2, <1>3

(* The worker takes a request; of none of its tokens is there any yet. *)
LEMMA FetchStep ==
  ASSUME IInv, Fetch, UNCHANGED serverVars
  PROVE  IInv'
<1> USE DEF IInv
<1>1. /\ wpc = "fetch" /\ tok' = 0
      /\ request_queue # << >> /\ request_queue' = Tail(request_queue)
      /\ req' = Head(request_queue)
      /\ wpc' = IF 0 < req'.max_tokens THEN "launch" ELSE "check"
      /\ UNCHANGED <<stop, response_queue>>
  BY DEF Fetch, FetchRequest
<1>2. UNCHANGED <<coro, max_tokens, delivered, pinned, pending, lost>>
  BY DEF serverVars
<1>3. /\ request_queue' \in Seq(Request)
      /\ Len(request_queue') < Len(request_queue)
      /\ req' \in Request
      /\ \E k \in DOMAIN request_queue : request_queue[k] = req'
      /\ \A r : Queued(r)' <=> Queued(r) /\ r # req'.id
      /\ \A k \in DOMAIN request_queue' :
           k + 1 \in DOMAIN request_queue /\ request_queue'[k] = request_queue[k + 1]
  BY <1>1, Fetched DEF TypeOK
<1>4. /\ req'.id \in Requests /\ req'.max_tokens = max_tokens[req'.id]
      /\ coro[req'.id] \in UnderWay /\ Queued(req'.id)
      /\ req'.max_tokens >= 1 /\ req'.max_tokens \in Nat
  BY <1>3 DEF RequestsOK, CoroutinesOK, UnderWay, Queued, Request
<1>5. req = Idle /\ \A r \in Requests : req.id # r
  BY <1>1, WorkerAssumption DEF WorkerOK, Working, Idle
<1>6. \A r \in Requests :
        /\ Sent(r)' = Sent(r) /\ Aside(r)' = Aside(r) /\ InRing(r)' = InRing(r)
        /\ Tokens(r)' = Tokens(r)
  BY <1>1, <1>2 DEF Tokens, Sent, Aside, InRing
<1>7. wpc' = "launch"
  BY <1>1, <1>4
<1>8. TypeOK'
  <2>1. Len(request_queue') <= ReqCapacity
    BY <1>3, CapacityAssumption, LenProperties DEF TypeOK
  <2> QED
    BY <1>1, <1>2, <1>3, <1>7, <2>1 DEF TypeOK
<1>9. CoroutinesOK'
  BY <1>2 DEF CoroutinesOK
<1>10. RequestsOK'
  <2>1. \A j, k \in DOMAIN request_queue' : j + 1 = k + 1 => j = k
    <3>1. DOMAIN request_queue' = 1 .. Len(request_queue') /\ Len(request_queue') \in Nat
      BY <1>3, LenProperties
    <3> QED
      BY <3>1
  <2> QED
    BY <1>2, <1>3, <2>1 DEF RequestsOK
<1>11. WorkerOK'
  BY <1>1, <1>2, <1>3, <1>4, <1>7 DEF WorkerOK, Working
<1>12. TokensMade'
  <2>1. \A r \in Requests : \A i : Made(r, i) => Made(r, i)'
    BY <1>2, <1>3, <1>4 DEF Made
  <2> QED
    BY <1>1, <1>2, <1>6, <2>1 DEF TokensMade, IsLast
<1>13. InOrder'
  BY <1>1, <1>2, <1>6 DEF InOrder
<1>14. Whole'
  <2>1. \A r \in Requests, i \in Nat :
          ~ Queued(r)' /\ (req'.id = r => i < tok') => ~ Queued(r)
    BY <1>1, <1>3
  <2> QED
    BY <1>2, <1>5, <1>6, <2>1 DEF Whole
<1>15. NothingLeft'
  BY <1>2, <1>3, <1>4, <1>6 DEF NothingLeft, UnderWay
<1> QED
  BY <1>8, <1>9, <1>10, <1>11, <1>12, <1>13, <1>14, <1>15

(* The worker pushes the next token of its request, perhaps the last. *)
LEMMA PushStep ==
  ASSUME IInv, Push, UNCHANGED serverVars
  PROVE  IInv'
<1> USE DEF IInv
<1>1. UNCHANGED <<coro, max_tokens, delivered, pinned, pending, lost>>
  BY DEF serverVars
<1>0. PICK q \in Requests, n \in Nat : q = req.id /\ n = tok
  BY DEF Push, WorkerOK, Working, TypeOK, Request
<1>2. /\ Working /\ req \in Request
      /\ req.max_tokens = max_tokens[q] /\ max_tokens[q] \in Nat
      /\ n < max_tokens[q]
      /\ coro[q] \in UnderWay /\ ~ Queued(q)
  BY <1>0, ServerAssumption DEF Push, WorkerOK, Working, TypeOK
<1>3. PICK decodable \in BOOLEAN :
        PushResponse([id |-> req.id, index |-> tok, decodable |-> decodable,
                      is_finished |-> tok = req.max_tokens - 1])
  BY DEF Push
<1>. PICK resp :
        resp = [id |-> req.id, index |-> tok, decodable |-> decodable,
                is_finished |-> tok = req.max_tokens - 1]
  OBVIOUS
<1>4. /\ resp \in Response /\ resp.id = q /\ resp.index = n /\ IsLast(resp)
      /\ Len(response_queue) < RespCapacity
      /\ response_queue' = Append(response_queue, resp)
      /\ request_queue' = request_queue
  BY <1>0, <1>2, <1>3 DEF PushResponse, Response, IsLast
<1>5. /\ tok' = n + 1 /\ stop' = stop
      /\ \/ tok' < max_tokens[q] /\ wpc' = "launch" /\ req' = req
         \/ tok' = max_tokens[q] /\ wpc' = "check" /\ req' = Idle
  BY <1>0, <1>2 DEF Push
<1>6. /\ response_queue' \in Seq(Response)
      /\ Len(response_queue') = Len(response_queue) + 1
      /\ Elements(response_queue') = Elements(response_queue) \cup {resp}
      /\ \A r \in Requests :
           InRing(r)' = InRing(r) \cup IF r = q THEN {n} ELSE {}
  BY <1>4, AppendElements, TokensAppended DEF TypeOK, InRing
<1>7. \A r \in Requests :
        /\ Sent(r)' = Sent(r) /\ Aside(r)' = Aside(r)
        /\ Tokens(r)' = Tokens(r) \cup IF r = q THEN {n} ELSE {}
        /\ Queued(r)' <=> Queued(r)
  BY <1>1, <1>4, <1>6 DEF Tokens, Sent, Aside, Queued
<1>8. /\ \A i \in Tokens(q) : i < n
      /\ <<q, n>> \notin lost
  BY <1>0, <1>2 DEF TokensMade, Made
<1>9. \A r \in Requests : r # q => req.id # r /\ req'.id # r
  BY <1>0, <1>5, WorkerAssumption DEF Idle
<1>10. TypeOK'
  <2>1. Len(response_queue') <= RespCapacity
    BY <1>4, <1>6, CapacityAssumption, LenProperties DEF TypeOK
  <2> QED
    BY <1>1, <1>2, <1>4, <1>5, <1>6, <2>1 DEF TypeOK
<1>11. CoroutinesOK' /\ RequestsOK'
  BY <1>1, <1>4 DEF CoroutinesOK, RequestsOK
<1>12. WorkerOK'
  BY <1>0, <1>1, <1>2, <1>5, <1>7 DEF WorkerOK, Working
<1>13. TokensMade'
  <2>1. \A r \in Requests, i \in Nat : Made(r, i) => Made(r, i)'
    <3>1. ASSUME NEW r \in Requests, NEW i \in Nat, Made(r, i), req'.id = r
          PROVE  i < tok'
      <4>1. r = q
        BY <1>9, <3>1
      <4>2. i < n
        BY <1>0, <3>1, <4>1 DEF Made
      <4> QED
        BY <1>5, <4>2
    <3> QED
      BY <1>1, <1>7, <3>1 DEF Made
  <2>2. Made(q, n)'
    BY <1>1, <1>2, <1>5, <1>7 DEF Made, UnderWay
  <2>3. \A x : IsLast(x)' <=> IsLast(x)
    BY <1>1 DEF IsLast
  <2>4. \A r \in Requests : \A i \in Tokens(r)' : Made(r, i)'
    BY <1>7, <2>1, <2>2, TokensAreNumbers DEF TokensMade
  <2> QED
    BY <1>1, <1>4, <1>6, <2>1, <2>3, <2>4 DEF TokensMade
<1>14. InOrder'
  <2>1. Ordered(response_queue')
    <3>1. \A i \in TokensIn(response_queue, resp.id) : i < resp.index
      BY <1>2, <1>4, <1>8 DEF Tokens, InRing
    <3> QED
      BY <1>4, <3>1, OrderedAppended DEF InOrder, TypeOK
  <2>2. \A r \in Requests : Below(Sent(r)' \cup Aside(r)', InRing(r)')
    BY <1>6, <1>7, <1>8 DEF InOrder, Below, Tokens
  <2>3. \A r \in Requests : \A i \in Tokens(r)' : <<r, i>> \notin lost'
    BY <1>1, <1>7, <1>8 DEF InOrder
  <2> QED
    BY <1>1, <1>7, <2>1, <2>2, <2>3 DEF InOrder
<1>15. Whole'
  <2>1. ASSUME NEW i \in Nat, ~ Queued(q), i < max_tokens[q],
               req'.id = q => i < tok', i # n
        PROVE  i < n
    BY <1>0, <1>2, <1>5, <2>1
  <2> QED
    BY <1>0, <1>1, <1>7, <1>9, <2>1 DEF Whole
<1>16. NothingLeft'
  BY <1>1, <1>2, <1>6, <1>7, <1>9 DEF NothingLeft, UnderWay
<1> QED
  BY <1>10, <1>11, <1>12, <1>13, <1>14, <1>15, <1>16

LEMMA StepIInv == IInv /\ [Next]_vars => IInv'
<1> SUFFICES ASSUME IInv, [Next]_vars PROVE IInv'
  OBVIOUS
<1>1. ASSUME NEW r \in Requests,
             \/ Reject(r) \/ Start(r) \/ ValidationFails(r) \/ SubmitRequest(r)
             \/ Turn(r) \/ TimeOut(r) \/ Disconnect(r)
      PROVE  IInv'
  BY <1>1, BeforeTheLoop, SubmitStep, TakePendingStep, PollOwnStep,
     PollOtherStep, PollFailsStep, GiveUpStep DEF Turn
<1>2. CASE Worker
  <2>1. CASE CheckStop \/ FetchFindsNothing \/ Launch
    <3>1. /\ UNCHANGED <<serverVars, queueVars, req, tok, stop>>
          /\ wpc' \in {"check", "fetch", "launch", "push", "exited", "terminated"}
          /\ Working' <=> Working
      BY <1>2, <2>1 DEF Worker, CheckStop, FetchFindsNothing, Launch, Working
    <3> QED
      BY <3>1, QuietStep DEF IInv, TypeOK
  <2>2. CASE Fetch
    BY <1>2, <2>2, FetchStep DEF Worker
  <2>3. CASE Push
    BY <1>2, <2>3, PushStep DEF Worker
  <2> QED
    BY <1>2, <2>1, <2>2, <2>3 DEF Worker, WorkerStep
<1>3. CASE Shutdown \/ UNCHANGED vars
  <2>1. /\ UNCHANGED <<serverVars, queueVars, req, tok, wpc>>
        /\ stop' \in BOOLEAN
    BY <1>3 DEF Shutdown, Stop, vars, workerVars, queueVars, IInv, TypeOK
  <2> QED
    BY <2>1, QuietStep DEF IInv, TypeOK, Working
<1> QED
  BY <1>1, <1>2, <1>3 DEF Next

-----------------------------------------------------------------------------
(***************************************************************************)
(* What follows from the invariant.                                        *)
(***************************************************************************)

LEMMA StreamsWhole == IInv => StreamContinuity
<1> SUFFICES ASSUME IInv, NEW r \in Requests, coro[r] \in {"wait", "finished"}
             PROVE  /\ Increasing(delivered[r])
                    /\ Ordered(pending[r]) /\ Ordered(response_queue)
                    /\ Below(Sent(r), Aside(r))
                    /\ Below(Sent(r) \cup Aside(r), InRing(r))
                    /\ Tokens(r) \cup LostTokens(r) = 0 .. Produced(r) - 1
  BY DEF StreamContinuity, Sent, Aside, Tokens
<1> USE DEF IInv
<1>1. max_tokens[r] \in Nat /\ tok \in Nat
  BY ServerAssumption DEF TypeOK
<1>2. req.id = r => tok < max_tokens[r] /\ ~ Queued(r)
  BY WorkerAssumption DEF WorkerOK, Idle
<1>3. \A i \in Nat :
        i < Produced(r) <=>
          i < max_tokens[r] /\ ~ Queued(r) /\ (req.id = r => i < tok)
  <2>1. CASE Queued(r)
    <3>1. Produced(r) = 0
      BY <1>2, <2>1 DEF Produced
    <3> QED
      BY <2>1, <3>1
  <2>2. CASE ~ Queued(r) /\ req.id = r
    <3>1. Produced(r) = tok
      BY <2>2 DEF Produced
    <3> QED
      BY <1>1, <1>2, <2>2, <3>1
  <2>3. CASE ~ Queued(r) /\ req.id # r
    <3>1. Produced(r) = max_tokens[r]
      BY <2>3 DEF Produced
    <3> QED
      BY <2>3, <3>1
  <2> QED
    BY <2>1, <2>2, <2>3
<1>4. Produced(r) \in Nat
  BY <1>1, <1>2 DEF Produced
<1>5. \A i \in Nat : i \in 0 .. Produced(r) - 1 <=> i < Produced(r)
  BY <1>4
<1>6. Tokens(r) \cup LostTokens(r) \subseteq Nat
  BY <1>1, TokensAreNumbers DEF LostTokens
<1>7. \A i \in Nat : i \in LostTokens(r) <=> <<r, i>> \in lost
  BY <1>1 DEF LostTokens, TokensMade, Made
<1>8. \A i \in Nat : i \in Tokens(r) \/ <<r, i>> \in lost <=> i < Produced(r)
  BY <1>3 DEF TokensMade, Made, Whole
<1>9. 0 .. Produced(r) - 1 \subseteq Nat
  BY <1>4
<1>10. Tokens(r) \cup LostTokens(r) = 0 .. Produced(r) - 1
  BY <1>5, <1>6, <1>7, <1>8, <1>9
<1> QED
  BY <1>10 DEF InOrder

(* Where nothing is left, the stream of a finished request is what was sent*)
(* and what is lost, and the worker has produced all of it.                *)
LEMMA FinishedWhole ==
  ASSUME IInv, NEW r \in Requests, coro[r] = "finished"
  PROVE  Elements(delivered[r]) \cup LostTokens(r) = 0 .. max_tokens[r] - 1
<1>1. pending[r] = << >> /\ InRing(r) = {} /\ ~ Queued(r) /\ req.id # r
  BY DEF IInv, NothingLeft
<1>2. TokensIn(pending[r], r) = {} /\ Produced(r) = max_tokens[r]
  BY <1>1, EmptyElements DEF Produced
<1>3. Elements(delivered[r]) \cup TokensIn(pending[r], r) \cup InRing(r)
        \cup LostTokens(r) = 0 .. Produced(r) - 1
  BY StreamsWhole DEF StreamContinuity
<1> QED
  BY <1>1, <1>2, <1>3

LEMMA InputsPinned == IInv => InputPinnedUnlessGivenUp
<1> SUFFICES ASSUME IInv, NEW r \in Requests, Queued(r) \/ Prefilling(r)
             PROVE  r \in pinned \/ coro[r] \in {"aborted", "timeout", "error"}
  BY DEF InputPinnedUnlessGivenUp
<1>1. coro[r] \in UnderWay
  BY DEF IInv, RequestsOK, WorkerOK, Working, Queued, Prefilling
<1> QED
  BY <1>1 DEF IInv, CoroutinesOK, UnderWay

(* For requests, rings and prompts of any number and size, the inductive   *)
(* invariant of the server and its worker holds.                           *)
THEOREM Invariance == Spec => []IInv
<1>1. Init => IInv
  BY InitIInv
<1>2. IInv /\ [Next]_vars => IInv'
  BY StepIInv
<1> QED
  BY <1>1, <1>2, PTL DEF Spec

(* The variables of the server keep their types and the rings of the       *)
(* InferenceQueue stay within their capacity.                              *)
THEOREM TypeCorrect == Spec => []TypeOK
<1>1. IInv => TypeOK
  BY DEF IInv
<1> QED
  BY <1>1, Invariance, PTL

(* A client that waits, or whose stream ended well, is missing no token but*)
(* those a raising poll swallowed and sees none twice or out of order,     *)
(* whichever coroutines polled them (serve.py 114-129 and 198-211).        *)
THEOREM StreamsContinuous == Spec => []StreamContinuity
BY StreamsWhole, Invariance, PTL

(* A stream that ends well has sent every token asked for but those that a *)
(* raising poll swallowed, and leaves no response, no work and no tensor   *)
(* behind (serve.py 195-211 and 217-246).                                  *)
THEOREM FinishedClean == Spec => []FinishedLeavesNothing
<1>1. IInv => FinishedLeavesNothing
  BY FinishedWhole DEF IInv, FinishedLeavesNothing
<1> QED
  BY <1>1, Invariance, PTL

(* The worker reads the tensor of a request while it is pinned, unless the *)
(* request has been given up (serve.py 181 and 243-246).                   *)
THEOREM InputPinned == Spec => []InputPinnedUnlessGivenUp
BY InputsPinned, Invariance, PTL

-----------------------------------------------------------------------------
(***************************************************************************)
(* The server implements GenerationService: each of its steps is one of    *)
(* the service or changes nothing a client sees.                           *)
(***************************************************************************)

LEMMA InitRefines == Init => Service!Init
BY DEF Init, Service!Init, Status

LEMMA RejectRefines ==
  ASSUME TypeOK, NEW r \in Requests, Reject(r)
  PROVE  Service!Reject(r)
<1>1. Statuses[r] = "new"
  BY DEF Reject, Status, Statuses
<1>2. Statuses' = [Statuses EXCEPT ![r] = "rejected"]
  BY StatusChanges DEF Reject, Status, TypeOK
<1> QED
  BY <1>1, <1>2 DEF Reject, Service!Reject, Statuses

LEMMA StartRefines ==
  ASSUME TypeOK, NEW r \in Requests, Start(r)
  PROVE  Service!Accept(r)
<1>1. Statuses[r] = "new"
  BY DEF Start, Status, Statuses
<1>2. Statuses' = [Statuses EXCEPT ![r] = "accepted"]
  BY StatusChanges DEF Start, Status, TypeOK
<1>3. PICK len \in PromptLens[r], wanted \in MaxTokens :
        /\ len < MaxSeqLen
        /\ max_tokens' = [max_tokens EXCEPT ![r] =
                            Smaller(wanted, MaxSeqLen - len)]
  BY DEF Start
<1>4. Smaller(wanted, MaxSeqLen - len) \in 1 .. MaxSeqLen
  BY <1>3, ServerAssumption DEF Smaller
<1> QED
  BY <1>1, <1>2, <1>3, <1>4 DEF Start, Service!Accept, Statuses

(* A request is given up: by the server, by its client or by the clock. *)
LEMMA GiveUpRefines ==
  ASSUME TypeOK, NEW r \in Requests,
         coro[r] \in {"submit", "wait"},
         \E how \in {"error", "timeout", "aborted"} : End(r, how),
         UNCHANGED <<max_tokens, delivered, lost>>
  PROVE  Service!GiveUp(r)
<1>1. Statuses[r] = "accepted"
  BY DEF Status, Statuses
<1>2. Statuses' = [Statuses EXCEPT ![r] = "given up"]
  BY StatusChanges DEF End, Status, TypeOK
<1> QED
  BY <1>1, <1>2 DEF Service!GiveUp, Statuses

LEMMA PollFailsRefines ==
  ASSUME IInv, NEW r \in Requests, PollFails(r)
  PROVE  Service!FailOver(r)
<1>1. PICK resp :
        /\ resp = Head(response_queue)
        /\ response_queue # << >> /\ response_queue' = Tail(response_queue)
        /\ lost' = lost \cup {<<resp.id, resp.index>>}
  BY DEF PollFails, PollRaises
<1>2. /\ resp.id \in Requests /\ resp.index \in Nat
      /\ resp.index \in InRing(resp.id)
  BY <1>1, Popped
<1>3. resp.index \in 0 .. MaxSeqLen - 1
  <2>1. resp.index < max_tokens[resp.id]
    BY <1>2 DEF IInv, TokensMade, Tokens, Made
  <2> QED
    BY <1>2, <2>1, ServerAssumption DEF IInv, TypeOK
<1>4. ~ Service!Sent(resp.id, resp.index)
  <2>1. resp.index \notin Sent(resp.id)
    BY <1>2 DEF IInv, InOrder, Below
  <2> QED
    BY <1>2, <2>1, SentOfService
<1>5. Statuses[r] = "accepted"
  BY DEF PollFails, InLoop, Status, Statuses
<1>6. Statuses' = [Statuses EXCEPT ![r] = "given up"]
  BY StatusChanges DEF PollFails, End, Status, IInv, TypeOK
<1> QED
  BY <1>1, <1>2, <1>3, <1>4, <1>5, <1>6
     DEF PollFails, Service!FailOver, Statuses

(* What no client sees. *)
LEMMA StutterRefines ==
  ASSUME UNCHANGED <<max_tokens, delivered, lost>>,
         \A r \in Requests : Status(r)' = Status(r)
  PROVE  UNCHANGED Service!vars
<1>1. Statuses' = Statuses
  BY DEF Statuses
<1> QED
  BY <1>1 DEF Service!vars, Statuses

LEMMA StepRefines ==
  ASSUME IInv, [Next]_vars
  PROVE  [Service!Next]_(Service!vars)
<1>1. TypeOK
  BY DEF IInv
<1>2. ASSUME NEW r \in Requests, Reject(r) \/ Start(r)
      PROVE  Service!Next
  BY <1>1, <1>2, RejectRefines, StartRefines DEF Service!Next
<1>3. ASSUME NEW r \in Requests,
             ValidationFails(r) \/ TimeOut(r) \/ Disconnect(r)
      PROVE  Service!Next
  BY <1>1, <1>3, GiveUpRefines
     DEF ValidationFails, TimeOut, Disconnect, InLoop, Service!Next
<1>4. ASSUME NEW r \in Requests, SubmitRequest(r)
      PROVE  UNCHANGED Service!vars
  BY <1>1, <1>4, StutterRefines DEF SubmitRequest, Status, TypeOK
<1>5. ASSUME NEW r \in Requests, TakePending(r) \/ PollOwn(r) \/ PollFails(r)
      PROVE  Service!Next
  BY <1>5, TakePendingStep, PollOwnStep, PollFailsRefines DEF Service!Next
<1>6. ASSUME NEW r \in Requests, PollOther(r)
      PROVE  Service!Next \/ UNCHANGED Service!vars
  <2>1. coro[r] = "wait" /\ UNCHANGED <<max_tokens, delivered, lost>>
    BY <1>6 DEF PollOther, InLoop
  <2>2. CASE End(r, "timeout")
    BY <1>1, <2>1, <2>2, GiveUpRefines DEF Service!Next
  <2>3. CASE UNCHANGED coro
    BY <2>1, <2>3, StutterRefines DEF Status
  <2> QED
    BY <1>6, <2>2, <2>3 DEF PollOther
<1>7. CASE Worker \/ Shutdown \/ UNCHANGED vars
  BY <1>7, StutterRefines DEF Worker, Shutdown, vars, serverVars, Status
<1> QED
  BY <1>2, <1>3, <1>4, <1>5, <1>6, <1>7 DEF Next, Turn

(* To its clients the server is a GenerationService: tokens in order, each *)
(* once, streams whole when they finish, nothing after the end, and one    *)
(* failed request for every token that a raising poll swallows (serve.py   *)
(* 193-246).                                                               *)
THEOREM Implements == Spec => ImplementsService
<1>1. Init => Service!Init
  BY InitRefines
<1>2. IInv /\ [Next]_vars => [Service!Next]_(Service!vars)
  BY StepRefines
<1> QED
  BY <1>1, <1>2, Invariance, PTL DEF Spec, ImplementsService, Service!Spec

=============================================================================
