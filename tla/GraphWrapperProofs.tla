------------------------- MODULE GraphWrapperProofs -------------------------
(***************************************************************************)
(* For any threads, streams and shapes, and pools of any size: no KV block *)
(* is lost or used twice, no event has two owners, a graph that is called  *)
(* valid fits its shape if captures are not interrupted, and, as long as   *)
(* no launch fails, what runs on a stream is held by an event, so that a   *)
(* graph is destroyed only when nothing runs.                              *)
(*                                                                         *)
(* The last is not inductive: an event dropped from in_flight_states must  *)
(* be the last trace of its launch.  That holds because only the thread    *)
(* with engine_mutex is between the launches and the recording of their    *)
(* events (Held, AtWork).                                                  *)
(***************************************************************************)
EXTENDS GraphWrapper, SequenceTheorems, WellFoundedInduction, TLAPS

Pool     == Elements(event_pool)
InFlight == Elements(in_flight_states)

-----------------------------------------------------------------------------
(* Sequences. *)

LEMMA ElementsType ==
  ASSUME NEW S, NEW s \in Seq(S)
  PROVE  /\ Len(s) \in Nat /\ DOMAIN s = 1 .. Len(s)
         /\ \A k \in DOMAIN s : s[k] \in S
         /\ Elements(s) \subseteq S
BY LenProperties DEF Elements

LEMMA FromSeq ==
  ASSUME NEW S, NEW s \in Seq(S), NEW n \in 0 .. Len(s)
  PROVE  /\ From(s, n + 1) \in Seq(S)
         /\ Len(From(s, n + 1)) = Len(s) - n
         /\ \A k \in 1 .. Len(s) - n : From(s, n + 1)[k] = s[n + k]
<1>1. Len(s) \in Nat /\ \A k \in 1 .. Len(s) : s[k] \in S
  BY ElementsType
<1>2. /\ SubSeq(s, n + 1, Len(s)) \in Seq(S)
      /\ Len(SubSeq(s, n + 1, Len(s))) =
           IF n + 1 <= Len(s) THEN Len(s) - (n + 1) + 1 ELSE 0
      /\ \A k \in 1 .. Len(s) - (n + 1) + 1 :
           SubSeq(s, n + 1, Len(s))[k] = s[(n + 1) + k - 1]
  <2>1. /\ n + 1 \in Int /\ Len(s) \in Int
        /\ \A k \in n + 1 .. Len(s) : s[k] \in S
    BY <1>1
  <2> QED
    BY <2>1, SubSeqProperties
<1> QED
  BY <1>1, <1>2 DEF From

LEMMA UpToSeq ==
  ASSUME NEW S, NEW s \in Seq(S), NEW n \in 0 .. Len(s)
  PROVE  /\ SubSeq(s, 1, n) \in Seq(S)
         /\ Len(SubSeq(s, 1, n)) = n
         /\ \A k \in 1 .. n : SubSeq(s, 1, n)[k] = s[k]
<1>1. Len(s) \in Nat /\ \A k \in 1 .. Len(s) : s[k] \in S
  BY ElementsType
<1>2. /\ SubSeq(s, 1, n) \in Seq(S)
      /\ Len(SubSeq(s, 1, n)) = IF 1 <= n THEN n - 1 + 1 ELSE 0
      /\ \A k \in 1 .. n - 1 + 1 : SubSeq(s, 1, n)[k] = s[1 + k - 1]
  <2>1. n \in Int /\ 1 \in Int /\ \A k \in 1 .. n : s[k] \in S
    BY <1>1
  <2> QED
    BY <2>1, SubSeqProperties
<1> QED
  BY <1>1, <1>2

LEMMA ReversedSeq ==
  ASSUME NEW S, NEW s \in Seq(S)
  PROVE  /\ Reversed(s) \in Seq(S)
         /\ Len(Reversed(s)) = Len(s)
         /\ \A k \in 1 .. Len(s) : Reversed(s)[k] = s[Len(s) + 1 - k]
<1>1. /\ Len(s) \in Nat /\ DOMAIN s = 1 .. Len(s)
      /\ \A k \in 1 .. Len(s) : s[Len(s) + 1 - k] \in S
  BY ElementsType
<1>2. Reversed(s) = [k \in 1 .. Len(s) |-> s[Len(s) + 1 - k]]
  BY <1>1 DEF Reversed
<1>3. Reversed(s) \in Seq(S)
  BY <1>1, <1>2
<1>4. DOMAIN Reversed(s) = 1 .. Len(s)
  BY <1>2
<1> QED
  BY <1>1, <1>2, <1>3, <1>4, LenProperties

LEMMA LeastNumber ==
  ASSUME NEW D \in SUBSET Nat, D # {}
  PROVE  \E d \in D : \A e \in D : d <= e
<1> DEFINE R == OpToRel(<, Nat)
<1>1. \A x, y \in Nat : <<y, x>> \in R <=> y < x
  BY DEF OpToRel
<1>2. IsWellFoundedOn(R, Nat)
  BY NatLessThanWellFounded
<1> HIDE DEF R
<1>3. PICK d \in D : \A e \in D : <<e, d>> \notin R
  BY <1>2, WFMin
<1>4. \A e \in D : ~ e < d
  BY <1>1, <1>3, Zenon
<1> QED
  BY <1>4

(* The last of the launches that are waited for. *)
LEMMA LastAwaitedType ==
  ASSUME NEW s, NEW S, work[s] \in Seq(S)
  PROVE  /\ LastAwaited(s) \in 0 .. Len(work[s])
         /\ \A k \in Awaited(s) : k <= LastAwaited(s)
<1> DEFINE L == Len(work[s])
           K == Awaited(s) \cup {0}
           D == {L - k : k \in K}
<1>1. L \in Nat /\ DOMAIN work[s] = 1 .. L
  BY ElementsType
<1>2. Awaited(s) \subseteq 1 .. L
  BY <1>1 DEF Awaited
<1> HIDE DEF L
<1>3. K \subseteq 0 .. L
  BY <1>1, <1>2
<1>4. D \in SUBSET Nat /\ D # {}
  BY <1>1, <1>3
<1>5. PICK d \in D : \A e \in D : d <= e
  BY <1>4, LeastNumber
<1>6. PICK n \in K : d = L - n
  OBVIOUS
<1>7. \A k \in K : L - n <= L - k
  BY <1>5, <1>6
<1>8. \A k \in K : k <= n
  BY <1>1, <1>3, <1>7
<1>9. LastAwaited(s) \in K /\ \A k \in Awaited(s) : k <= LastAwaited(s)
  BY <1>8 DEF LastAwaited
<1> QED
  BY <1>3, <1>9 DEF L

-----------------------------------------------------------------------------
(* KV blocks: handing out the last n of them, in reverse, permutes them.   *)

AllBlocks == free_blocks \o current_block_table

BlockTypes == free_blocks \in Seq(Blocks) /\ current_block_table \in Seq(Blocks)

(* The sequence r is s in another order. *)
Permuted(r, s) ==
  /\ Len(r) = Len(s)
  /\ \E f \in [1 .. Len(s) -> 1 .. Len(s)] :
       /\ \A j, k \in 1 .. Len(s) : f[j] = f[k] => j = k
       /\ \A k \in 1 .. Len(s) : \E j \in 1 .. Len(s) : f[j] = k
       /\ \A k \in 1 .. Len(s) : r[k] = s[f[k]]

LEMMA PermutedConserves ==
  ASSUME NEW S, NEW r \in Seq(S), NEW s \in Seq(S), Permuted(r, s)
  PROVE  /\ Elements(r) = Elements(s)
         /\ ~ Repeats(s) => ~ Repeats(r)
<1>1. /\ DOMAIN r = 1 .. Len(s) /\ DOMAIN s = 1 .. Len(s)
  BY LenProperties DEF Permuted
<1>2. PICK f \in [1 .. Len(s) -> 1 .. Len(s)] :
        /\ \A j, k \in 1 .. Len(s) : f[j] = f[k] => j = k
        /\ \A k \in 1 .. Len(s) : \E j \in 1 .. Len(s) : f[j] = k
        /\ \A k \in 1 .. Len(s) : r[k] = s[f[k]]
  BY DEF Permuted
<1>3. Elements(r) \subseteq Elements(s)
  BY <1>1, <1>2 DEF Elements
<1>4. Elements(s) \subseteq Elements(r)
  <2>1. ASSUME NEW k \in 1 .. Len(s) PROVE \E j \in 1 .. Len(s) : s[k] = r[j]
    <3>1. PICK j \in 1 .. Len(s) : f[j] = k
      BY <1>2
    <3>2. r[j] = s[f[j]]
      BY <1>2
    <3> QED
      BY <3>1, <3>2
  <2> QED
    BY <1>1, <2>1 DEF Elements
<1>5. ASSUME ~ Repeats(s), NEW j \in 1 .. Len(s), NEW k \in 1 .. Len(s),
             r[j] = r[k]
      PROVE  j = k
  <2>1. f[j] \in 1 .. Len(s) /\ f[k] \in 1 .. Len(s)
    BY <1>2
  <2>2. s[f[j]] = s[f[k]]
    BY <1>2, <1>5
  <2>3. f[j] = f[k]
    BY <1>1, <1>5, <2>1, <2>2 DEF Repeats
  <2> QED
    BY <1>2, <2>3
<1>6. ~ Repeats(s) => ~ Repeats(r)
  BY <1>1, <1>5 DEF Repeats
<1> QED
  BY <1>3, <1>4, <1>6

LEMMA FreedBlocks ==
  ASSUME BlockTypes, free_all_blocks
  PROVE  /\ BlockTypes'
         /\ BlocksConserved => BlocksConserved'
<1>1. /\ AllBlocks \in Seq(Blocks)
      /\ free_blocks' = AllBlocks /\ current_block_table' = << >>
  BY ConcatProperties DEF BlockTypes, AllBlocks, free_all_blocks
<1>2. << >> \in Seq(Blocks)
  BY EmptySeq
<1>3. free_blocks' \o current_block_table' = AllBlocks
  BY <1>1, ConcatEmptySeq
<1> QED
  BY <1>1, <1>2, <1>3 DEF BlockTypes, BlocksConserved, AllBlocks, Blocks

LEMMA AllocatedBlocks ==
  ASSUME BlockTypes, NEW n \in 0 .. Len(AllBlocks), allocate_blocks(n)
  PROVE  /\ BlockTypes' /\ Len(current_block_table') = n
         /\ BlocksConserved => BlocksConserved'
<1> DEFINE all == AllBlocks
           m == Len(all) - n
           rest == From(all, m + 1)
           f == [k \in 1 .. Len(all) |-> IF k <= m THEN k ELSE Len(all) + m + 1 - k]
<1>1. all \in Seq(Blocks) /\ Len(all) \in Nat /\ m \in 0 .. Len(all)
  BY ConcatProperties, LenProperties DEF BlockTypes, AllBlocks
<1>2. /\ free_blocks' = SubSeq(all, 1, m)
      /\ current_block_table' = Reversed(rest)
  BY DEF allocate_blocks, AllBlocks
<1> HIDE DEF all, m
<1>3. /\ rest \in Seq(Blocks) /\ Len(rest) = Len(all) - m
      /\ \A k \in 1 .. Len(all) - m : rest[k] = all[m + k]
  BY <1>1, FromSeq
<1>4. /\ SubSeq(all, 1, m) \in Seq(Blocks) /\ Len(SubSeq(all, 1, m)) = m
      /\ \A k \in 1 .. m : SubSeq(all, 1, m)[k] = all[k]
  BY <1>1, UpToSeq
<1> HIDE DEF rest
<1>5. /\ Reversed(rest) \in Seq(Blocks)
      /\ Len(Reversed(rest)) = Len(rest)
      /\ \A k \in 1 .. Len(rest) : Reversed(rest)[k] = rest[Len(rest) + 1 - k]
  BY <1>3, ReversedSeq
<1>6. Len(rest) = n
  BY <1>1, <1>3 DEF m
<1>7. BlockTypes' /\ Len(current_block_table') = n
  BY <1>2, <1>4, <1>5, <1>6 DEF BlockTypes, Blocks
<1>8. Permuted(AllBlocks', all)
  <2>1. AllBlocks' = SubSeq(all, 1, m) \o Reversed(rest)
    BY <1>2 DEF AllBlocks
  <2>2. /\ Len(AllBlocks') = Len(all)
        /\ \A k \in 1 .. Len(all) : AllBlocks'[k] =
             IF k <= m THEN SubSeq(all, 1, m)[k] ELSE Reversed(rest)[k - m]
    <3>1. /\ Len(AllBlocks') = m + Len(rest)
          /\ \A k \in 1 .. m + Len(rest) : AllBlocks'[k] =
               IF k <= m THEN SubSeq(all, 1, m)[k] ELSE Reversed(rest)[k - m]
      BY <1>4, <1>5, <2>1, ConcatProperties
    <3> QED
      BY <1>1, <1>3, <3>1
  <2>3. \A k \in 1 .. Len(all) : AllBlocks'[k] = all[f[k]]
    <3>1. ASSUME NEW k \in 1 .. Len(all), k > m
          PROVE  Reversed(rest)[k - m] = all[Len(all) + m + 1 - k]
      <4>1. k - m \in 1 .. Len(rest) /\ Len(rest) + 1 - (k - m) \in 1 .. Len(rest)
        BY <1>1, <1>3, <3>1
      <4>2. m + (Len(rest) + 1 - (k - m)) = Len(all) + m + 1 - k
        BY <1>1, <1>3, <3>1
      <4> QED
        BY <1>3, <1>5, <4>1, <4>2
    <3> QED
      BY <1>1, <1>4, <2>2, <3>1
  <2>4. f \in [1 .. Len(all) -> 1 .. Len(all)]
    BY <1>1
  <2>5. \A j, k \in 1 .. Len(all) : f[j] = f[k] => j = k
    BY <1>1
  <2>6. \A k \in 1 .. Len(all) : f[k] \in 1 .. Len(all) /\ f[f[k]] = k
    BY <1>1
  <2> HIDE DEF f
  <2>7. \A k \in 1 .. Len(all) : \E j \in 1 .. Len(all) : f[j] = k
    BY <2>6
  <2> QED
    BY <2>2, <2>3, <2>4, <2>5, <2>7 DEF Permuted
<1>9. AllBlocks' \in Seq(Blocks)
  BY <1>7, ConcatProperties DEF BlockTypes, AllBlocks, Blocks
<1>10. BlocksConserved => BlocksConserved'
  BY <1>1, <1>8, <1>9, PermutedConserves
     DEF BlocksConserved, AllBlocks, Blocks, all
<1> QED
  BY <1>7, <1>10

-----------------------------------------------------------------------------
(* Events and what they are recorded after. *)

PoolTypes ==
  /\ in_flight_states \in Seq(Events)
  /\ event_pool \in Seq(Events) /\ Len(event_pool) <= PoolCapacity

WorkType == work \in [Streams -> Seq(Events \cup {NoEvent})]

OwnedOnce == ~ Repeats(event_pool \o in_flight_states)

LEMMA CompletedElements ==
  \A e : Completed(e) <=> \A s \in Streams : e \notin Elements(work[s])
BY DEF Completed, Elements

(* Taking some of the elements of a sequence, each once, repeats none. *)
LEMMA SomeOfThem ==
  ASSUME NEW S, NEW r \in Seq(S), NEW s \in Seq(S), ~ Repeats(s),
         NEW f \in [1 .. Len(r) -> 1 .. Len(s)],
         \A j, k \in 1 .. Len(r) : f[j] = f[k] => j = k,
         \A k \in 1 .. Len(r) : r[k] = s[f[k]]
  PROVE  ~ Repeats(r)
<1>1. DOMAIN r = 1 .. Len(r) /\ DOMAIN s = 1 .. Len(s)
  BY LenProperties
<1>2. ASSUME NEW j \in 1 .. Len(r), NEW k \in 1 .. Len(r), r[j] = r[k]
      PROVE  j = k
  <2>1. f[j] \in 1 .. Len(s) /\ f[k] \in 1 .. Len(s)
    OBVIOUS
  <2>2. f[j] = f[k]
    BY <1>1, <1>2, <2>1 DEF Repeats
  <2> QED
    BY <2>2
<1> QED
  BY <1>1, <1>2 DEF Repeats

(* Two sequences that together repeat nothing have nothing in common. *)
LEMMA Disjoint ==
  ASSUME NEW S, NEW r \in Seq(S), NEW s \in Seq(S)
  PROVE  ~ Repeats(r \o s) <=>
           ~ Repeats(r) /\ ~ Repeats(s) /\ Elements(r) \cap Elements(s) = {}
<1>1. /\ DOMAIN r = 1 .. Len(r) /\ DOMAIN s = 1 .. Len(s)
      /\ Len(r) \in Nat /\ Len(s) \in Nat
      /\ DOMAIN (r \o s) = 1 .. Len(r) + Len(s)
      /\ \A i \in 1 .. Len(r) + Len(s) : (r \o s)[i] =
                     IF i <= Len(r) THEN r[i] ELSE s[i - Len(r)]
  <2>1. r \o s \in Seq(S) /\ Len(r \o s) = Len(r) + Len(s)
    BY ConcatProperties
  <2> QED
    BY <2>1, LenProperties, ConcatProperties
<1>2. /\ \A j \in 1 .. Len(r) : j \in 1 .. Len(r) + Len(s) /\ (r \o s)[j] = r[j]
      /\ \A j \in 1 .. Len(s) : /\ Len(r) + j \in 1 .. Len(r) + Len(s)
                               /\ (r \o s)[Len(r) + j] = s[j]
  BY <1>1
<1>3. ASSUME ~ Repeats(r \o s)
      PROVE  ~ Repeats(r) /\ ~ Repeats(s) /\ Elements(r) \cap Elements(s) = {}
  <2>1. ~ Repeats(r)
    BY <1>1, <1>2, <1>3 DEF Repeats
  <2>2. ~ Repeats(s)
    <3>1. ASSUME NEW j \in 1 .. Len(s), NEW k \in 1 .. Len(s), s[j] = s[k]
          PROVE  j = k
      <4>1. Len(r) + j = Len(r) + k
        <5>1. /\ Len(r) + j \in DOMAIN (r \o s) /\ (r \o s)[Len(r) + j] = s[j]
              /\ Len(r) + k \in DOMAIN (r \o s) /\ (r \o s)[Len(r) + k] = s[k]
          BY <1>1, <1>2
        <5> QED
          BY <1>3, <3>1, <5>1 DEF Repeats
      <4> QED
        BY <1>1, <4>1
    <3> QED
      BY <1>1, <3>1 DEF Repeats
  <2>3. ASSUME NEW j \in 1 .. Len(r), NEW k \in 1 .. Len(s), r[j] = s[k]
        PROVE  FALSE
    <3>1. j = Len(r) + k
      BY <1>1, <1>2, <1>3, <2>3 DEF Repeats
    <3> QED
      BY <1>1, <3>1
  <2> QED
    BY <1>1, <2>1, <2>2, <2>3 DEF Elements
<1>4. ASSUME ~ Repeats(r), ~ Repeats(s), Elements(r) \cap Elements(s) = {},
             NEW j \in 1 .. Len(r) + Len(s), NEW k \in 1 .. Len(r) + Len(s),
             (r \o s)[j] = (r \o s)[k]
      PROVE  j = k
  <2>1. \A i \in 1 .. Len(r), l \in 1 .. Len(s) : r[i] # s[l]
    BY <1>1, <1>4 DEF Elements
  <2>2. CASE j <= Len(r) /\ k <= Len(r)
    BY <1>1, <1>4, <2>2 DEF Repeats
  <2>3. CASE j > Len(r) /\ k > Len(r)
    <3>1. j - Len(r) \in DOMAIN s /\ k - Len(r) \in DOMAIN s
      BY <1>1, <2>3
    <3>2. s[j - Len(r)] = s[k - Len(r)]
      BY <1>1, <1>4, <2>3
    <3>3. j - Len(r) = k - Len(r)
      BY <1>4, <3>1, <3>2 DEF Repeats
    <3> QED
      BY <1>1, <3>3
  <2>4. CASE j <= Len(r) /\ k > Len(r)
    <3>1. j \in 1 .. Len(r) /\ k - Len(r) \in 1 .. Len(s)
      BY <1>1, <2>4
    <3> QED
      BY <1>1, <1>4, <2>1, <2>4, <3>1
  <2>5. CASE j > Len(r) /\ k <= Len(r)
    <3>1. k \in 1 .. Len(r) /\ j - Len(r) \in 1 .. Len(s)
      BY <1>1, <2>5
    <3> QED
      BY <1>1, <1>4, <2>1, <2>5, <3>1
  <2> QED
    BY <1>1, <2>2, <2>3, <2>4, <2>5
<1> QED
  BY <1>1, <1>3, <1>4 DEF Repeats

LEMMA TailElements ==
  ASSUME NEW S, NEW s \in Seq(S), s # << >>
  PROVE  /\ Head(s) \in S /\ Head(s) \in Elements(s)
         /\ Tail(s) \in Seq(S) /\ Len(Tail(s)) = Len(s) - 1
         /\ Elements(Tail(s)) \subseteq Elements(s)
         /\ ~ Repeats(s) => /\ ~ Repeats(Tail(s))
                            /\ Head(s) \notin Elements(Tail(s))
<1>1. /\ Head(s) \in S /\ Tail(s) \in Seq(S)
      /\ Len(s) \in Nat \ {0} /\ DOMAIN s = 1 .. Len(s)
      /\ Len(Tail(s)) = Len(s) - 1 /\ DOMAIN Tail(s) = 1 .. Len(s) - 1
      /\ \A k \in 1 .. Len(s) - 1 : Tail(s)[k] = s[k + 1]
      /\ Head(s) = s[1]
  BY HeadTailProperties, EmptySeq, LenProperties
<1>2. \A k \in 1 .. Len(s) - 1 : k + 1 \in 1 .. Len(s) /\ k + 1 # 1
  BY <1>1
<1>3. Head(s) \in Elements(s) /\ Elements(Tail(s)) \subseteq Elements(s)
  BY <1>1, <1>2 DEF Elements
<1>4. ASSUME ~ Repeats(s)
      PROVE  ~ Repeats(Tail(s)) /\ Head(s) \notin Elements(Tail(s))
  <2>1. \A j, k \in 1 .. Len(s) : s[j] = s[k] => j = k
    BY <1>1, <1>4 DEF Repeats
  <2>2. ASSUME NEW j \in 1 .. Len(s) - 1, NEW k \in 1 .. Len(s) - 1,
               Tail(s)[j] = Tail(s)[k]
        PROVE  j = k
    <3>1. j + 1 = k + 1
      BY <1>1, <1>2, <2>1, <2>2
    <3> QED
      BY <3>1
  <2>3. ASSUME NEW k \in 1 .. Len(s) - 1 PROVE Tail(s)[k] # Head(s)
    <3>1. k + 1 \in 1 .. Len(s) /\ 1 \in 1 .. Len(s) /\ k + 1 # 1
      BY <1>1, <1>2
    <3> QED
      BY <1>1, <2>1, <3>1
  <2> QED
    BY <1>1, <2>2, <2>3 DEF Repeats, Elements
<1> QED
  BY <1>1, <1>3, <1>4

LEMMA AppendElements ==
  ASSUME NEW S, NEW s \in Seq(S), NEW e \in S
  PROVE  /\ Append(s, e) \in Seq(S) /\ Len(Append(s, e)) = Len(s) + 1
         /\ \A k \in 1 .. Len(s) : Append(s, e)[k] = s[k]
         /\ Append(s, e)[Len(s) + 1] = e
         /\ Elements(Append(s, e)) = Elements(s) \cup {e}
         /\ ~ Repeats(s) /\ e \notin Elements(s) => ~ Repeats(Append(s, e))
<1>1. /\ Append(s, e) \in Seq(S) /\ Len(Append(s, e)) = Len(s) + 1
      /\ \A k \in 1 .. Len(s) : Append(s, e)[k] = s[k]
      /\ Append(s, e)[Len(s) + 1] = e
  BY AppendProperties
<1>2. Len(s) \in Nat /\ DOMAIN s = 1 .. Len(s)
  BY LenProperties
<1>3. DOMAIN Append(s, e) = 1 .. Len(s) + 1
  BY <1>1, LenProperties
<1>4. 1 .. Len(s) + 1 = DOMAIN s \cup {Len(s) + 1}
  BY <1>2
<1>5. Elements(Append(s, e)) = Elements(s) \cup {e}
  BY <1>1, <1>2, <1>3, <1>4 DEF Elements
<1>6. ~ Repeats(s) /\ e \notin Elements(s) => ~ Repeats(Append(s, e))
  BY <1>1, <1>2, <1>3, <1>4 DEF Repeats, Elements
<1> QED
  BY <1>1, <1>5, <1>6

(* What is given back was completed, and what is not kept waiting too. *)
LEMMA Cleaned ==
  ASSUME PoolTypes, GraphAssumption,
         cleanup_in_flight_states \/ cleanup_raises
  PROVE  /\ PoolTypes'
         /\ OwnedOnce => OwnedOnce'
         /\ \A e \in Pool' : e \in Pool \/ Completed(e)
         /\ \A e \in InFlight : e \in InFlight' \/ Completed(e)
<1> DEFINE P == Len(event_pool)
           F == Len(in_flight_states)
<1>1. /\ P \in Nat /\ F \in Nat /\ P <= PoolCapacity /\ PoolCapacity \in Nat
      /\ DOMAIN event_pool = 1 .. P /\ DOMAIN in_flight_states = 1 .. F
  BY LenProperties DEF PoolTypes, GraphAssumption
<1>2. PICK n \in 0 .. F :
        /\ \A k \in 1 .. n : Completed(in_flight_states[k])
        /\ cleanup(n)
  BY <1>1 DEF cleanup_in_flight_states, cleanup_raises, cleanup_completed
<1> DEFINE done == SubSeq(in_flight_states, 1, n)
           all == event_pool \o done
           m == Smaller(PoolCapacity, Len(all))
<1>3. /\ done \in Seq(Events) /\ Len(done) = n
      /\ \A k \in 1 .. n : done[k] = in_flight_states[k]
  BY UpToSeq DEF PoolTypes
<1>4. /\ in_flight_states' \in Seq(Events)
      /\ Len(in_flight_states') = F - n
      /\ \A k \in 1 .. F - n : in_flight_states'[k] = in_flight_states[n + k]
  <2>1. in_flight_states' = From(in_flight_states, n + 1)
    BY <1>2 DEF cleanup
  <2> QED
    BY <2>1, FromSeq DEF PoolTypes
<1>5. event_pool' = SubSeq(all, 1, m)
  BY <1>2 DEF cleanup
<1> HIDE DEF done
<1>6. /\ all \in Seq(Events) /\ Len(all) = P + n
      /\ \A k \in 1 .. P + n :
           all[k] = IF k <= P THEN event_pool[k] ELSE in_flight_states[k - P]
  <2>1. /\ all \in Seq(Events) /\ Len(all) = P + Len(done)
        /\ \A k \in 1 .. P + Len(done) :
             all[k] = IF k <= P THEN event_pool[k] ELSE done[k - P]
    BY <1>3, ConcatProperties DEF PoolTypes
  <2>2. \A k \in 1 .. P + n : ~ k <= P => k - P \in 1 .. n
    BY <1>1
  <2> HIDE DEF P
  <2> QED
    BY <1>3, <2>1, <2>2
<1> HIDE DEF all
<1>7. m \in 0 .. P + n /\ m <= PoolCapacity
  BY <1>1, <1>6 DEF Smaller
<1> HIDE DEF m
<1>8. /\ event_pool' \in Seq(Events) /\ Len(event_pool') = m
      /\ \A k \in 1 .. m : event_pool'[k] = all[k]
  BY <1>5, <1>6, <1>7, UpToSeq
<1>9. PoolTypes'
  BY <1>4, <1>7, <1>8 DEF PoolTypes
<1>10. ASSUME NEW e \in Pool' PROVE e \in Pool \/ Completed(e)
  <2>1. PICK k \in 1 .. m : e = all[k]
    BY <1>8, LenProperties DEF Pool, Elements
  <2>2. k \in 1 .. P + n
    BY <1>1, <1>7
  <2>3. CASE k <= P
    <3>1. e = event_pool[k] /\ k \in DOMAIN event_pool
      BY <1>1, <1>6, <2>1, <2>2, <2>3
    <3> QED
      BY <3>1 DEF Pool, Elements
  <2>4. CASE k > P
    <3>1. e = in_flight_states[k - P] /\ k - P \in 1 .. n
      BY <1>1, <1>6, <2>1, <2>2, <2>4
    <3> QED
      BY <1>2, <3>1
  <2> QED
    BY <1>1, <2>3, <2>4
<1>11. ASSUME NEW e \in InFlight PROVE e \in InFlight' \/ Completed(e)
  <2>1. PICK k \in 1 .. F : e = in_flight_states[k]
    BY <1>1 DEF InFlight, Elements
  <2>2. CASE k <= n
    BY <1>2, <2>1, <2>2
  <2>3. CASE k > n
    <3>1. k - n \in 1 .. F - n /\ n + (k - n) = k
      BY <1>1, <2>3
    <3>2. DOMAIN in_flight_states' = 1 .. F - n
      BY <1>4, LenProperties
    <3> QED
      BY <1>4, <2>1, <3>1, <3>2 DEF InFlight, Elements
  <2> QED
    BY <1>1, <2>2, <2>3
<1>12. ASSUME OwnedOnce PROVE OwnedOnce'
  <2> DEFINE q == event_pool \o in_flight_states
             r == event_pool' \o in_flight_states'
             f == [k \in 1 .. m + (F - n) |-> IF k <= m THEN k ELSE k - m + P + n]
  <2>1. /\ q \in Seq(Events) /\ Len(q) = P + F
        /\ \A k \in 1 .. P + F :
             q[k] = IF k <= P THEN event_pool[k] ELSE in_flight_states[k - P]
    BY ConcatProperties DEF PoolTypes
  <2>2. /\ r \in Seq(Events) /\ Len(r) = m + (F - n)
        /\ \A k \in 1 .. m + (F - n) :
             r[k] = IF k <= m THEN event_pool'[k] ELSE in_flight_states'[k - m]
    <3>1. /\ r \in Seq(Events)
          /\ Len(r) = Len(event_pool') + Len(in_flight_states')
          /\ \A k \in 1 .. Len(event_pool') + Len(in_flight_states') :
               r[k] = IF k <= Len(event_pool') THEN event_pool'[k]
                      ELSE in_flight_states'[k - Len(event_pool')]
      BY <1>4, <1>8, ConcatProperties
    <3> HIDE DEF F, r
    <3> QED
      BY <1>4, <1>8, <3>1
  <2>3. ASSUME NEW k \in 1 .. m + (F - n) PROVE r[k] = q[f[k]]
    <3>1. CASE k <= m
      <4>1. k \in 1 .. m /\ k \in 1 .. P + n /\ k \in 1 .. P + F
        BY <1>1, <1>7, <3>1
      <4>2. r[k] = event_pool'[k] /\ f[k] = k
        BY <2>2, <3>1
      <4> QED
        BY <1>6, <1>8, <2>1, <4>1, <4>2
    <3>2. CASE k > m
      <4>1. /\ k - m \in 1 .. F - n /\ k - m + P + n \in 1 .. P + F
            /\ ~ k - m + P + n <= P /\ k - m + P + n - P = n + (k - m)
            /\ ~ k <= m
        BY <1>1, <1>7, <3>2
      <4>2. r[k] = in_flight_states'[k - m] /\ f[k] = k - m + P + n
        BY <2>2, <4>1
      <4>3. q[k - m + P + n] = in_flight_states[k - m + P + n - P]
        BY <2>1, <4>1
      <4>4. in_flight_states'[k - m] = in_flight_states[n + (k - m)]
        BY <1>4, <4>1
      <4> HIDE DEF f, q, r, P, F
      <4> QED
        BY <4>1, <4>2, <4>3, <4>4
    <3>3. k <= m \/ k > m
      BY <1>1, <1>7
    <3> HIDE DEF f, q, r, P, F
    <3> QED
      BY <3>1, <3>2, <3>3
  <2>4. f \in [1 .. m + (F - n) -> 1 .. P + F]
    BY <1>1, <1>7
  <2>5. \A j, k \in 1 .. m + (F - n) : f[j] = f[k] => j = k
    BY <1>1, <1>7
  <2>6. ~ Repeats(q)
    BY <1>12 DEF OwnedOnce
  <2> HIDE DEF f, q, r, P, F
  <2>7. /\ f \in [1 .. Len(r) -> 1 .. Len(q)]
        /\ \A j, k \in 1 .. Len(r) : f[j] = f[k] => j = k
        /\ \A k \in 1 .. Len(r) : r[k] = q[f[k]]
    <3>1. Len(r) = m + (F - n) /\ Len(q) = P + F
      BY <2>1, <2>2
    <3> QED
      BY <2>3, <2>4, <2>5, <3>1, Zenon
  <2>8. ~ Repeats(r)
    <3>1. q \in Seq(Events) /\ r \in Seq(Events)
      BY <2>1, <2>2
    <3>2. PICK s1 \in Seq(Events), s2 \in Seq(Events),
               g \in [1 .. Len(r) -> 1 .. Len(q)] :
            s1 = r /\ s2 = q /\ g = f
      BY <2>7, <3>1
    <3>3. ~ Repeats(s2)
      BY <2>6, <3>2
    <3>4. /\ g \in [1 .. Len(s1) -> 1 .. Len(s2)]
          /\ \A j, k \in 1 .. Len(s1) : g[j] = g[k] => j = k
          /\ \A k \in 1 .. Len(s1) : s1[k] = s2[g[k]]
      BY <2>7, <3>2
    <3>5. ~ Repeats(s1)
      BY <3>3, <3>4, SomeOfThem, SMTT(60)
    <3> QED
      BY <3>2, <3>5
  <2> QED
    BY <2>8 DEF OwnedOnce, r
<1> QED
  BY <1>9, <1>10, <1>11, <1>12

(* A stream that is waited for has less to do. *)
LEMMA Synchronized ==
  ASSUME WorkType, SynchronizeInFlight
  PROVE  /\ WorkType'
         /\ \A s \in Streams :
              /\ Elements(work[s]) \subseteq InFlight => work'[s] = << >>
              /\ Elements(work'[s]) \subseteq Elements(work[s])
<1> SUFFICES ASSUME NEW s \in Streams
             PROVE  /\ work'[s] \in Seq(Events \cup {NoEvent})
                    /\ Elements(work[s]) \subseteq InFlight => work'[s] = << >>
                    /\ Elements(work'[s]) \subseteq Elements(work[s])
  BY DEF SynchronizeInFlight, WorkType
<1> DEFINE L == Len(work[s])
           n == LastAwaited(s)
<1>1. /\ work[s] \in Seq(Events \cup {NoEvent})
      /\ L \in Nat /\ DOMAIN work[s] = 1 .. L
  BY LenProperties DEF WorkType
<1>2. n \in 0 .. L /\ \A k \in Awaited(s) : k <= n
  BY <1>1, LastAwaitedType
<1>3. work'[s] = From(work[s], n + 1)
  BY DEF SynchronizeInFlight
<1> HIDE DEF n
<1>4. /\ work'[s] \in Seq(Events \cup {NoEvent})
      /\ Len(work'[s]) = L - n
      /\ \A k \in 1 .. L - n : work'[s][k] = work[s][n + k]
  BY <1>1, <1>2, <1>3, FromSeq
<1>5. Elements(work'[s]) \subseteq Elements(work[s])
  <2>1. DOMAIN work'[s] = 1 .. L - n
    BY <1>4, LenProperties
  <2>2. \A k \in 1 .. L - n : n + k \in 1 .. L
    BY <1>1, <1>2
  <2> QED
    BY <1>1, <1>4, <2>1, <2>2 DEF Elements
<1>6. ASSUME Elements(work[s]) \subseteq InFlight PROVE work'[s] = << >>
  <2>1. L # 0 => L \in Awaited(s)
    <3>1. L # 0 => L \in DOMAIN work[s] /\ work[s][L] \in Elements(work[s])
      BY <1>1 DEF Elements
    <3> QED
      BY <1>6, <3>1 DEF Awaited, InFlight
  <2>2. Len(work'[s]) = 0
    BY <1>1, <1>2, <1>4, <2>1
  <2> QED
    BY <1>4, <2>2, EmptySeq
<1> QED
  BY <1>4, <1>5, <1>6

(* An event recorded on a stream takes the place of the one recorded after *)
(* the last launch there.                                                  *)
LEMMA Recorded ==
  ASSUME WorkType, NEW s \in Streams, NEW e \in Events, hipEventRecord(e, s)
  PROVE  /\ WorkType'
         /\ \A q \in Streams \ {s} : work'[q] = work[q]
         /\ DOMAIN work'[s] = DOMAIN work[s] /\ Len(work'[s]) = Len(work[s])
         /\ \A k \in DOMAIN work[s] :
              work'[s][k] = IF k = Len(work[s]) THEN e ELSE work[s][k]
<1>1. /\ work[s] \in Seq(Events \cup {NoEvent})
      /\ DOMAIN work[s] = 1 .. Len(work[s]) /\ Len(work[s]) \in Nat
  BY LenProperties DEF WorkType
<1>2. CASE work[s] = << >>
  BY <1>1, <1>2 DEF hipEventRecord, WorkType
<1>3. CASE work[s] # << >>
  <2> DEFINE w == [work[s] EXCEPT ![Len(work[s])] = e]
  <2>1. Len(work[s]) \in 1 .. Len(work[s])
    BY <1>1, <1>3, EmptySeq
  <2>2. /\ w \in Seq(Events \cup {NoEvent}) /\ Len(w) = Len(work[s])
        /\ \A k \in 1 .. Len(work[s]) :
             w[k] = IF k = Len(work[s]) THEN e ELSE work[s][k]
    BY <1>1, <2>1, ExceptSeq
  <2>3. work' = [work EXCEPT ![s] = w]
    BY <1>3 DEF hipEventRecord
  <2> HIDE DEF w
  <2>4. DOMAIN w = 1 .. Len(work[s])
    BY <2>2, LenProperties
  <2> QED
    BY <1>1, <2>2, <2>3, <2>4 DEF WorkType
<1> QED
  BY <1>2, <1>3

-----------------------------------------------------------------------------
(* An event has one owner, and is at rest while the pool owns it. *)

PoolAtRest == \A e \in Pool : Completed(e)

EventsInv == PoolTypes /\ WorkType /\ OwnedOnce /\ PoolAtRest

LEMMA EventsMean == EventsInv => EventsOwnedOnce
BY DEF EventsInv, OwnedOnce, PoolAtRest, Pool, EventsOwnedOnce

LEMMA OwnersApart ==
  ASSUME PoolTypes
  PROVE  OwnedOnce <=> /\ ~ Repeats(event_pool) /\ ~ Repeats(in_flight_states)
                       /\ Pool \cap InFlight = {}
BY Disjoint DEF PoolTypes, OwnedOnce, Pool, InFlight

LEMMA InitEvents == Init => EventsInv
<1> SUFFICES ASSUME Init PROVE EventsInv
  OBVIOUS
<1>1. event_pool \in Distinct(PoolCapacity, Events)
  BY GraphAssumption DEF GraphAssumption, Init
<1>2. /\ event_pool \in [1 .. PoolCapacity -> Events]
      /\ \A j, k \in 1 .. PoolCapacity : event_pool[j] = event_pool[k] => j = k
  BY <1>1 DEF Distinct
<1>3. PoolCapacity \in Nat
  BY GraphAssumption DEF GraphAssumption
<1>4. event_pool \in Seq(Events) /\ Len(event_pool) = PoolCapacity
  BY <1>2, <1>3
<1>5. in_flight_states \in Seq(Events) /\ in_flight_states = << >>
  BY EmptySeq DEF Init
<1>6. ~ Repeats(event_pool \o in_flight_states)
  <2>1. event_pool \o in_flight_states = event_pool
    BY <1>4, <1>5, ConcatEmptySeq
  <2>2. ~ Repeats(event_pool)
    BY <1>2 DEF Repeats
  <2> QED
    BY <2>1, <2>2
<1>7. WorkType /\ \A e : Completed(e)
  <2>1. << >> \in Seq(Events \cup {NoEvent})
    BY EmptySeq
  <2> QED
    BY <2>1 DEF Init, WorkType, Completed
<1> QED
  BY <1>3, <1>4, <1>5, <1>6, <1>7
     DEF EventsInv, PoolTypes, OwnedOnce, PoolAtRest

LEMMA UnchangedEvents ==
  ASSUME EventsInv, UNCHANGED <<events, work>>
  PROVE  EventsInv'
BY DEF EventsInv, PoolTypes, WorkType, OwnedOnce, PoolAtRest, Pool, Completed,
       events

LEMMA DiscardEvents ==
  ASSUME EventsInv, discard_graph
  PROVE  EventsInv'
<1>1. in_flight_states' = << >> /\ event_pool' = << >>
  BY DEF discard_graph
<1>2. WorkType'
  BY Synchronized DEF discard_graph, EventsInv
<1>3. PoolTypes'
  <2>1. << >> \in Seq(Events) /\ Len(<< >>) = 0
    BY EmptySeq
  <2> QED
    BY <1>1, <2>1, GraphAssumption DEF PoolTypes, GraphAssumption
<1>4. OwnedOnce' /\ PoolAtRest'
  BY <1>1 DEF OwnedOnce, PoolAtRest, Pool, Elements, Repeats
<1> QED
  BY <1>2, <1>3, <1>4 DEF EventsInv

LEMMA CleanEvents ==
  ASSUME EventsInv, cleanup_in_flight_states \/ cleanup_raises,
         UNCHANGED work
  PROVE  EventsInv'
<1>1. /\ PoolTypes' /\ OwnedOnce'
      /\ \A e \in Pool' : e \in Pool \/ Completed(e)
  BY Cleaned, GraphAssumption DEF EventsInv
<1>2. \A e : Completed(e)' <=> Completed(e)
  BY DEF Completed
<1>3. WorkType' /\ PoolAtRest'
  BY <1>1, <1>2 DEF EventsInv, WorkType, PoolAtRest
<1> QED
  BY <1>1, <1>3 DEF EventsInv

LEMMA LessWork ==
  ASSUME EventsInv, UNCHANGED events, WorkType',
         \A s \in Streams : Elements(work'[s]) \subseteq Elements(work[s]) \cup {NoEvent}
  PROVE  EventsInv'
<1>1. \A e \in Pool : e # NoEvent
  BY ElementsType, GraphAssumption DEF GraphAssumption, EventsInv, PoolTypes, Pool
<1>2. PoolTypes' /\ OwnedOnce' /\ Pool' = Pool
  BY DEF EventsInv, PoolTypes, OwnedOnce, Pool, events
<1>3. PoolAtRest'
  <2>1. \A e \in Pool, s \in Streams : e \notin Elements(work[s])
    BY CompletedElements DEF EventsInv, PoolAtRest
  <2>2. \A e \in Pool', s \in Streams : e \notin Elements(work'[s])
    BY <1>1, <1>2, <2>1
  <2> QED
    BY <2>2 DEF PoolAtRest, Completed, Elements
<1> QED
  BY <1>2, <1>3 DEF EventsInv

LEMMA RecordEvents ==
  ASSUME EventsInv, NEW t \in Threads, NEW s \in Streams,
         RecordPooled(t, s) \/ RecordCreated(t, s)
  PROVE  EventsInv'
<1>1. PICK e \in Events :
        /\ hipEventRecord(e, s)
        /\ e \notin InFlight /\ in_flight_states' = Append(in_flight_states, e)
        /\ event_pool' \in Seq(Events) /\ Len(event_pool') <= PoolCapacity
        /\ ~ Repeats(event_pool')
        /\ Pool' \subseteq Pool \ {e}
  <2>1. CASE RecordPooled(t, s)
    <3>1. /\ event_pool # << >> /\ event_pool \in Seq(Events)
          /\ event_pool' = Tail(event_pool)
          /\ hipEventRecord(Head(event_pool), s)
          /\ in_flight_states' = Append(in_flight_states, Head(event_pool))
      BY <2>1 DEF RecordPooled, KeepInFlight, EventsInv, PoolTypes
    <3>2. /\ ~ Repeats(event_pool) /\ Pool \cap InFlight = {}
      BY OwnersApart DEF EventsInv
    <3>3. /\ Head(event_pool) \in Events /\ Head(event_pool) \in Pool
          /\ event_pool' \in Seq(Events) /\ Len(event_pool') = Len(event_pool) - 1
          /\ Pool' \subseteq Pool /\ Head(event_pool) \notin Pool'
          /\ ~ Repeats(event_pool')
      BY <3>1, <3>2, TailElements DEF Pool
    <3>4. Len(event_pool') <= PoolCapacity
      BY <3>1, <3>3, GraphAssumption, LenProperties
         DEF GraphAssumption, EventsInv, PoolTypes
    <3> QED
      BY <3>1, <3>2, <3>3, <3>4
  <2>2. CASE RecordCreated(t, s)
    <3> DEFINE e == CHOOSE e \in Events : e \notin Elements(in_flight_states)
    <3>1. e \in Events /\ e \notin InFlight
      BY <2>2 DEF RecordCreated, InFlight
    <3>2. /\ hipEventRecord(e, s)
          /\ in_flight_states' = Append(in_flight_states, e)
          /\ event_pool = << >> /\ event_pool' = event_pool
      BY <2>2 DEF RecordCreated, KeepInFlight
    <3>3. /\ event_pool' \in Seq(Events) /\ Len(event_pool') <= PoolCapacity
          /\ ~ Repeats(event_pool') /\ Pool' = {}
      BY <3>2 DEF EventsInv, PoolTypes, Repeats, Pool, Elements
    <3> QED
      BY <3>1, <3>2, <3>3
  <2> QED
    BY <2>1, <2>2
<1>2. in_flight_states \in Seq(Events)
  BY DEF EventsInv, PoolTypes
<1>3. /\ ~ Repeats(in_flight_states)
      /\ Pool \cap InFlight = {}
  BY OwnersApart DEF EventsInv
<1>4. /\ in_flight_states' \in Seq(Events)
      /\ InFlight' = InFlight \cup {e}
      /\ ~ Repeats(in_flight_states')
  BY <1>1, <1>2, <1>3, AppendElements DEF InFlight
<1>5. PoolTypes'
  BY <1>1, <1>4 DEF PoolTypes
<1>6. OwnedOnce'
  <2>1. Pool' \cap InFlight' = {}
    BY <1>1, <1>3, <1>4
  <2>2. ~ Repeats(event_pool' \o in_flight_states')
    BY <1>1, <1>4, <2>1, Disjoint DEF Pool, InFlight
  <2> QED
    BY <2>2 DEF OwnedOnce
<1>7. /\ WorkType'
      /\ \A q \in Streams : Elements(work'[q]) \subseteq Elements(work[q]) \cup {e}
  BY <1>1, Recorded DEF EventsInv, Elements
<1>8. PoolAtRest'
  <2>1. \A d \in Pool, q \in Streams : d \notin Elements(work[q])
    BY CompletedElements DEF EventsInv, PoolAtRest
  <2>2. \A d \in Pool', q \in Streams : d \notin Elements(work'[q])
    BY <1>1, <1>7, <2>1
  <2> QED
    BY <2>2 DEF PoolAtRest, Completed, Elements
<1> QED
  BY <1>5, <1>6, <1>7, <1>8 DEF EventsInv

LEMMA SynchronizeInsteadEvents ==
  ASSUME EventsInv, NEW t \in Threads, NEW s \in Streams,
         SynchronizeInstead(t, s)
  PROVE  EventsInv'
<1>1. /\ work' = [work EXCEPT ![s] = << >>]
      /\ event_pool' = IF event_pool = << >> THEN << >> ELSE Tail(event_pool)
      /\ in_flight_states' = in_flight_states
  BY DEF SynchronizeInstead
<1>2. /\ ~ Repeats(event_pool) /\ ~ Repeats(in_flight_states)
      /\ Pool \cap InFlight = {}
      /\ event_pool \in Seq(Events) /\ Len(event_pool) <= PoolCapacity
      /\ Len(event_pool) \in Nat /\ PoolCapacity \in Nat
  BY OwnersApart, LenProperties, GraphAssumption
     DEF GraphAssumption, EventsInv, PoolTypes
<1>3. /\ event_pool' \in Seq(Events) /\ Len(event_pool') <= PoolCapacity
      /\ ~ Repeats(event_pool') /\ Pool' \subseteq Pool
  <2>1. CASE event_pool = << >>
    BY <1>1, <1>2, <2>1 DEF Pool
  <2>2. CASE event_pool # << >>
    BY <1>1, <1>2, <2>2, TailElements DEF Pool
  <2> QED
    BY <2>1, <2>2
<1>4. PoolTypes'
  BY <1>1, <1>3 DEF EventsInv, PoolTypes
<1>5. OwnedOnce'
  <2>1. ~ Repeats(in_flight_states') /\ Pool' \cap InFlight' = {}
    BY <1>1, <1>2, <1>3 DEF InFlight
  <2>2. ~ Repeats(event_pool' \o in_flight_states')
    BY <1>3, <1>4, <2>1, Disjoint DEF PoolTypes, Pool, InFlight
  <2> QED
    BY <2>2 DEF OwnedOnce
<1>6. /\ WorkType'
      /\ \A q \in Streams : Elements(work'[q]) \subseteq Elements(work[q])
  <2>1. << >> \in Seq(Events \cup {NoEvent}) /\ Elements(<< >>) = {}
    BY EmptySeq DEF Elements
  <2> QED
    BY <1>1, <2>1 DEF EventsInv, WorkType
<1>7. PoolAtRest'
  <2>1. \A d \in Pool, q \in Streams : d \notin Elements(work[q])
    BY CompletedElements DEF EventsInv, PoolAtRest
  <2>2. \A d \in Pool', q \in Streams : d \notin Elements(work'[q])
    BY <1>3, <1>6, <2>1
  <2> QED
    BY <2>2 DEF PoolAtRest, Completed, Elements
<1> QED
  BY <1>4, <1>5, <1>6, <1>7 DEF EventsInv

(* Launches are queued on some streams. *)
LEMMA Dispatched ==
  ASSUME WorkType, NEW t \in Threads, Dispatch(t)
  PROVE  /\ WorkType'
         /\ \A s \in Streams :
              work'[s] = work[s] \/ work'[s] = Append(work[s], NoEvent)
<1>1. PICK launched :
        work' = [s \in Streams |->
          IF s \in launched THEN Append(work[s], NoEvent) ELSE work[s]]
  BY DEF Dispatch
<1>2. \A s \in Streams : Append(work[s], NoEvent) \in Seq(Events \cup {NoEvent})
  BY AppendProperties DEF WorkType
<1> QED
  BY <1>1, <1>2 DEF WorkType

LEMMA DispatchEvents ==
  ASSUME EventsInv, NEW t \in Threads, Dispatch(t)
  PROVE  EventsInv'
<1>1. WorkType
  BY DEF EventsInv
<1>2. /\ WorkType'
      /\ \A s \in Streams :
           work'[s] = work[s] \/ work'[s] = Append(work[s], NoEvent)
  BY <1>1, Dispatched
<1>3. \A s \in Streams :
        Elements(work'[s]) \subseteq Elements(work[s]) \cup {NoEvent}
  <2>1. \A s \in Streams :
          Elements(Append(work[s], NoEvent)) = Elements(work[s]) \cup {NoEvent}
    BY <1>1, AppendElements DEF WorkType
  <2> QED
    BY <1>2, <2>1
<1>4. UNCHANGED events
  BY DEF Dispatch
<1> QED
  BY <1>2, <1>3, <1>4, LessWork

(* A stream is done with the first of its launches. *)
LEMMA Executed ==
  ASSUME WorkType, NEW s \in Streams, Execute(s)
  PROVE  /\ WorkType'
         /\ work[s] # << >> /\ work'[s] = Tail(work[s])
         /\ \A q \in Streams \ {s} : work'[q] = work[q]
<1>1. work' = [work EXCEPT ![s] = Tail(work[s])] /\ work[s] # << >>
  BY DEF Execute
<1>2. Tail(work[s]) \in Seq(Events \cup {NoEvent})
  BY <1>1, HeadTailProperties DEF WorkType
<1> QED
  BY <1>1, <1>2 DEF WorkType

LEMMA ExecuteEvents ==
  ASSUME EventsInv, NEW s \in Streams, Execute(s)
  PROVE  EventsInv'
<1>1. /\ WorkType /\ WorkType'
      /\ work[s] # << >> /\ work'[s] = Tail(work[s])
      /\ \A q \in Streams \ {s} : work'[q] = work[q]
  BY Executed DEF EventsInv
<1>2. \A q \in Streams : Elements(work'[q]) \subseteq Elements(work[q])
  BY <1>1, TailElements DEF WorkType
<1>3. UNCHANGED events
  BY DEF Execute
<1> QED
  BY <1>1, <1>2, <1>3, LessWork

-----------------------------------------------------------------------------
(* What holds of the wrapper whatever its callers and the streams do. *)

LockTypes ==
  /\ gil \in Threads \cup {Nobody}
  /\ engine_mutex \in Threads \cup {Nobody}
  /\ pc \in [Threads -> {"idle", "enter", "dispatch", "reacquire", "record"}]
  /\ todo \in [Threads -> SUBSET Streams]
  /\ outcome \in [Threads -> {"ok", "raised"}]

GraphTypes ==
  /\ capturing \in [Streams -> Shapes \cup {NoShape}]
  /\ graph_exec \in Shapes \cup {NoShape}
  /\ is_instantiated \in BOOLEAN
  /\ shape \in Shapes \cup {NoShape}

IInv ==
  /\ LockTypes
  /\ GraphTypes
  /\ BlockTypes
  /\ BlocksConserved
  /\ EventsInv

LEMMA TypesMean == IInv => TypeOK
BY DEF IInv, LockTypes, GraphTypes, BlockTypes, EventsInv, PoolTypes, WorkType,
       TypeOK

LEMMA InitIInv == Init => IInv
<1> SUFFICES ASSUME Init PROVE IInv
  OBVIOUS
<1>1. EventsInv
  BY InitEvents
<1>2. LockTypes /\ GraphTypes
  BY DEF Init, LockTypes, GraphTypes
<1>3. NumBlocks \in Nat
  BY GraphAssumption DEF GraphAssumption
<1>4. BlockTypes
  <2>1. << >> \in Seq(Blocks)
    BY EmptySeq
  <2>2. \A k \in 1 .. NumBlocks : k - 1 \in Blocks
    BY <1>3 DEF Blocks
  <2>3. free_blocks \in [1 .. NumBlocks -> Blocks]
    BY <2>2 DEF Init
  <2> QED
    BY <1>3, <2>1, <2>3 DEF Init, BlockTypes
<1>5. BlocksConserved
  <2>1. AllBlocks = free_blocks
    BY <1>4, ConcatEmptySeq DEF AllBlocks, BlockTypes, Init
  <2>2. /\ DOMAIN free_blocks = 1 .. NumBlocks
        /\ \A k \in 1 .. NumBlocks : free_blocks[k] = k - 1
    BY DEF Init
  <2>3. Elements(free_blocks) \subseteq Blocks
    BY <1>3, <2>2 DEF Elements, Blocks
  <2>4. ASSUME NEW b \in Blocks PROVE b \in Elements(free_blocks)
    <3>1. b + 1 \in 1 .. NumBlocks /\ (b + 1) - 1 = b
      BY <1>3 DEF Blocks
    <3> QED
      BY <2>2, <3>1 DEF Elements
  <2>5. ~ Repeats(free_blocks)
    BY <1>3, <2>2 DEF Repeats
  <2> QED
    BY <2>1, <2>3, <2>4, <2>5 DEF BlocksConserved, AllBlocks
<1> QED
  BY <1>1, <1>2, <1>4, <1>5 DEF IInv

LEMMA BlocksNeeded == \A sh \in Shapes : blocks_needed(sh) \in Nat
<1> SUFFICES ASSUME NEW sh \in Shapes PROVE blocks_needed(sh) \in Nat
  OBVIOUS
<1>1. sh.seq_len \in Nat /\ TokensPerBlock \in Nat \ {0}
  BY GraphAssumption DEF GraphAssumption
<1>2. \A m \in Nat, n \in Nat \ {0} : m \div n \in Nat
  OBVIOUS
<1>3. sh.seq_len + TokensPerBlock - 1 \in Nat
  BY <1>1
<1> QED
  BY <1>1, <1>2, <1>3 DEF blocks_needed

LEMMA LocksStep ==
  ASSUME LockTypes, GraphTypes, Next
  PROVE  LockTypes' /\ GraphTypes'
<1> USE DEF LockTypes, GraphTypes
<1>1. ASSUME NEW t \in Threads, Call(t)
      PROVE  LockTypes' /\ GraphTypes'
  BY <1>1 DEF Call, graphVars
<1>2. ASSUME NEW t \in Threads, invalidate(t)
      PROVE  LockTypes' /\ GraphTypes'
  BY <1>2 DEF invalidate, discard_graph, Leave
<1>3. ASSUME NEW t \in Threads, NEW sh \in Shapes, begin_capture_valid(t, sh)
      PROVE  LockTypes' /\ GraphTypes'
  BY <1>3 DEF begin_capture_valid, Leave, graphVars
<1>4. ASSUME NEW t \in Threads, NEW sh \in Shapes, NEW s \in Streams,
             begin_capture(t, s, sh)
      PROVE  LockTypes' /\ GraphTypes'
  <2>1. LockTypes'
    BY <1>4 DEF begin_capture, Leave
  <2>2. /\ graph_exec' = NoShape /\ is_instantiated' = FALSE /\ shape' = sh
        /\ capturing' = [capturing EXCEPT ![s] = sh] \/ UNCHANGED capturing
    BY <1>4 DEF begin_capture, discard_graph
  <2>3. GraphTypes'
    BY <2>2
  <2> QED
    BY <2>1, <2>3
<1>5. ASSUME NEW t \in Threads, NEW s \in Streams,
             end_capture(t, s) \/ end_capture_fails(t, s)
      PROVE  LockTypes' /\ GraphTypes'
  BY <1>5 DEF end_capture, end_capture_fails, Leave
<1>6. ASSUME NEW t \in Threads, launch_refused(t)
      PROVE  LockTypes' /\ GraphTypes'
  BY <1>6 DEF launch_refused, Leave, graphVars
<1>7. ASSUME NEW t \in Threads, NEW stream_objs \in SUBSET Streams,
             launch(t, stream_objs)
      PROVE  LockTypes' /\ GraphTypes'
  BY <1>7 DEF launch, graphVars
<1>8. ASSUME NEW t \in Threads, Dispatch(t) \/ Reacquire(t) \/ LaunchReturns(t)
      PROVE  LockTypes' /\ GraphTypes'
  BY <1>8 DEF Dispatch, Reacquire, LaunchReturns, Leave, graphVars
<1>9. ASSUME NEW t \in Threads, NEW s \in Streams,
             RecordPooled(t, s) \/ RecordCreated(t, s) \/ SynchronizeInstead(t, s)
      PROVE  LockTypes' /\ GraphTypes'
  BY <1>9 DEF RecordPooled, RecordCreated, SynchronizeInstead, Done, graphVars
<1>10. ASSUME NEW s \in Streams, Execute(s)
       PROVE  LockTypes' /\ GraphTypes'
  BY <1>10 DEF Execute, locks, graphVars
<1> QED
  BY <1>1, <1>2, <1>3, <1>4, <1>5, <1>6, <1>7, <1>8, <1>9, <1>10
     DEF Next, Method, LaunchStep

LEMMA BlocksStep ==
  ASSUME BlockTypes, BlocksConserved, Next
  PROVE  BlockTypes' /\ BlocksConserved'
<1>1. ASSUME NEW t \in Threads, invalidate(t)
      PROVE  BlockTypes' /\ BlocksConserved'
  BY <1>1, FreedBlocks DEF invalidate
<1>2. ASSUME NEW t \in Threads, NEW sh \in Shapes, NEW s \in Streams,
             begin_capture(t, s, sh)
      PROVE  BlockTypes' /\ BlocksConserved'
  <2> DEFINE available == Len(free_blocks) + Len(current_block_table)
             n == Smaller(blocks_needed(sh), available)
  <2>1. Len(AllBlocks) = available /\ available \in Nat
    BY ConcatProperties, LenProperties DEF BlockTypes, AllBlocks
  <2>2. n \in 0 .. Len(AllBlocks)
    BY <2>1, BlocksNeeded DEF Smaller
  <2>3. allocate_blocks(n)
    BY <1>2 DEF begin_capture
  <2> QED
    BY <2>2, <2>3, AllocatedBlocks
<1>3. UNCHANGED blocks => BlockTypes' /\ BlocksConserved'
  BY DEF blocks, BlockTypes, BlocksConserved, Blocks
<1>4. \/ UNCHANGED blocks
      \/ \E t \in Threads : invalidate(t)
      \/ \E t \in Threads, sh \in Shapes, s \in Streams : begin_capture(t, s, sh)
  BY DEF Next, Method, LaunchStep, Call, begin_capture_valid, end_capture,
         end_capture_fails, launch_refused, launch, Dispatch, Reacquire,
         RecordPooled, RecordCreated, SynchronizeInstead, LaunchReturns, Execute
<1> QED
  BY <1>1, <1>2, <1>3, <1>4

LEMMA EventsStep ==
  ASSUME EventsInv, Next
  PROVE  EventsInv'
<1>1. ASSUME NEW t \in Threads,
             \/ invalidate(t)
             \/ \E sh \in Shapes, s \in Streams : begin_capture(t, s, sh)
      PROVE  EventsInv'
  BY <1>1, DiscardEvents DEF invalidate, begin_capture
<1>2. ASSUME NEW t \in Threads,
             launch_refused(t) \/ \E S \in SUBSET Streams : launch(t, S)
      PROVE  EventsInv'
  BY <1>2, CleanEvents DEF launch_refused, launch
<1>3. ASSUME NEW t \in Threads,
             \/ Call(t) \/ Reacquire(t) \/ LaunchReturns(t)
             \/ \E sh \in Shapes : begin_capture_valid(t, sh)
             \/ \E s \in Streams : end_capture(t, s) \/ end_capture_fails(t, s)
      PROVE  EventsInv'
  <2>1. UNCHANGED <<events, work>>
    BY <1>3 DEF Call, Reacquire, LaunchReturns, begin_capture_valid,
                end_capture, end_capture_fails
  <2> QED
    BY <2>1, UnchangedEvents
<1>4. ASSUME NEW t \in Threads, NEW s \in Streams,
             RecordPooled(t, s) \/ RecordCreated(t, s) \/ SynchronizeInstead(t, s)
      PROVE  EventsInv'
  BY <1>4, RecordEvents, SynchronizeInsteadEvents
<1> QED
  BY <1>1, <1>2, <1>3, <1>4, DispatchEvents, ExecuteEvents
     DEF Next, Method, LaunchStep

LEMMA StepIInv == IInv /\ [Next]_graphWrapperVars => IInv'
<1> SUFFICES ASSUME IInv, [Next]_graphWrapperVars PROVE IInv'
  OBVIOUS
<1>1. CASE Next
  BY <1>1, LocksStep, BlocksStep, EventsStep DEF IInv
<1>2. CASE UNCHANGED graphWrapperVars
  <2>1. EventsInv'
    BY <1>2, UnchangedEvents DEF graphWrapperVars, IInv
  <2> QED
    BY <1>2, <2>1 DEF graphWrapperVars, locks, graphVars, blocks, IInv,
                      LockTypes, GraphTypes, BlockTypes, BlocksConserved, Blocks
<1> QED
  BY <1>1, <1>2

(* Whatever threads, callers and streams do, the invariant of the locks,   *)
(* the block pool and the event pool holds.                                *)
THEOREM Invariance == Spec => []IInv
<1>1. Init => IInv
  BY InitIInv
<1>2. IInv /\ [Next]_graphWrapperVars => IInv'
  BY StepIInv
<1> QED
  BY <1>1, <1>2, PTL DEF Spec

(* The variables of the wrapper keep their types, and the event pool its   *)
(* bound.                                                                  *)
THEOREM TypeCorrect == Spec => []TypeOK
BY TypesMean, Invariance, PTL

(* No KV block is ever lost, or in use twice (BlockManager.h 73-82,        *)
(* GraphWrapper.cpp 100-104 and 134-145).                                  *)
THEOREM NoBlockLost == Spec => []BlocksConserved
<1>1. IInv => BlocksConserved
  BY DEF IInv
<1> QED
  BY <1>1, Invariance, PTL

(* An event belongs to one launch or rests in the pool (GraphWrapper.cpp   *)
(* 107-119 and 205-232).                                                   *)
THEOREM OneOwnerEach == Spec => []EventsOwnedOnce
<1>1. IInv => EventsOwnedOnce
  BY EventsMean DEF IInv
<1> QED
  BY <1>1, Invariance, PTL

-----------------------------------------------------------------------------
(* Captures that nobody interrupts: at most one stream captures, for the   *)
(* current shape, with its blocks and without a graph.                     *)

Fits ==
  /\ is_instantiated => graph_exec = shape
  /\ graph_exec # NoShape => is_instantiated
  /\ is_instantiated => Len(current_block_table) = blocks_needed(shape)
  /\ \A s \in Streams : capturing[s] # NoShape =>
       /\ capturing[s] = shape
       /\ Len(current_block_table) = blocks_needed(shape)
       /\ ~ is_instantiated
  /\ \A r, s \in Streams :
       capturing[r] # NoShape /\ capturing[s] # NoShape => r = s

LEMMA FitsMean ==
  ASSUME Fits, GraphTypes
  PROVE  GraphFitsShape
BY DEF Fits, GraphTypes, GraphFitsShape, is_valid, NoCapture

LEMMA FitsStep ==
  ASSUME CapturesUninterrupted, IInv, Fits, [Next]_graphWrapperVars
  PROVE  Fits'
<1>1. GraphTypes /\ BlockTypes /\ NoShape \notin Shapes
  BY GraphAssumption DEF GraphAssumption, IInv
<1>2. ASSUME NEW t \in Threads, invalidate(t)
      PROVE  Fits'
  BY <1>1, <1>2
     DEF Fits, GraphTypes, invalidate, discard_graph, NoCapture
<1>3. ASSUME NEW t \in Threads, NEW sh \in Shapes, NEW s \in Streams,
             begin_capture(t, s, sh)
      PROVE  Fits'
  <2> DEFINE available == Len(free_blocks) + Len(current_block_table)
             n == Smaller(blocks_needed(sh), available)
  <2>1. Len(AllBlocks) = available /\ available \in Nat
    BY <1>1, ConcatProperties, LenProperties DEF BlockTypes, AllBlocks
  <2>2. n \in 0 .. Len(AllBlocks)
    BY <2>1, BlocksNeeded DEF Smaller
  <2>3. Len(current_block_table') = n
    BY <1>1, <1>3, <2>2, AllocatedBlocks DEF begin_capture
  <2>4. /\ NoCapture /\ shape' = sh /\ graph_exec' = NoShape /\ ~ is_instantiated'
        /\ \/ /\ blocks_needed(sh) <= available
              /\ capturing' = [capturing EXCEPT ![s] = sh]
           \/ capturing' = capturing
    BY <1>3 DEF begin_capture, discard_graph
  <2>5. blocks_needed(sh) <= available => n = blocks_needed(sh)
    BY DEF Smaller
  <2> HIDE DEF n, available
  <2> QED
    BY <1>1, <2>3, <2>4, <2>5 DEF Fits, GraphTypes, NoCapture, blocks_needed
<1>4. ASSUME NEW t \in Threads, NEW s \in Streams, end_capture(t, s)
      PROVE  Fits'
  BY <1>1, <1>4 DEF Fits, GraphTypes, end_capture, blocks, blocks_needed
<1>5. ASSUME NEW t \in Threads, NEW s \in Streams, end_capture_fails(t, s)
      PROVE  Fits'
  BY <1>1, <1>5 DEF Fits, GraphTypes, end_capture_fails, blocks, blocks_needed
<1>6. UNCHANGED <<graphVars, blocks>> => Fits'
  BY DEF Fits, graphVars, blocks, blocks_needed
<1>7. \/ UNCHANGED <<graphVars, blocks>>
      \/ \E t \in Threads :
           \/ invalidate(t)
           \/ \E sh \in Shapes, s \in Streams : begin_capture(t, s, sh)
           \/ \E s \in Streams : end_capture(t, s) \/ end_capture_fails(t, s)
  BY DEF Next, Method, LaunchStep, Call, begin_capture_valid, launch_refused,
         launch, Dispatch, Reacquire, RecordPooled, RecordCreated,
         SynchronizeInstead, LaunchReturns, Execute, graphWrapperVars
<1> QED
  BY <1>2, <1>3, <1>4, <1>5, <1>6, <1>7

(* If captures are not interrupted, a graph that is_valid says can be      *)
(* launched was captured for that shape and has the blocks of that shape,  *)
(* and no capture replaces a graph without destroying it (GraphWrapper.cpp *)
(* 121-164).                                                               *)
THEOREM GraphMatchesShape ==
  CapturesUninterrupted => (Spec => []GraphFitsShape)
<1> SUFFICES ASSUME CapturesUninterrupted PROVE Spec => []GraphFitsShape
  OBVIOUS
<1>1. Init => Fits
  BY DEF Init, Fits
<1>2. IInv /\ Fits /\ [Next]_graphWrapperVars => Fits'
  BY FitsStep
<1>3. IInv /\ Fits => GraphFitsShape
  BY FitsMean DEF IInv
<1> QED
  BY <1>1, <1>2, <1>3, Invariance, PTL DEF Spec

-----------------------------------------------------------------------------
(* Launches that do not fail: what runs is held.                           *)

AtWork(t, s) == s \in todo[t] /\ pc[t] \in {"reacquire", "record"}

Held ==
  /\ \A t \in Threads : pc[t] \in {"dispatch", "reacquire", "record"} =>
       engine_mutex = t
  /\ \A t \in Threads : pc[t] = "reacquire" => outcome[t] = "ok"
  /\ RunningLaunchesHeld

AllHeld == \A s \in Streams : Elements(work[s]) \subseteq InFlight

(* Nobody being at work, all that runs has an event in flight. *)
LEMMA NobodyAtWork ==
  ASSUME RunningLaunchesHeld,
         \A t \in Threads : pc[t] \notin {"reacquire", "record"}
  PROVE  AllHeld
BY DEF RunningLaunchesHeld, AllHeld, Elements, InFlight

(* A method that gets the mutex finds nobody at work. *)
LEMMA Entering ==
  ASSUME Held, NEW t \in Threads, Enters(t)
  PROVE  /\ AllHeld
         /\ \A u \in Threads : pc[u] \notin {"dispatch", "reacquire", "record"}
<1>1. \A u \in Threads : pc[u] \notin {"dispatch", "reacquire", "record"}
  BY GraphAssumption DEF GraphAssumption, Held, Enters
<1> QED
  BY <1>1, NobodyAtWork DEF Held

LEMMA HeldAfter ==
  ASSUME AllHeld',
         \A u \in Threads : pc'[u] \notin {"reacquire", "record"},
         \A u \in Threads : pc'[u] = "dispatch" => engine_mutex' = u
  PROVE  Held'
BY DEF Held, RunningLaunchesHeld, AllHeld, Elements, InFlight

(* What is waiting for an event still waits for one after the cleanup. *)
LEMMA CleanedHeld ==
  ASSUME EventsInv, AllHeld, cleanup_in_flight_states \/ cleanup_raises,
         UNCHANGED work
  PROVE  AllHeld'
<1>1. \A e \in InFlight : e \in InFlight' \/ Completed(e)
  BY Cleaned, GraphAssumption DEF EventsInv
<1>2. ASSUME NEW s \in Streams, NEW e \in Elements(work[s])
      PROVE  e \in InFlight'
  BY <1>1, <1>2, CompletedElements DEF AllHeld
<1> QED
  BY <1>2 DEF AllHeld

(* A call that gets the mutex and lets go of it at its end. *)
LEMMA MethodHeld ==
  ASSUME IInv, Held, NEW t \in Threads, Enters(t),
         Leave(t, "ok") \/ Leave(t, "raised"),
         \/ UNCHANGED <<events, work>>
         \/ (cleanup_in_flight_states \/ cleanup_raises) /\ UNCHANGED work
         \/ discard_graph
  PROVE  Held'
<1>1. AllHeld /\ \A u \in Threads : pc[u] \notin {"dispatch", "reacquire", "record"}
  BY Entering
<1>2. \A u \in Threads : pc'[u] \notin {"dispatch", "reacquire", "record"}
  BY <1>1 DEF Leave, IInv, LockTypes
<1>3. AllHeld'
  <2>1. CASE UNCHANGED <<events, work>>
    BY <1>1, <2>1 DEF AllHeld, InFlight, events
  <2>2. CASE (cleanup_in_flight_states \/ cleanup_raises) /\ UNCHANGED work
    BY <1>1, <2>2, CleanedHeld DEF IInv
  <2>3. CASE discard_graph
    <3>1. \A s \in Streams : work'[s] = << >>
      BY <1>1, <2>3, Synchronized DEF discard_graph, AllHeld, IInv, EventsInv
    <3> QED
      BY <3>1 DEF AllHeld, Elements
  <2> QED
    BY <2>1, <2>2, <2>3
<1> QED
  BY <1>2, <1>3, HeldAfter

(* The launches are queued, with nothing recorded after them yet. *)
LEMMA DispatchHeld ==
  ASSUME ~ LaunchMayFail, IInv, Held, NEW t \in Threads, Dispatch(t)
  PROVE  Held'
<1>1. /\ pc[t] = "dispatch" /\ pc' = [pc EXCEPT ![t] = "reacquire"]
      /\ work' = [s \in Streams |->
           IF s \in todo[t] THEN Append(work[s], NoEvent) ELSE work[s]]
      /\ outcome' = [outcome EXCEPT ![t] = "ok"]
      /\ UNCHANGED <<engine_mutex, todo, in_flight_states>>
  BY DEF Dispatch, events
<1>2. \A u \in Threads : /\ u # t => pc'[u] = pc[u] /\ outcome'[u] = outcome[u]
                         /\ u = t => pc'[u] = "reacquire" /\ outcome'[u] = "ok"
  BY <1>1 DEF IInv, LockTypes
<1>3. \A u \in Threads \ {t} : pc[u] \notin {"dispatch", "reacquire", "record"}
  BY <1>1 DEF Held
<1>4. AllHeld
  BY <1>1, <1>3, NobodyAtWork DEF Held
<1>5. ASSUME NEW s \in Streams, NEW k \in DOMAIN work'[s]
      PROVE  \/ work'[s][k] \in Elements(in_flight_states')
             \/ k = Len(work'[s]) /\ s \in todo'[t]
  <2>1. work[s] \in Seq(Events \cup {NoEvent}) /\ DOMAIN work[s] = 1 .. Len(work[s])
    BY LenProperties DEF IInv, EventsInv, WorkType
  <2>2. \A j \in DOMAIN work[s] : work[s][j] \in Elements(in_flight_states)
    BY <1>4 DEF AllHeld, Elements, InFlight
  <2>3. CASE s \notin todo[t]
    BY <1>1, <2>2, <2>3, <1>5
  <2>4. CASE s \in todo[t]
    <3>1. work'[s] = Append(work[s], NoEvent)
      BY <1>1, <2>4
    <3>2. /\ Len(work'[s]) = Len(work[s]) + 1
          /\ DOMAIN work'[s] = 1 .. Len(work[s]) + 1
          /\ \A j \in 1 .. Len(work[s]) : work'[s][j] = work[s][j]
      BY <2>1, <3>1, AppendProperties, LenProperties
    <3>3. Len(work[s]) \in Nat
      BY <2>1, LenProperties
    <3>4. k \in 1 .. Len(work[s]) \/ k = Len(work[s]) + 1
      BY <1>5, <3>2, <3>3
    <3> QED
      BY <1>1, <2>1, <2>2, <2>4, <3>2, <3>4
  <2> QED
    BY <2>3, <2>4
<1>6. RunningLaunchesHeld'
  BY <1>2, <1>5 DEF RunningLaunchesHeld
<1> QED
  BY <1>1, <1>2, <1>6 DEF Held

(* The thread with the mutex is done with one stream: its event is in      *)
(* flight, or the stream has been waited for.                              *)
LEMMA RecordHeld ==
  ASSUME IInv, Held, NEW t \in Threads, NEW s \in Streams,
         RecordPooled(t, s) \/ RecordCreated(t, s) \/ SynchronizeInstead(t, s)
  PROVE  Held'
<1>1. /\ pc[t] = "record" /\ s \in todo[t]
      /\ todo' = [todo EXCEPT ![t] = todo[t] \ {s}]
      /\ UNCHANGED <<pc, engine_mutex, outcome>>
  BY DEF RecordPooled, RecordCreated, SynchronizeInstead, Done
<1>2. /\ \A q \in Streams \ {s} : work'[q] = work[q]
      /\ InFlight \subseteq InFlight'
      /\ \/ work'[s] = << >>
         \/ /\ DOMAIN work'[s] = DOMAIN work[s]
            /\ \A k \in DOMAIN work[s] :
                 IF k = Len(work[s]) THEN work'[s][k] \in InFlight'
                                     ELSE work'[s][k] = work[s][k]
  <2>1. CASE SynchronizeInstead(t, s)
    BY <2>1 DEF SynchronizeInstead, InFlight, IInv, EventsInv, WorkType
  <2>2. CASE RecordPooled(t, s) \/ RecordCreated(t, s)
    <3>1. PICK e \in Events :
            hipEventRecord(e, s) /\ in_flight_states' = Append(in_flight_states, e)
      <4>1. CASE RecordPooled(t, s)
        <5>1. Head(event_pool) \in Events
          BY <4>1, HeadTailProperties DEF RecordPooled, IInv, EventsInv, PoolTypes
        <5> QED
          BY <4>1, <5>1 DEF RecordPooled, KeepInFlight
      <4>2. CASE RecordCreated(t, s)
        <5> DEFINE e == CHOOSE e \in Events : e \notin Elements(in_flight_states)
        <5>1. e \in Events
          BY <4>2 DEF RecordCreated
        <5> QED
          BY <4>2, <5>1 DEF RecordCreated, KeepInFlight
      <4> QED
        BY <2>2, <4>1, <4>2
    <3>2. InFlight' = InFlight \cup {e}
      BY <3>1, AppendElements DEF IInv, EventsInv, PoolTypes, InFlight
    <3>3. /\ \A q \in Streams \ {s} : work'[q] = work[q]
          /\ DOMAIN work'[s] = DOMAIN work[s]
          /\ \A k \in DOMAIN work[s] :
               work'[s][k] = IF k = Len(work[s]) THEN e ELSE work[s][k]
      BY <3>1, Recorded DEF IInv, EventsInv
    <3> QED
      BY <3>2, <3>3
  <2> QED
    BY <2>1, <2>2
<1>3. \A u \in Threads : /\ u # t => todo'[u] = todo[u]
                         /\ u = t => todo'[u] = todo[u] \ {s}
  BY <1>1 DEF IInv, LockTypes
<1>4. ASSUME NEW q \in Streams, NEW k \in DOMAIN work'[q]
      PROVE  \/ work'[q][k] \in InFlight'
             \/ k = Len(work'[q]) /\ \E u \in Threads : AtWork(u, q)'
  <2>1. \A r \in Streams : \A j \in DOMAIN work[r] :
          \/ work[r][j] \in InFlight
          \/ j = Len(work[r]) /\ \E u \in Threads : AtWork(u, r)
    BY DEF Held, RunningLaunchesHeld, InFlight, AtWork
  <2>2. CASE q # s
    <3>1. work'[q] = work[q]
      BY <1>2, <2>2
    <3>2. \A u \in Threads : AtWork(u, q) => AtWork(u, q)'
      BY <1>1, <1>3, <2>2 DEF AtWork
    <3> QED
      BY <1>2, <1>4, <2>1, <3>1, <3>2
  <2>3. CASE q = s
    <3>1. k \in DOMAIN work[s]
      BY <1>2, <1>4, <2>3
    <3> QED
      BY <1>2, <2>1, <2>3, <3>1
  <2> QED
    BY <2>2, <2>3
<1>5. RunningLaunchesHeld'
  BY <1>4 DEF RunningLaunchesHeld, InFlight, AtWork
<1> QED
  BY <1>1, <1>5 DEF Held

LEMMA ExecuteHeld ==
  ASSUME IInv, Held, NEW s \in Streams, Execute(s)
  PROVE  Held'
<1>1. /\ work[s] \in Seq(Events \cup {NoEvent}) /\ work[s] # << >>
      /\ work'[s] = Tail(work[s])
      /\ \A q \in Streams \ {s} : work'[q] = work[q]
  BY Executed DEF IInv, EventsInv, WorkType
<1>2. UNCHANGED <<engine_mutex, pc, todo, outcome, in_flight_states>>
  BY DEF Execute, locks, events
<1>3. /\ Len(work[s]) \in Nat \ {0} /\ DOMAIN work[s] = 1 .. Len(work[s])
      /\ Len(work'[s]) = Len(work[s]) - 1
      /\ DOMAIN work'[s] = 1 .. Len(work[s]) - 1
      /\ \A k \in 1 .. Len(work[s]) - 1 : work'[s][k] = work[s][k + 1]
  BY <1>1, HeadTailProperties, EmptySeq, LenProperties
<1>4. \A k \in DOMAIN work'[s] :
        /\ k + 1 \in DOMAIN work[s] /\ work'[s][k] = work[s][k + 1]
        /\ k + 1 = Len(work[s]) => k = Len(work'[s])
  BY <1>3
<1>5. ASSUME NEW q \in Streams, NEW k \in DOMAIN work'[q]
      PROVE  \/ work'[q][k] \in InFlight
             \/ k = Len(work'[q]) /\ \E u \in Threads : AtWork(u, q)
  <2>1. \A r \in Streams : \A j \in DOMAIN work[r] :
          \/ work[r][j] \in InFlight
          \/ j = Len(work[r]) /\ \E u \in Threads : AtWork(u, r)
    BY DEF Held, RunningLaunchesHeld, InFlight, AtWork
  <2>2. CASE q # s
    <3>1. work'[q] = work[q]
      BY <1>1, <2>2
    <3> QED
      BY <1>5, <2>1, <3>1
  <2>3. CASE q = s
    BY <1>4, <1>5, <2>1, <2>3
  <2> QED
    BY <2>2, <2>3
<1>6. RunningLaunchesHeld'
  BY <1>2, <1>5 DEF RunningLaunchesHeld, InFlight, AtWork
<1> QED
  BY <1>2, <1>6 DEF Held

(* Only invalidate and begin_capture destroy a graph. *)
LEMMA DestroyStep ==
  ASSUME IInv, Held, [Next]_graphWrapperVars,
         graph_exec # NoShape, graph_exec' = NoShape
  PROVE  \A s \in Streams : work'[s] = << >>
<1>1. \E t \in Threads : Enters(t) /\ discard_graph
  BY DEF Next, Method, LaunchStep, Call, invalidate, begin_capture,
         begin_capture_valid, end_capture, end_capture_fails, launch_refused,
         launch, Dispatch, Reacquire, RecordPooled, RecordCreated,
         SynchronizeInstead, LaunchReturns, Execute, graphWrapperVars, graphVars
<1>2. AllHeld
  BY <1>1, Entering
<1> QED
  BY <1>1, <1>2, Synchronized DEF discard_graph, AllHeld, IInv, EventsInv

LEMMA HeldStep ==
  ASSUME ~ LaunchMayFail, IInv, Held, [Next]_graphWrapperVars
  PROVE  Held'
<1> USE DEF IInv
<1>1. ASSUME NEW t \in Threads, Method(t)
      PROVE  Held'
  <2>1. CASE \E S \in SUBSET Streams : launch(t, S)
    <3>1. /\ Enters(t) /\ cleanup_in_flight_states /\ UNCHANGED work
          /\ pc' = [pc EXCEPT ![t] = "dispatch"] /\ engine_mutex' = t
      BY <2>1 DEF launch
    <3>2. AllHeld /\ \A u \in Threads : pc[u] \notin {"dispatch", "reacquire", "record"}
      BY <3>1, Entering
    <3>3. AllHeld'
      BY <3>1, <3>2, CleanedHeld
    <3>4. /\ \A u \in Threads : pc'[u] \notin {"reacquire", "record"}
          /\ \A u \in Threads : pc'[u] = "dispatch" => engine_mutex' = u
      BY <3>1, <3>2 DEF LockTypes
    <3> QED
      BY <3>3, <3>4, HeldAfter
  <2>2. CASE ~ \E S \in SUBSET Streams : launch(t, S)
    <3>1. /\ Enters(t)
          /\ Leave(t, "ok") \/ Leave(t, "raised")
          /\ \/ UNCHANGED <<events, work>>
             \/ (cleanup_in_flight_states \/ cleanup_raises) /\ UNCHANGED work
             \/ discard_graph
      BY <1>1, <2>2 DEF Method, invalidate, begin_capture_valid, begin_capture,
         end_capture, end_capture_fails, launch_refused
    <3> QED
      BY <3>1, MethodHeld
  <2> QED
    BY <2>1, <2>2
<1>2. ASSUME NEW t \in Threads, Call(t)
      PROVE  Held'
  <2>1. /\ pc[t] = "idle" /\ pc' = [pc EXCEPT ![t] = "enter"]
        /\ UNCHANGED <<engine_mutex, todo, outcome, in_flight_states, work>>
    BY <1>2 DEF Call, events
  <2>2. \A u \in Threads : /\ u # t => pc'[u] = pc[u]
                           /\ u = t => pc[u] = "idle" /\ pc'[u] = "enter"
    BY <2>1 DEF LockTypes
  <2> QED
    BY <2>1, <2>2 DEF Held, RunningLaunchesHeld
<1>3. ASSUME NEW t \in Threads, Dispatch(t)
      PROVE  Held'
  BY <1>3, DispatchHeld
<1>4. ASSUME NEW t \in Threads, Reacquire(t)
      PROVE  Held'
  <2>1. /\ pc[t] = "reacquire" /\ pc' = [pc EXCEPT ![t] = "record"]
        /\ UNCHANGED <<engine_mutex, todo, outcome, in_flight_states, work>>
    BY <1>4 DEF Reacquire, Held, events
  <2>2. \A u \in Threads : /\ u # t => pc'[u] = pc[u]
                           /\ u = t => pc'[u] = "record"
    BY <2>1 DEF LockTypes
  <2> QED
    BY <2>1, <2>2 DEF Held, RunningLaunchesHeld
<1>5. ASSUME NEW t \in Threads, NEW s \in Streams,
             RecordPooled(t, s) \/ RecordCreated(t, s) \/ SynchronizeInstead(t, s)
      PROVE  Held'
  BY <1>5, RecordHeld
<1>6. ASSUME NEW t \in Threads, LaunchReturns(t)
      PROVE  Held'
  <2>1. /\ pc[t] = "record" /\ todo[t] = {}
        /\ pc' = [pc EXCEPT ![t] = "idle"]
        /\ UNCHANGED <<in_flight_states, work>>
    BY <1>6 DEF LaunchReturns, Leave, events
  <2>2. \A u \in Threads \ {t} : pc[u] \notin {"dispatch", "reacquire", "record"}
    BY <2>1 DEF Held
  <2>3. AllHeld
    BY <2>1, <2>2 DEF Held, RunningLaunchesHeld, AllHeld, Elements, InFlight
  <2>4. AllHeld' /\ \A u \in Threads : pc'[u] \notin {"dispatch", "reacquire", "record"}
    BY <2>1, <2>2, <2>3 DEF AllHeld, InFlight, LockTypes
  <2> QED
    BY <2>4, HeldAfter
<1>7. ASSUME NEW s \in Streams, Execute(s)
      PROVE  Held'
  BY <1>7, ExecuteHeld
<1>8. CASE UNCHANGED graphWrapperVars
  BY <1>8 DEF graphWrapperVars, locks, events, Held, RunningLaunchesHeld
<1> QED
  BY <1>1, <1>2, <1>3, <1>4, <1>5, <1>6, <1>7, <1>8 DEF Next, LaunchStep

(* As long as no launch fails, what runs on a stream is kept alive by an   *)
(* event or by the launch that is at it (GraphWrapper.h 156,               *)
(* GraphWrapper.cpp 224-233).                                              *)
THEOREM LaunchesStayHeld == ~ LaunchMayFail => (Spec => []RunningLaunchesHeld)
<1> SUFFICES ASSUME ~ LaunchMayFail PROVE Spec => []RunningLaunchesHeld
  OBVIOUS
<1>1. Init => Held
  BY DEF Init, Held, RunningLaunchesHeld
<1>2. IInv /\ Held /\ [Next]_graphWrapperVars => Held'
  BY HeldStep
<1>3. Held => RunningLaunchesHeld
  BY DEF Held
<1> QED
  BY <1>1, <1>2, <1>3, Invariance, PTL DEF Spec

(* As long as no launch fails, nothing runs when a graph is destroyed      *)
(* (GraphWrapper.cpp 69-75).                                               *)
THEOREM DestroyedWhenIdle == ~ LaunchMayFail => (Spec => DestroyedIdle)
<1> SUFFICES ASSUME ~ LaunchMayFail PROVE Spec => DestroyedIdle
  OBVIOUS
<1>1. Init => Held
  BY DEF Init, Held, RunningLaunchesHeld
<1>2. IInv /\ Held /\ [Next]_graphWrapperVars => Held'
  BY HeldStep
<1>3. IInv /\ Held /\ [Next]_graphWrapperVars =>
        [graph_exec # NoShape /\ graph_exec' = NoShape =>
           \A s \in Streams : work'[s] = << >>]_graphWrapperVars
  BY DestroyStep
<1> QED
  BY <1>1, <1>2, <1>3, Invariance, PTL DEF Spec, DestroyedIdle

=============================================================================
