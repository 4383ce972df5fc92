---------------------------- MODULE MachineWords ----------------------------
(***************************************************************************)
(* The integers of the C++ code: size_t and uint64_t have WordSize values, *)
(* int and unsigned have IntSize; the signed types have as many, half of   *)
(* them negative.                                                          *)
(***************************************************************************)
EXTENDS Integers

CONSTANTS WordSize, IntSize

ASSUME WordsAssumption ==
  /\ WordSize \in Nat /\ WordSize > 0 /\ WordSize % 2 = 0
  /\ IntSize \in Nat /\ IntSize > 0 /\ IntSize % 2 = 0

SizeMax  == WordSize - 1
Int64Max == WordSize \div 2 - 1
IntMax   == IntSize \div 2 - 1

(* Unsigned arithmetic wraps; a conversion keeps the low bits. *)
Word(n)     == n % WordSize
Unsigned(n) == n % IntSize

Signed(n, size) == IF n < size \div 2 THEN n ELSE n - size
ToInt(n)        == Signed(n % IntSize, IntSize)
ToInt64(n)      == Signed(n % WordSize, WordSize)

=============================================================================
