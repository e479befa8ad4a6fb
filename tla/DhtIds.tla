------------------------------- MODULE DhtIds -------------------------------
(***************************************************************************)
(* The ids of dht.c: paths from the root of a tree, so bits are numbered   *)
(* from the start of an id.                                                *)
(***************************************************************************)
EXTENDS Integers, FiniteSets, FiniteSetsExt

CONSTANTS
  Bits,   \* 160: the length of an id
  MyId

\* The powers of two.
Power[k \in 0 .. Bits] == IF k = 0 THEN 1 ELSE 2 * Power[k - 1]
Ids == 0 .. Power[Bits] - 1

ASSUME DhtIdsAssumption == Bits \in Nat \ {0} /\ MyId \in Ids

Bit(id, b) == (id \div Power[Bits - 1 - b]) % 2
LowBit(id) == IF id = 0 THEN -1 ELSE Max({b \in 0 .. Bits - 1 : Bit(id, b) = 1})
CommonBits(a, b) == IF a = b THEN Bits ELSE Min({k \in 0 .. Bits - 1 : Bit(a, k) # Bit(b, k)})

\* xorcmp < 0: where a and b part, a goes with the reference.
Closer(a, b, ref) == a # b /\ Bit(a, CommonBits(a, b)) = Bit(ref, CommonBits(a, b))
=============================================================================
