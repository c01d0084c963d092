-------------------------------- MODULE Felt --------------------------------
(***************************************************************************)
(* The arithmetic of contracts/Richmetas.cairo.  Every number in the       *)
(* contract is a field element ("felt"), an integer modulo the prime P     *)
(* (about 2^251), so a sum or a difference silently wraps.  The only       *)
(* protection is assert_nn of the Cairo library, which accepts a felt in   *)
(* 0 .. 2^128 - 1 and rejects every other, the "negative" ones included.   *)
(* P and RangeCheckBound are small in the model-checked instances and      *)
(* arbitrary in the proofs.                                                *)
(***************************************************************************)
EXTENDS Integers

CONSTANTS P,                \* the prime of the field
          RangeCheckBound   \* 2^128, the bound of the range-check builtin

\* In the real field P is about 2^251 and the bound is 2^128.
ASSUME FieldAssumption ==
  /\ P \in Nat
  /\ RangeCheckBound \in Nat \ {0}
  /\ P >= 2 * RangeCheckBound

Felt == 0 .. P - 1

\* FeltAdd with a mistake, for the mutants of PROJECT.json.
FeltAdd_Slip(a, b) == a + b

\* a + b and a - b modulo P, for a and b already reduced.
FeltAdd(a, b) == IF a + b < P THEN a + b ELSE a + b - P
FeltSub(a, b) == IF a >= b THEN a - b ELSE a - b + P

\* assert_nn(a)
AssertNN(a) == a < RangeCheckBound
=============================================================================
