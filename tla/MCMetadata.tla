------------------------------ MODULE MCMetadata ------------------------------
(***************************************************************************)
(* r1 and r2 have the first nonce, with different metadata, r3 and r4 the  *)
(* second one, and r5 the third.                                           *)
(***************************************************************************)
EXTENDS Metadata

CONSTANTS r1, r2, r3, r4, r5, d1, d2

MCNonceOf == [r \in Request |-> CASE r \in {r1, r2} -> 0 [] r \in {r3, r4} -> 1
                                  [] OTHER -> 2]
MCDataOf == [r \in Request |-> IF r \in {r1, r3} THEN d1 ELSE d2]
=============================================================================
