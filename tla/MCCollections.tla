---------------------------- MODULE MCCollections ----------------------------
(***************************************************************************)
(* Two addresses, two minters and a blueprint.  r1 and r2 compete for the  *)
(* blueprint, r1, r3 and r4 for an address; r3 and r4 have no blueprint.   *)
(***************************************************************************)
EXTENDS Collections

CONSTANTS c1, c2, m1, m2, p1, r1, r2, r3, r4

MCBlueprints == {<<p1, m1>>}

MCWants ==
  [r \in Request |->
     IF r = r3
     THEN [contract |-> c1, blueprint |-> NoRow, minter |-> m2, signer |-> m2]
     ELSE IF r = r4
     THEN [contract |-> c1, blueprint |-> NoRow, minter |-> m1, signer |-> m1]
     ELSE [contract |-> IF r = r1 THEN c1 ELSE c2,
           blueprint |-> p1, minter |-> NoRow, signer |-> m1]]

\* The admin registers c1 with the minter of r3 and c2 with another kind.
MCDirect == {[contract |-> c1, kind |-> KIND_ERC721, mint |-> m2],
             [contract |-> c2, kind |-> KIND_ERC20, mint |-> m1]}
=============================================================================
