-------------------------- MODULE MCStarkRichmetas --------------------------
(***************************************************************************)
(* Small instances of the exchange for TLC.                                *)
(***************************************************************************)
EXTENDS Custody, TLC

CONSTANTS Nft,              \* the contract address of a collection
          alice, bob, l1, notL1

\* bob mints the tokens of Nft.
MCRegistration == {[contract |-> Nft, kind |-> KIND_ERC721, mint |-> bob]}

\* Nft as either kind and as neither, and Ether, registered already, once more.
MCRegistrations ==
  {[contract |-> Nft, kind |-> k, mint |-> bob] : k \in 0 .. 2} \cup
  {[contract |-> Ether, kind |-> KIND_ERC721, mint |-> bob]}

MCOnes == [c \in Contract |-> {1}]
\* P - 1 is the felt -1: assert_nn rejects it, deposit does not look.
MCNegative == [c \in Contract |-> IF c = Nft THEN {1} ELSE {1, P - 1}]

\* Every user signs everything.
MCSigned == [u \in User |-> Signable]

\* bob signs no withdrawal.
MCSignedSome ==
  [u \in User |-> IF u = bob THEN Signable \ WithdrawInputs ELSE Signable]

\* Nothing tells order identifiers apart.
MCSymmetry == Permutations(OrderId)
=============================================================================
