------------------------------- MODULE MCMirror -------------------------------
(***************************************************************************)
(* Small instances of the exchange and its mirror for TLC.                 *)
(***************************************************************************)
EXTENDS Mirror

CONSTANTS Nft,              \* the contract address of a collection
          alice, bob, l1

\* bob mints the tokens of Nft.
MCRegistration == {[contract |-> Nft, kind |-> KIND_ERC721, mint |-> bob]}

MCOnes == [c \in Contract |-> {1}]

\* Every user signs everything.
MCSigned == [u \in User |-> Signable]
=============================================================================
