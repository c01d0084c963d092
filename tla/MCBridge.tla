------------------------------ MODULE MCBridge ------------------------------
(***************************************************************************)
(* Small instances of the bridge for TLC.                                  *)
(***************************************************************************)
EXTENDS Bridge, TLC

CONSTANTS Nft, Coin, alice, bob, l1, a1, otherL2,
          Supply              \* the amount of each currency that a1 starts with

\* bob mints the tokens of Nft; nobody mints Coin.
MCRegistration ==
  {r \in {[contract |-> Nft, kind |-> KIND_ERC721, mint |-> bob],
          [contract |-> Coin, kind |-> KIND_ERC20, mint |-> Nobody]} :
     r.contract \in Contract}

MCInputs == [c \in Contract |-> {1}]

\* Every user signs everything.
MCSigned == [u \in User |-> Signable]

\* All money is Coin: Ether exists, but nobody uses it.
MCInputsCoin == [c \in Contract |-> IF c = Ether THEN {} ELSE {1}]

MCInitialCoin ==
  [c \in Contract |-> [a \in Address |->
     IF c # Nft /\ a = a1 THEN Supply ELSE 0]]

\* Nothing tells order identifiers apart.
MCSymmetry == Permutations(OrderId)
=============================================================================
