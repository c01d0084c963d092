--------------------------- MODULE EtherRichmetas ---------------------------
(***************************************************************************)
(* The bridge contract on Ethereum, contracts/Richmetas.sol, with the      *)
(* token contracts it holds: Ether, ERC20 contracts, and collections that  *)
(* behave like contracts/ERC721PresetMinter.sol.                           *)
(*                                                                         *)
(* A transaction runs alone and to the end, or reverts and changes         *)
(* nothing.  Users have approved the bridge for what they deposit.         *)
(***************************************************************************)
EXTENDS StarknetCore

CONSTANTS
  Contract, Ether,    \* addresses of token contracts; Ether is address 0
  Address,            \* L1 addresses of users
  L1Admin,            \* the address that deployed the bridge
  Vault,              \* the address of the bridge contract
  Exchange,           \* the L2 address of the exchange
  NoContract,         \* the L2 address 0, where trustedL2Contract starts
  L1ContractAddress,  \* the address of the bridge, as L2 sees it
  Nowhere,            \* the holder of a token that does not exist
  InitialCoin         \* [Contract -> [Address -> Nat]], before any deposit

VARIABLES
  trusted,            \* trustedL2Contract
  contracts,          \* [Contract -> TokenType]
  coin,               \* [Contract -> [Holder -> Nat]], fungible balances
  holder              \* [Contract -> [token -> Holder, or Nowhere]]

l1storage == <<trusted, contracts, coin, holder>>

Z == 0
ERC20 == 1
ERC721 == 2

Holder == Address \cup {Vault}

L1Init(Token) ==
  /\ trusted = NoContract
  /\ contracts = [c \in Contract |-> Z]
  /\ coin = [c \in Contract |-> [h \in Holder |->
               IF h = Vault THEN 0 ELSE InitialCoin[c][h]]]
  /\ holder = [c \in Contract |-> [t \in Token |-> Nowhere]]

-----------------------------------------------------------------------------
(***************************************************************************)
(* Moving assets.                                                          *)
(***************************************************************************)
MoveCoin(c, from, to, v) ==
  /\ coin[c][from] >= v
  /\ coin' = [coin EXCEPT ![c][from] = @ - v, ![c][to] = @ + v]

MoveToken_Slip(c, t, from, to) == holder' = [holder EXCEPT ![c][t] = to]

MoveToken(c, t, from, to) ==
  /\ holder[c][t] = from
  /\ holder' = [holder EXCEPT ![c][t] = to]

\* Messages to another L2 contract than the exchange are lost from sight.
Send(toContract, m) ==
  IF toContract = Exchange THEN SendMessageToL2(m) ELSE UNCHANGED toL2

SendDeposit(toContract, user, v, c) ==
  Send(toContract, [type |-> "deposit", from |-> L1ContractAddress,
                    user |-> user, value |-> v, contract |-> c])

-----------------------------------------------------------------------------
(***************************************************************************)
(* The entry points of Richmetas.sol.                                      *)
(***************************************************************************)
Trust(sender, l2) ==
  /\ sender = L1Admin
  /\ trusted' = l2
  /\ UNCHANGED <<contracts, coin, holder, toL2, toL1>>

RegisterContract(sender, toContract, c, type, minter) ==
  /\ sender = L1Admin
  /\ type \in {ERC20, ERC721}
  /\ contracts[c] = Z
  /\ contracts' = [contracts EXCEPT ![c] = type]
  /\ Send(toContract, [type |-> "register_contract", from |-> L1ContractAddress,
                       contract |-> c, kind |-> type, mint |-> minter])
  /\ UNCHANGED <<trusted, coin, holder, toL1>>

DepositEther(sender, toContract, user, v) ==
  /\ MoveCoin(Ether, sender, Vault, v)
  /\ SendDeposit(toContract, user, v, Ether)
  /\ UNCHANGED <<trusted, contracts, holder, toL1>>

\* Ether has no code at its address: the calls below revert for it.
DepositToken(sender, toContract, user, v, c) ==
  /\ contracts[c] # Z
  /\ c # Ether
  /\ \/ /\ contracts[c] = ERC20
        /\ MoveCoin(c, sender, Vault, v)
        /\ UNCHANGED holder
     \/ /\ contracts[c] = ERC721
        /\ MoveToken(c, v, sender, Vault)
        /\ UNCHANGED coin
  /\ SendDeposit(toContract, user, v, c)
  /\ UNCHANGED <<trusted, contracts, toL1>>

\* sender is the address named in the L2 message; user is whom it pays.
WithdrawFromL2(sender, fromContract, user, v, c, mint) ==
  /\ fromContract = trusted
  /\ fromContract = Exchange       \* no other contract sent a message
  /\ c = Ether \/ contracts[c] # Z
  /\ ConsumeMessageFromL2([address |-> sender, value |-> v, contract |-> c,
                           org |-> mint])
  /\ \/ /\ c = Ether \/ contracts[c] = ERC20
        /\ MoveCoin(c, Vault, user, v)
        /\ UNCHANGED holder
     \/ /\ c # Ether
        /\ contracts[c] = ERC721
        /\ MoveToken(c, v, IF mint = 1 THEN Nowhere ELSE Vault, user)
        /\ UNCHANGED coin
  /\ UNCHANGED <<trusted, contracts, toL2>>

-----------------------------------------------------------------------------
(***************************************************************************)
(* What else happens to the tokens of a collection: its minter creates     *)
(* them on L1, holders pass them on (to the bridge too, without a          *)
(* deposit) and burn them.                                                 *)
(***************************************************************************)
MintOnL1(c, t, a) ==
  /\ MoveToken(c, t, Nowhere, a)
  /\ UNCHANGED <<trusted, contracts, coin, toL2, toL1>>

PassOn(c, t, a, to) ==
  /\ MoveToken(c, t, a, to)
  /\ UNCHANGED <<trusted, contracts, coin, toL2, toL1>>

Burn(c, t, a) ==
  /\ MoveToken(c, t, a, Nowhere)
  /\ UNCHANGED <<trusted, contracts, coin, toL2, toL1>>
=============================================================================
