------------------------------- MODULE Bridge -------------------------------
(***************************************************************************)
(* The two chains together: the bridge contract on L1, the exchange on L2  *)
(* and the messages between them, from deployment on.                      *)
(*                                                                         *)
(* The exchange relies on collections whose minter mints a token on one    *)
(* chain only, and only if the token exists on neither: Fresh.  Nothing    *)
(* else is assumed of users, who may call anything in any order.           *)
(***************************************************************************)
EXTENDS Custody

CONSTANTS L1Admin, Vault, Exchange, NoContract, Nowhere, InitialCoin,
          OtherL2     \* other L2 addresses that L1 calls may name

\* The bridge is no user, and no user is nobody; coins are counted from the start.
ASSUME BridgeAssumption ==
  /\ Vault \notin Address
  /\ Nowhere \notin Address \cup {Vault}
  /\ InitialCoin \in [Contract -> [Address -> Nat]]

VARIABLES trusted, contracts, coin, holder

L1 == INSTANCE EtherRichmetas

bridgevars == <<l2vars, trusted, contracts, coin, holder>>

L2Address == {Exchange} \cup OtherL2

\* The messages about token t of c that are under way.
Arrivals(c, t) ==
  {m \in DOMAIN toL2 : m.type = "deposit" /\ m.contract = c /\ m.value = t}

Departures(c, t, org) ==
  {m \in DOMAIN toL1 : m.contract = c /\ m.value = t /\ m.org = org}

OnL2(c, t) == owner[c][t] # Nobody \/ InEscrow(c, t)

Fresh(c, t) ==
  /\ holder[c][t] = Nowhere
  /\ ~OnL2(c, t)
  /\ \A org \in {0, 1} : Departures(c, t, org) = {}

-----------------------------------------------------------------------------
AdminCalls ==
  \E sender \in Address :
    \/ \E l2 \in L2Address : L1!Trust(sender, l2)
    \/ \E l2 \in L2Address, r \in Registration :
         L1!RegisterContract(sender, l2, r.contract, r.kind, r.mint)

UserCalls ==
  \E sender \in Address :
    \/ \E l2 \in L2Address, user \in Recipient :
         \/ \E v \in Inputs[Ether] : L1!DepositEther(sender, l2, user, v)
         \/ \E c \in Contract : \E v \in Inputs[c] :
              L1!DepositToken(sender, l2, user, v, c)
    \/ \E l2 \in L2Address, user \in Address, c \in Contract :
         \E v \in Inputs[c], mint \in {0, 1} :
           L1!WithdrawFromL2(sender, l2, user, v, c, mint)

Collections ==
  \E c \in Contract \ {Ether}, a \in Address : \E t \in Inputs[c] :
    \/ Fresh(c, t) /\ L1!MintOnL1(c, t, a)
    \/ \E to \in L1!Holder : L1!PassOn(c, t, a, to)
    \/ L1!Burn(c, t, a)

StepOnL1 ==
  /\ AdminCalls \/ UserCalls \/ Collections
  /\ UNCHANGED <<storage, signer>>

FreshMint(sig) ==
  \E c \in Contract : \E v \in Inputs[c], user \in Recipient :
    Fresh(c, v) /\ Mint(sig, user, v, c)

StepOnL2 ==
  /\ L1Handler \/ \E sig \in User : FreshMint(sig) \/ Transaction(sig)
  /\ UNCHANGED <<trusted, contracts, coin, holder>>

BridgeInit == L2Init /\ L1!L1Init(Felt)
BridgeNext == StepOnL1 \/ StepOnL2
BridgeSpec == BridgeInit /\ [][BridgeNext]_bridgevars

(***************************************************************************)
(* The sequencer offers every pending message to its handler until the     *)
(* handler accepts it.  It promises nothing of transactions, which users   *)
(* need not send.                                                          *)
(***************************************************************************)
DepositsOf(c) ==
  [type : {"deposit"}, from : {L1ContractAddress}, user : Recipient,
   value : Inputs[c], contract : {c}]

HandlesDeposit(m) ==
  /\ m \in DOMAIN toL2
  /\ Deposit(m)
  /\ UNCHANGED <<trusted, contracts, coin, holder>>

SequencerFairness ==
  \A c \in Contract : \A m \in DepositsOf(c) :
    WF_bridgevars(HandlesDeposit(m))

FairBridgeSpec == BridgeSpec /\ SequencerFairness

-----------------------------------------------------------------------------
(***************************************************************************)
(* What the two contracts guarantee together.                              *)
(***************************************************************************)

\* The bridge holds on L1 at least what L2 owes: for Ether and every ERC20
\* contract, the vault covers all balances, all open bids and all messages
\* under way in both directions, so every withdrawal can be paid, whoever
\* withdraws first.
Solvency ==
  \A c \in Contract :
    c = Ether \/ contracts[c] = L1!ERC20 => coin[c][Vault] >= InSystem(c)

\* How many messages M a bag holds, counting equal ones.
Copies(bag, M) == SumFunction([m \in M |-> bag[m]])

Arriving(c, t) == Copies(toL2, Arrivals(c, t))
Leaving(c, t, org) == Copies(toL1, Departures(c, t, org))

\* The places of a token outside L1's wallets that L1 has to have it for in the
\* vault, and those that it must not exist on L1 for, as it was minted on L2.
Held(c, t, org) == IF OnL2(c, t) /\ origin[c][t] = org THEN 1 ELSE 0

Backed(c, t) == Arriving(c, t) + Leaving(c, t, 0) + Held(c, t, 0)

Unbacked(c, t) == Leaving(c, t, 1) + Held(c, t, 1)

\* A token of a collection is in one place: in an L1 wallet, in a message, or on
\* L2.  While it is on L2 or on its way, L1 has it in the vault, or not at all
\* if it was minted on L2; the flag that goes with it says which.  So the L1
\* withdrawal that the flag selects (mintFor or safeTransferFrom) never
\* reverts, and a deposit never finds an owner on L2.  (It holds when nobody
\* sends to the key 0, as OriginLive does.)
OneHome ==
  \A c \in Contract, t \in Felt :
    c # Ether /\ contracts[c] = L1!ERC721 =>
      /\ Backed(c, t) + Unbacked(c, t) <= 1
      /\ Backed(c, t) = 1 => holder[c][t] = Vault
      /\ Unbacked(c, t) = 1 => holder[c][t] = Nowhere

Disciplined == INSTANCE StarkRichmetas WITH FreshOnly <- TRUE

\* L1 is the environment that the exchange was verified in: under Richmetas.sol
\* every message is one the exchange expects, and no deposit ever introduces a
\* token that is in escrow.  What holds of the exchange under FreshOnly holds
\* here with nothing assumed but fresh mints.
ExchangeInItsEnvironment == Disciplined!L2Spec

\* A deposit to a contract that the exchange knows is credited, even if the
\* exchange is paused in the meantime: the owner check of deposit cannot
\* refuse it for ever.
DepositCredited ==
  \A c \in Contract : \A m \in DepositsOf(c) :
    m \in DOMAIN toL2 /\ description[c].kind \in Kind ~> m \notin DOMAIN toL2
=============================================================================
