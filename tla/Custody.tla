------------------------------ MODULE Custody ------------------------------
(***************************************************************************)
(* The exchange seen as custody: what each user owns, wherever the         *)
(* contract keeps it, and what the contract owes in total; and the         *)
(* exchange as an implementation of Wallets.                               *)
(***************************************************************************)
EXTENDS StarkRichmetas, FiniteSetsExt

OpenBids(u, c) ==
  {o \in OrderId : /\ Open(order[o])
                   /\ order[o].bid = BID
                   /\ order[o].user = u
                   /\ order[o].quote_contract = c}

\* What the open bids of u took from the balance.
Reserved(u, c) == SumFunction([o \in OpenBids(u, c) |-> order[o].quote_amount])

\* What u owns of c, wherever the contract keeps it.
Wealth(u, c) == balance[u][c] + Reserved(u, c)

Owed(c) == SumFunction([u \in Key |-> Wealth(u, c)])

\* Who owns token t of c: its owner, or the user whose open ask offers it.
Title(c, t) ==
  IF owner[c][t] = Nobody /\ InEscrow(c, t)
  THEN order[CHOOSE o \in OrderId : AskFor(o, c, t)].user
  ELSE owner[c][t]

\* The amount that the messages M of a bag carry.
Carried(bag, M) == SumFunction([m \in M |-> bag[m] * m.value])

DepositsInFlight(c) ==
  {m \in DOMAIN toL2 : /\ m.type = "deposit"
                       /\ m.from = L1ContractAddress
                       /\ m.contract = c}

WithdrawalsInFlight(c) == {m \in DOMAIN toL1 : m.contract = c}

Incoming(c) == Carried(toL2, DepositsInFlight(c))

Outgoing(c) == Carried(toL1, WithdrawalsInFlight(c))

\* All the contract owes of c, and all that is on the way in or out.
InSystem(c) == Owed(c) + Incoming(c) + Outgoing(c)

-----------------------------------------------------------------------------
\* No transaction and no message handler creates or destroys a unit of an ERC20
\* contract: what leaves a balance is in another one, in an open bid, or in a
\* message, whoever the two sides of a transfer or a trade are (modulo P, as
\* deposit does not range-check).
ValueConserved ==
  [][\/ \A c \in Contract :
            Fungible(c) => InSystem(c)' % P = InSystem(c) % P
     \/ L1Step]_l2vars

(***************************************************************************)
(* An ERC20 contract whose supply stays below the range-check bound, as    *)
(* Ether and any honest token do: L1 never sends more than that.           *)
(***************************************************************************)
SupplyBounded == \A c \in Contract : InSystem(c) < RangeCheckBound

BoundedNext == L2Next /\ SupplyBounded'
BoundedSpec == L2Init /\ [][BoundedNext]_l2vars

\* The user of an open order can cancel it at any time that the contract is
\* not paused: no asset gets stuck in escrow.  It needs both that nothing but
\* the order disposes of the token, and that the refund of a bid still passes
\* assert_nn, whatever the user received since.
Refundable ==
  \A o \in OrderId :
    Open(order[o]) =>
      IF order[o].bid = ASK
      THEN owner[order[o].base_contract][order[o].base_token_id] = Nobody
      ELSE CanReceive(balance, order[o].user, order[o].quote_contract,
                      order[o].quote_amount)

Status(ord) ==
  CASE ord.user = Nobody -> "unused"
    [] Open(ord) -> "open"
    [] ord.user # Nobody /\ ord.state = STATE_FULFILLED -> "settled"
    [] ord.user # Nobody /\ ord.state = STATE_CANCELLED -> "cancelled"

Terms(ord) == [f \in DOMAIN ord \ {"state"} |-> ord[f]]

Abstract == INSTANCE Wallets WITH
  Token <- Felt,
  Amount <- 0 .. RangeCheckBound - 1,
  wealth <- [u \in Key |-> [c \in Contract |-> Wealth(u, c)]],
  title <- [c \in Contract |-> [t \in Felt |-> Title(c, t)]],
  offer <- [o \in OrderId |-> Terms(order[o])],
  status <- [o \in OrderId |-> Status(order[o])],
  actor <- signer

\* The exchange with its escrow and its wrapping arithmetic implements wallets
\* without either: under a bounded supply and fresh tokens, every entry point
\* is one step of Wallets, in which only the actor, or the user of an order
\* that the actor settles, gives anything away, and at the agreed price.
ImplementsWallets == Abstract!WalletsSpec
=============================================================================
