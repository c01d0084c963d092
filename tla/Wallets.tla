------------------------------ MODULE Wallets ------------------------------
(***************************************************************************)
(* What the exchange promises its users, without custody: everybody has a  *)
(* wallet (an amount of each currency) and holds the title of tokens; an   *)
(* offer reserves what it offers but moves nothing; settling an offer      *)
(* swaps the money and the title in one step.  There is no escrow, no      *)
(* modular arithmetic and no bridge here: amounts are natural numbers.     *)
(***************************************************************************)
EXTENDS Integers, FiniteSetsExt

CONSTANTS Key, Nobody, Contract, Token, Amount, OrderId, ASK, BID

VARIABLES
  wealth,   \* [Key -> [Contract -> Nat]], what a user has, reserved or not
  title,    \* [Contract -> [Token -> Key]], the holder, offered or not
  offer,    \* [OrderId -> terms of an offer], user Nobody when unused
  status,   \* [OrderId -> {"unused", "open", "settled", "cancelled"}]
  actor     \* who took the last step

wvars == <<wealth, title, offer, status, actor>>

WalletsInit ==
  /\ wealth = [u \in Key |-> [c \in Contract |-> 0]]
  /\ title = [c \in Contract |-> [t \in Token |-> Nobody]]
  /\ status = [o \in OrderId |-> "unused"]
  /\ \A o \in OrderId : offer[o].user = Nobody
  /\ actor = Nobody

OpenBids(u, c) ==
  {o \in OrderId : /\ status[o] = "open"
                   /\ offer[o].bid = BID
                   /\ offer[o].user = u
                   /\ offer[o].quote_contract = c}

\* What is left to spend: the wealth that no open bid reserves.
Free(u, c) ==
  wealth[u][c] - SumFunction([o \in OpenBids(u, c) |-> offer[o].quote_amount])

Offered(c, t) ==
  \E o \in OrderId : /\ status[o] = "open"
                     /\ offer[o].bid = ASK
                     /\ offer[o].base_contract = c
                     /\ offer[o].base_token_id = t

\* u may dispose of a token that u holds and does not offer.
Disposable(u, c, t) == title[c][t] = u /\ ~Offered(c, t)

\* The amount q of c goes from one wallet to another (or to the same one).
Moved(w, from, to, c, q) ==
  LET paid == [w EXCEPT ![from][c] = @ - q] IN [paid EXCEPT ![to][c] = @ + q]

\* Nobody's wallet changes (administration, messages).
Idle ==
  /\ actor' \in Key
  /\ UNCHANGED <<status, wealth, title, offer>>

Credit(u, c, v) ==
  /\ actor' = Nobody
  /\ wealth' = [wealth EXCEPT ![u][c] = @ + v]

Debit(u, c, v) ==
  /\ actor' = u
  /\ v <= Free(u, c)
  /\ wealth' = [wealth EXCEPT ![u][c] = @ - v]

Pay(u, to, c, v) ==
  /\ actor' = u
  /\ v <= Free(u, c)
  /\ wealth' = Moved(wealth, u, to, c, v)

\* Money comes, goes or changes hands; titles and offers stay.
Money ==
  /\ UNCHANGED <<status, title, offer>>
  /\ \E u \in Key, c \in Contract, v \in Amount :
       \/ Credit(u, c, v)
       \/ Debit(u, c, v)
       \/ \E to \in Key : Pay(u, to, c, v)

\* A token enters: minted by its minter or bridged by nobody in particular.
Introduce(u, c, t) ==
  /\ actor' \in Key
  /\ title[c][t] = Nobody
  /\ title' = [title EXCEPT ![c][t] = u]

\* A token goes to another user, or leaves (to = Nobody).
Give(u, to, c, t) ==
  /\ actor' = u
  /\ Disposable(u, c, t)
  /\ title' = [title EXCEPT ![c][t] = to]

\* Tokens come, go or change hands; money and offers stay.
Titles ==
  /\ UNCHANGED <<status, wealth, offer>>
  /\ \E u \in Key, c \in Contract, t \in Token :
       \/ Introduce(u, c, t)
       \/ \E to \in Key : Give(u, to, c, t)

Offer(u, o) ==
  /\ actor' = u
  /\ status[o] = "unused"
  /\ status' = [status EXCEPT ![o] = "open"]
  /\ \A p \in OrderId \ {o} : offer'[p] = offer[p]
  /\ offer'[o].user = u
  /\ \/ /\ offer'[o].bid = ASK
        /\ Disposable(u, offer'[o].base_contract, offer'[o].base_token_id)
     \/ /\ offer'[o].bid = BID
        /\ offer'[o].quote_amount <= Free(u, offer'[o].quote_contract)
  /\ UNCHANGED <<wealth, title>>

\* taker accepts the open offer o: the money and the title change hands.
Settle(taker, o) ==
  LET of == offer[o] IN
  /\ actor' = taker
  /\ status[o] = "open"
  /\ status' = [status EXCEPT ![o] = "settled"]
  /\ \/ /\ of.bid = ASK
        /\ of.quote_amount <= Free(taker, of.quote_contract)
        /\ wealth' = Moved(wealth, taker, of.user, of.quote_contract,
                           of.quote_amount)
        /\ title' = [title EXCEPT ![of.base_contract][of.base_token_id] = taker]
     \/ /\ of.bid = BID
        /\ Disposable(taker, of.base_contract, of.base_token_id)
        /\ wealth' = Moved(wealth, of.user, taker, of.quote_contract,
                           of.quote_amount)
        /\ title' = [title EXCEPT ![of.base_contract][of.base_token_id] = of.user]
  /\ UNCHANGED offer

Cancel(o) ==
  /\ status[o] = "open"
  /\ status' = [status EXCEPT ![o] = "cancelled"]
  /\ actor' = offer[o].user
  /\ UNCHANGED <<wealth, title, offer>>

WalletsNext ==
  \/ Idle
  \/ Money
  \/ Titles
  \/ \E u \in Key, o \in OrderId : Offer(u, o) \/ Settle(u, o)
  \/ \E o \in OrderId : Cancel(o)

WalletsSpec == WalletsInit /\ [][WalletsNext]_wvars
=============================================================================
