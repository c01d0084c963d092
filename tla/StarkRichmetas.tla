--------------------------- MODULE StarkRichmetas ---------------------------
(***************************************************************************)
(* The exchange contract on StarkNet, contracts/Richmetas.cairo: custody   *)
(* of fungible balances and of non-fungible tokens, minting, transfers,    *)
(* limit orders with escrow, and the L2 half of the bridge.                *)
(*                                                                         *)
(* A transaction runs alone and to the end, or reverts and changes         *)
(* nothing, so every entry point is one action whose guard is the          *)
(* conjunction of the contract's asserts.  sig is the key whose signature  *)
(* the transaction carries (get_tx_signature).  What is signed is a hash   *)
(* of the inputs alone, without the name of the entry point, and storage   *)
(* keeps no nonce: a signature, once given, is good for any number of      *)
(* transactions at any entry point with inputs of that shape.  So Signed   *)
(* says what each user signs at all, and no transaction uses it up; nonces *)
(* only make signed inputs differ and are left out.                        *)
(***************************************************************************)
EXTENDS FiniteSets, Felt, StarknetCore

CONSTANTS
  User,               \* public keys that somebody can sign with
  Nobody,             \* the felt 0 where a public key is expected
  Admin,              \* storage variable admin, written by the constructor only
  L1ContractAddress,  \* l1_contract_address, written by the constructor only
  L1Sender,           \* L1 contracts that send messages to this contract
  Contract,           \* addresses of token contracts
  Ether,              \* the token contract address 0
  OrderId,            \* order identifiers that users choose
  Address,            \* L1 addresses of users
  Inputs,             \* Inputs[c]: amounts or token ids used with contract c
  Recipient,          \* keys that deposits, mints and transfers name
  Registration,       \* [contract, kind, mint] that register messages carry
  Registrant,         \* users who register a client
  PauseInput,         \* arguments of set_pause
  Signed,             \* Signed[u]: the inputs, without nonces, that u signs
  FreshOnly           \* TRUE: nobody introduces a token that is in escrow

Key == User \cup {Nobody}

ASSUME L2Assumption ==
  /\ Nobody \notin User
  /\ Admin \in User
  /\ L1ContractAddress \in L1Sender
  /\ Ether \in Contract
  /\ Inputs \in [Contract -> SUBSET Felt]
  /\ Recipient \subseteq Key
  /\ Registration \subseteq [contract : Contract, kind : Felt, mint : Key]
  /\ Registrant \subseteq User
  /\ PauseInput \subseteq Felt
  /\ DOMAIN Signed = User
  /\ FreshOnly \in BOOLEAN
  /\ IsFiniteSet(User)       \* keys and order identifiers are felts
  /\ IsFiniteSet(OrderId)

KIND_ERC20 == 1
KIND_ERC721 == 2
Kind == {KIND_ERC20, KIND_ERC721}

ASK == 0
BID == 1

STATE_NEW == 0
STATE_FULFILLED == 1
STATE_CANCELLED == 2

VARIABLES
  pause,        \* 0 or 1
  description,  \* [Contract -> ContractDescription], kind 0 when unregistered
  client,       \* [Address -> Key], the user who registered an L1 address
  balance,      \* [Key -> [Contract -> Felt]]
  owner,        \* [Contract -> [Felt -> Key]], Nobody when absent or in escrow
  origin,       \* [Contract -> [Felt -> {0, 1}]], 1 for a token minted on L2
  order,        \* [OrderId -> LimitOrder], user Nobody when unused
  signer        \* the key that signed the last transaction, Nobody for L1

storage == <<pause, description, client, balance, owner, origin, order>>
l2vars == <<storage, signer, toL2, toL1>>

ContractDescription == [kind : {0} \cup Kind, mint : Key]

LimitOrder ==
  [user : Key, bid : {ASK, BID}, base_contract : Contract,
   base_token_id : Felt, quote_contract : Contract, quote_amount : Felt,
   state : {STATE_NEW, STATE_FULFILLED, STATE_CANCELLED}]

RegisterMessage ==
  [type : {"register_contract"}, from : L1Sender, contract : Contract,
   kind : Felt, mint : Key]

DepositMessage ==
  [type : {"deposit"}, from : L1Sender, user : Key, value : Felt,
   contract : Contract]

WithdrawMessage ==
  [address : Address, value : Felt, contract : Contract, org : {0, 1}]

(***************************************************************************)
(* Unwritten storage reads as 0.                                           *)
(***************************************************************************)
NoOrder ==
  [user |-> Nobody, bid |-> ASK, base_contract |-> Ether, base_token_id |-> 0,
   quote_contract |-> Ether, quote_amount |-> 0, state |-> STATE_NEW]

StorageInit ==
  /\ pause = 0
  /\ description = [c \in Contract |->
        [kind |-> IF c = Ether THEN KIND_ERC20 ELSE 0, mint |-> Nobody]]
  /\ client = [a \in Address |-> Nobody]
  /\ balance = [u \in Key |-> [c \in Contract |-> 0]]
  /\ owner = [c \in Contract |-> [t \in Felt |-> Nobody]]
  /\ origin = [c \in Contract |-> [t \in Felt |-> 0]]
  /\ order = [o \in OrderId |-> NoOrder]
  /\ signer = Nobody

-----------------------------------------------------------------------------
(***************************************************************************)
(* Helpers shared by the entry points.  A definition whose name ends in    *)
(* _Slip is the next one with a plausible mistake; nothing uses it but the *)
(* mutants of PROJECT.json, which show what each property notices.         *)
(***************************************************************************)
CheckOn_Slip == TRUE

CheckOn == pause = 0

Verified_Slip(sig, key, inputs) == sig \in User /\ inputs \in Signed[sig]

\* verify_inputs_by_signature: the signature verifies under the given key, as
\* the owner of the key has signed these inputs, whenever and for whatever.
Verified(sig, key, inputs) == sig = key /\ inputs \in Signed[key]

OrderInputs(o, ord) ==
  <<o, ord.bid, ord.base_contract, ord.base_token_id, ord.quote_contract,
    ord.quote_amount>>

Fungible(c) == description[c].kind = KIND_ERC20

\* The balances b after user u pays v of c; the guard is assert_nn(new_balance).
CanPay(b, u, c, v) == AssertNN(FeltSub(b[u][c], v))
Paid(b, u, c, v) == [b EXCEPT ![u][c] = FeltSub(b[u][c], v)]

CanReceive_Slip(b, u, c, v) == AssertNN(FeltAdd(b[u][c], v) + 1)
Received_Slip(b, u, c, v) == [b EXCEPT ![u][c] = FeltAdd(balance[u][c], v)]

\* The balances b after user u receives v of c.
CanReceive(b, u, c, v) == AssertNN(FeltAdd(b[u][c], v))
Received(b, u, c, v) == [b EXCEPT ![u][c] = FeltAdd(b[u][c], v)]

GiveToken_Slip(c, t, u) ==
  owner' = IF u = Nobody THEN owner ELSE [owner EXCEPT ![c][t] = u]

\* owner.write and origin.write
GiveToken(c, t, u) == owner' = [owner EXCEPT ![c][t] = u]

SetOrigin_Slip(c, t, org) ==
  origin' = IF org = 0 THEN origin ELSE [origin EXCEPT ![c][t] = org]

SetOrigin(c, t, org) == origin' = [origin EXCEPT ![c][t] = org]

-----------------------------------------------------------------------------
(***************************************************************************)
(* Administration and registration.                                        *)
(***************************************************************************)
SetPause(sig, paus) ==
  /\ paus \in {0, 1}
  /\ Verified(sig, Admin, <<paus>>)
  /\ pause' = paus
  /\ signer' = sig
  /\ UNCHANGED <<description, client, balance, owner, origin, order,
                 toL2, toL1>>

Unregistered_Slip(c) == description[c].kind # KIND_ERC20

Unregistered(c) == description[c].kind = 0

RegisterContract(m) ==
  /\ m.type = "register_contract"
  /\ HandleMessageFromL1(m)
  /\ CheckOn
  /\ m.kind \in Kind
  /\ m.from = L1ContractAddress
  /\ Unregistered(m.contract)
  /\ description' = [description EXCEPT
                       ![m.contract] = [kind |-> m.kind, mint |-> m.mint]]
  /\ signer' = Nobody
  /\ UNCHANGED <<pause, client, balance, owner, origin, order, toL1>>

RegisterClient(sig, user, address) ==
  /\ CheckOn
  /\ client[address] = Nobody
  /\ Verified(sig, user, <<address>>)
  /\ client' = [client EXCEPT ![address] = user]
  /\ signer' = sig
  /\ UNCHANGED <<pause, description, balance, owner, origin, order,
                 toL2, toL1>>

-----------------------------------------------------------------------------
(***************************************************************************)
(* Custody: mint, deposit, withdraw, transfer.                             *)
(***************************************************************************)
Mint(sig, user, t, c) ==
  /\ CheckOn
  /\ AssertNN(t)
  /\ description[c].kind = KIND_ERC721
  /\ owner[c][t] = Nobody
  /\ Verified(sig, description[c].mint, <<user, t, c>>)
  /\ GiveToken(c, t, user)
  /\ SetOrigin(c, t, 1)
  /\ signer' = sig
  /\ UNCHANGED <<pause, description, client, balance, order, toL2, toL1>>

\* The l1_handler runs while paused too, and does not range-check the amount.
Deposit(m) ==
  /\ m.type = "deposit"
  /\ HandleMessageFromL1(m)
  /\ m.from = L1ContractAddress
  /\ description[m.contract].kind \in Kind
  /\ \/ /\ Fungible(m.contract)
        /\ balance' = Received(balance, m.user, m.contract, m.value)
        /\ UNCHANGED owner
     \/ /\ ~Fungible(m.contract)
        /\ owner[m.contract][m.value] = Nobody
        /\ GiveToken(m.contract, m.value, m.user)
        /\ UNCHANGED balance
  /\ signer' = Nobody
  /\ UNCHANGED <<pause, description, client, origin, order, toL1>>

\* The payload carries the origin flag as it was before the token left.
Withdraw(sig, user, v, c, address) ==
  /\ CheckOn
  /\ AssertNN(v)
  /\ Verified(sig, user, <<v, c, address>>)
  /\ description[c].kind \in Kind
  /\ \/ /\ Fungible(c)
        /\ CanPay(balance, user, c, v)
        /\ balance' = Paid(balance, user, c, v)
        /\ UNCHANGED <<owner, origin>>
     \/ /\ ~Fungible(c)
        /\ owner[c][v] = user
        /\ GiveToken(c, v, Nobody)
        /\ SetOrigin(c, v, 0)
        /\ UNCHANGED balance
  /\ SendMessageToL1([address |-> address, value |-> v, contract |-> c,
                      org |-> origin[c][v]])
  /\ signer' = sig
  /\ UNCHANGED <<pause, description, client, order, toL2>>

\* The second balance is read after the first is written, so from = to is safe.
Transfer(sig, from, to, v, c) ==
  /\ CheckOn
  /\ AssertNN(v)
  /\ description[c].kind \in Kind
  /\ Verified(sig, from, <<to, v, c>>)
  /\ \/ /\ Fungible(c)
        /\ CanPay(balance, from, c, v)
        /\ LET debited == Paid(balance, from, c, v) IN
             /\ CanReceive(debited, to, c, v)
             /\ balance' = Received(debited, to, c, v)
        /\ UNCHANGED owner
     \/ /\ ~Fungible(c)
        /\ owner[c][v] = from
        /\ GiveToken(c, v, to)
        /\ UNCHANGED balance
  /\ signer' = sig
  /\ UNCHANGED <<pause, description, client, origin, order, toL2, toL1>>

-----------------------------------------------------------------------------
(***************************************************************************)
(* Limit orders.  An ask puts the token in escrow (no owner), a bid puts   *)
(* the quote amount in escrow (taken from the balance).                    *)
(***************************************************************************)
CreateOrder(sig, o, user, bid, bc, t, qc, q) ==
  /\ CheckOn
  /\ bid \in {ASK, BID}
  /\ AssertNN(q)
  /\ order[o].user = Nobody
  /\ description[bc].kind = KIND_ERC721
  /\ description[qc].kind = KIND_ERC20
  /\ Verified(sig, user, <<o, bid, bc, t, qc, q>>)
  /\ \/ /\ bid = ASK
        /\ owner[bc][t] = user
        /\ GiveToken(bc, t, Nobody)
        /\ UNCHANGED balance
     \/ /\ bid = BID
        /\ CanPay(balance, user, qc, q)
        /\ balance' = Paid(balance, user, qc, q)
        /\ UNCHANGED owner
  /\ order' = [order EXCEPT ![o] =
       [user |-> user, bid |-> bid, base_contract |-> bc, base_token_id |-> t,
        quote_contract |-> qc, quote_amount |-> q, state |-> STATE_NEW]]
  /\ signer' = sig
  /\ UNCHANGED <<pause, description, client, origin, toL2, toL1>>

Open_Slip(ord) == ord.user # Nobody

Open(ord) == ord.user # Nobody /\ ord.state = STATE_NEW

Close_Slip(o, state) == UNCHANGED order

Close(o, state) == order' = [order EXCEPT ![o].state = state]

FulfillOrder(sig, o, user) ==
  LET ord == order[o]
      qc == ord.quote_contract
      q == ord.quote_amount
      bc == ord.base_contract
      t == ord.base_token_id
  IN
  /\ CheckOn
  /\ Verified(sig, user, <<o>>)
  /\ Open(ord)
  /\ \/ /\ ord.bid = ASK
        /\ CanPay(balance, user, qc, q)
        /\ balance' = Received(Paid(balance, user, qc, q), ord.user, qc, q)
        /\ owner[bc][t] = Nobody
        /\ GiveToken(bc, t, user)
     \/ /\ ord.bid = BID
        /\ owner[bc][t] = user
        /\ GiveToken(bc, t, ord.user)
        /\ balance' = Received(balance, user, qc, q)
  /\ Close(o, STATE_FULFILLED)
  /\ signer' = sig
  /\ UNCHANGED <<pause, description, client, origin, toL2, toL1>>

CancelOrder(sig, o) ==
  LET ord == order[o]
      bc == ord.base_contract
      t == ord.base_token_id
  IN
  /\ CheckOn
  /\ Open(ord)
  /\ Verified(sig, ord.user, <<o>>)
  /\ \/ /\ ord.bid = ASK
        /\ owner[bc][t] = Nobody
        /\ GiveToken(bc, t, ord.user)
        /\ UNCHANGED balance
     \/ /\ ord.bid = BID
        /\ CanReceive(balance, ord.user, ord.quote_contract, ord.quote_amount)
        /\ balance' = Received(balance, ord.user, ord.quote_contract,
                               ord.quote_amount)
        /\ UNCHANGED owner
  /\ Close(o, STATE_CANCELLED)
  /\ signer' = sig
  /\ UNCHANGED <<pause, description, client, origin, toL2, toL1>>

-----------------------------------------------------------------------------
(***************************************************************************)
(* The contract with any L1 around it.  L1 sends what messages it likes    *)
(* and consumes what it is sent; EtherRichmetas replaces these two steps   *)
(* by those of the L1 contract.  FreshOnly is the discipline the contract  *)
(* relies on and does not enforce: neither the minter of a collection nor  *)
(* L1 introduces a token that an open ask holds in escrow.                 *)
(***************************************************************************)
AskFor(o, c, t) ==
  /\ Open(order[o])
  /\ order[o].bid = ASK
  /\ order[o].base_contract = c
  /\ order[o].base_token_id = t

InEscrow(c, t) == \E o \in OrderId : AskFor(o, c, t)

MayIntroduce(c, t) == FreshOnly => ~InEscrow(c, t)

L1Sends(m) == SendMessageToL2(m) /\ UNCHANGED <<storage, signer, toL1>>

L1Consumes(m) == ConsumeMessageFromL2(m) /\ UNCHANGED <<storage, signer, toL2>>

L1Step ==
  \/ \E from \in L1Sender, r \in Registration :
       L1Sends([type |-> "register_contract", from |-> from,
                contract |-> r.contract, kind |-> r.kind, mint |-> r.mint])
  \/ \E from \in L1Sender, c \in Contract : \E v \in Inputs[c], u \in Recipient :
       L1Sends([type |-> "deposit", from |-> from, user |-> u,
                value |-> v, contract |-> c])
  \/ \E m \in DOMAIN toL1 : L1Consumes(m)

L1Handler ==
  \E m \in DOMAIN toL2 :
    \/ RegisterContract(m)
    \/ m.type = "deposit" /\ MayIntroduce(m.contract, m.value) /\ Deposit(m)

Minting(sig) ==
  \E c \in Contract : \E v \in Inputs[c], user \in Recipient :
    MayIntroduce(c, v) /\ Mint(sig, user, v, c)

Transaction(sig) ==
  \/ \E paus \in PauseInput : SetPause(sig, paus)
  \/ \E user \in Registrant, a \in Address : RegisterClient(sig, user, a)
  \/ \E c \in Contract : \E v \in Inputs[c] :
       \/ \E user \in User, a \in Address : Withdraw(sig, user, v, c, a)
       \/ \E from \in User, to \in Recipient : Transfer(sig, from, to, v, c)
  \/ \E o \in OrderId, user \in User :
       \/ \E bid \in {ASK, BID}, bc, qc \in Contract :
            \E t \in Inputs[bc], q \in Inputs[qc] :
              CreateOrder(sig, o, user, bid, bc, t, qc, q)
       \/ FulfillOrder(sig, o, user)
  \/ \E o \in OrderId : CancelOrder(sig, o)

\* The inputs that the users of these sets may be asked to sign, one set per
\* shape: mint and transfer, withdraw, create_order, and the shape of one input.
GiftInputs ==
  UNION {Recipient \X Inputs[c] \X {c} : c \in Contract}

WithdrawInputs ==
  UNION {Inputs[c] \X {c} \X Address : c \in Contract}

CreateOrderInputs ==
  UNION {OrderId \X {ASK, BID} \X {bc} \X Inputs[bc] \X {qc} \X Inputs[qc] :
           bc \in Contract, qc \in Contract}

SingleInputs == {<<x>> : x \in OrderId \cup Address \cup PauseInput}

Signable ==
  GiftInputs \cup WithdrawInputs \cup CreateOrderInputs \cup SingleInputs

L2Init == StorageInit /\ CoreInit
L2Next ==
  L1Step \/ L1Handler \/ \E sig \in User : Minting(sig) \/ Transaction(sig)
L2Spec == L2Init /\ [][L2Next]_l2vars

-----------------------------------------------------------------------------
Message == RegisterMessage \cup DepositMessage

L2TypeOK ==
  /\ pause \in {0, 1}
  /\ description \in [Contract -> ContractDescription]
  /\ client \in [Address -> Key]
  /\ balance \in [Key -> [Contract -> Felt]]
  /\ owner \in [Contract -> [Felt -> Key]]
  /\ origin \in [Contract -> [Felt -> {0, 1}]]
  /\ order \in [OrderId -> LimitOrder]
  /\ signer \in Key
  /\ IsABag(toL2) /\ DOMAIN toL2 \subseteq Message
  /\ IsABag(toL1) /\ DOMAIN toL1 \subseteq WithdrawMessage

\* Only an ERC721 collection has owned tokens, only an ERC20 contract has
\* balances, and an order trades one for the other.  fulfill_order and
\* cancel_order move both without a look at the kinds that create_order has
\* checked, and withdraw and transfer tell a token id from an amount by the
\* kind alone, so no kind may change under what is held, escrow and messages
\* included.
HoldingsOfKind ==
  /\ \A c \in Contract, t \in Felt :
       owner[c][t] # Nobody => description[c].kind = KIND_ERC721
  /\ \A u \in Key, c \in Contract : balance[u][c] # 0 => Fungible(c)
  /\ \A o \in OrderId :
       order[o].user # Nobody =>
         /\ description[order[o].base_contract].kind = KIND_ERC721
         /\ Fungible(order[o].quote_contract)
  /\ \A m \in DOMAIN toL1 : description[m.contract].kind \in Kind

\* Storage is of its types and every pending message one that its receiver can
\* read; and what is held is of the kind of its contract.
L2Inv == L2TypeOK /\ HoldingsOfKind

(***************************************************************************)
(* Safety.                                                                 *)
(***************************************************************************)

\* A token offered by an open ask has no owner, and backs that ask only, so
\* whoever fulfills or cancels the order gets the token: create_order takes
\* it from its owner, and nobody but the order gives it back.
EscrowBacked ==
  \A o \in OrderId, c \in Contract, t \in Felt :
    AskFor(o, c, t) =>
      /\ owner[c][t] = Nobody
      /\ \A p \in OrderId : AskFor(p, c, t) => p = o

\* The origin flag tells L1 to mint rather than to hand over a token, so it may
\* stay set only while the token is on L2: owned, or in escrow.  Whatever way
\* a token minted on L2 takes through transfers and orders, withdraw is what
\* ends it and clears the flag.  (It holds when nobody sends to the key 0,
\* Nobody \notin Recipient; a token sent there is lost with its flag set.)
OriginLive ==
  \A c \in Contract, t \in Felt :
    origin[c][t] = 1 => owner[c][t] # Nobody \/ InEscrow(c, t)

\* A withdrawal of an ERC20 amount never asks L1 to mint, although withdraw
\* reads origin before it looks at the kind: a contract keeps its kind for
\* ever, so no flag is ever set under an ERC20 contract.
OriginOfCollections ==
  /\ \A c \in Contract, t \in Felt :
       origin[c][t] = 1 => description[c].kind = KIND_ERC721
  /\ \A m \in DOMAIN toL1 :
       m.org = 1 => description[m.contract].kind = KIND_ERC721

\* An order id is used once: its terms never change and its state goes from
\* NEW to FULFILLED or to CANCELLED, and no further.  The owner of a cancelled
\* order cannot be charged by a late fulfill_order, nor paid twice.
OrderHistory ==
  [][\A o \in OrderId :
       order[o].user # Nobody =>
         \/ order'[o] = order[o]
         \/ /\ order[o].state = STATE_NEW
            /\ \E s \in {STATE_FULFILLED, STATE_CANCELLED} :
                 order'[o] = [order[o] EXCEPT !.state = s]]_l2vars

\* What u has signed.
Signs(u, inputs) == u \in User /\ inputs \in Signed[u]

\* In this step u's order o is put up, or a taker u settles order o, whose user
\* signed its terms; or v of c leaves for an address that u has signed.
PutsUp(u, o) ==
  /\ order[o].user = Nobody
  /\ order'[o].user = u
  /\ Signs(u, OrderInputs(o, order'[o]))

Settles(u, o) ==
  /\ Open(order[o])
  /\ order'[o].state = STATE_FULFILLED
  /\ Signs(u, <<o>>)
  /\ Signs(order[o].user, OrderInputs(o, order[o]))

SendsHome(u, v, c) ==
  \E a \in Address, org \in {0, 1} :
    /\ Signs(u, <<v, c, a>>)
    /\ toL1' = BagAdd(toL1, [address |-> a, value |-> v, contract |-> c,
                             org |-> org])

\* A balance falls by an amount that its user has signed away: to a receiver who
\* gets it, to an address on L1, into a bid, or for the token of an ask.
MoneyConsent ==
  \A u \in Key, c \in Contract :
    LET v == balance[u][c] - balance'[u][c] IN
    v > 0 =>
      \/ \E to \in Key : /\ Signs(u, <<to, v, c>>)
                         /\ balance'[to][c] = balance[to][c] + v
      \/ SendsHome(u, v, c)
      \/ \E o \in OrderId : /\ PutsUp(u, o)
                             /\ order'[o].bid = BID
                             /\ order'[o].quote_contract = c
                             /\ order'[o].quote_amount = v
      \/ \E o \in OrderId :
           /\ Settles(u, o)
           /\ order[o].bid = ASK
           /\ order[o].quote_contract = c
           /\ order[o].quote_amount = v
           /\ owner'[order[o].base_contract][order[o].base_token_id] = u

\* The same of a token that leaves its owner.
TokenConsent ==
  \A c \in Contract, t \in Felt :
    LET u == owner[c][t] IN
    u \notin {Nobody, owner'[c][t]} =>
      \/ Signs(u, <<owner'[c][t], t, c>>)
      \/ SendsHome(u, t, c) /\ owner'[c][t] = Nobody
      \/ \E o \in OrderId : PutsUp(u, o) /\ AskFor(o, c, t)'
      \/ \E o \in OrderId :
           /\ Settles(u, o)
           /\ order[o].bid = BID
           /\ order[o].base_contract = c
           /\ order[o].base_token_id = t
           /\ owner'[c][t] = order[o].user

\* An order closes because its user signed its identifier, or because a taker
\* did and its user had signed its terms.
OrderConsent ==
  \A o \in OrderId :
    Open(order[o]) /\ ~Open(order[o])' =>
      \/ /\ order'[o].state = STATE_CANCELLED
         /\ Signs(order[o].user, <<o>>)
      \/ \E u \in User : Settles(u, o)

\* Nothing leaves a user who never signed that this very thing, in this amount,
\* go there.  It says no more than that: the contract takes a signature as
\* often as it is presented, and the one of a minter for a mint also passes as
\* that of a transfer, so a user may lose something more than once, or at
\* another entry point, by one signature.  What a fulfilled order takes, its
\* user put into escrow for the terms signed.  (Balances wrap when the supply
\* may exceed the field, so this is about a bounded supply.)
HolderConsents == [][MoneyConsent /\ TokenConsent /\ OrderConsent]_l2vars

\* While the contract is paused nothing leaves and nothing is traded: the
\* only custody that changes is what a deposit message brings.
PauseFreezes ==
  [][pause = 1 =>
       \/ UNCHANGED <<description, client, balance, owner, origin, order>>
       \/ /\ toL2' # toL2
          /\ UNCHANGED <<description, client, origin, order, toL1>>
          /\ \A c \in Contract, t \in Felt :
               owner[c][t] # Nobody => owner'[c][t] = owner[c][t]]_l2vars
=============================================================================
