-------------------------------- MODULE Mirror --------------------------------
(***************************************************************************)
(* The interpreter (interpret.py) behind the exchange.  Every transaction  *)
(* that L2 executes is stored by the crawler; the interpreter runs the     *)
(* handler of its entry point on the database, which answers the gateway's *)
(* queries ("warm") where L2 itself would be asked otherwise ("cold").     *)
(*                                                                         *)
(* One session spans the transactions of a block and is committed with the *)
(* block's number; an exception or a crash drops it, and the block is      *)
(* interpreted again.  The tables are one record; a handler is a function  *)
(* from tables to tables and a predicate, what it asserts or takes for     *)
(* granted.  Fungible transfers that the gateway booked are in Transfers.  *)
(***************************************************************************)
EXTENDS Custody, Sequences

CONSTANTS
  Registered, \* collections that register_collection may know beforehand
  Metadata,   \* what a token's URI may answer: "valid", "partial", "unreachable"
  Resident,   \* whether cancel_order finds a bid's user in the identity map
  Side,       \* bound: the sides of the orders that users create
  NoRow,      \* a null column, or no row
  MaxLag,     \* bound: transactions that the interpreter has not committed
  MaxFlows,   \* bound: rows of deposit, withdrawal and token_flow together
  MaxSkips,   \* bound: transactions that exec passes over
  MaxCrashes  \* bound: crashes

ASSUME MirrorAssumption ==
  /\ Registered \subseteq Registration
  /\ Metadata \subseteq {"valid", "partial", "unreachable"}
  /\ Resident \subseteq BOOLEAN /\ Side \subseteq {ASK, BID}
  /\ NoRow \notin Key \cup Address \cup OrderId
  /\ NoRow \notin BOOLEAN /\ NoRow \notin Registration
  /\ MaxLag \in Nat \ {0} /\ MaxFlows \in Nat
  /\ MaxSkips \in Nat /\ MaxCrashes \in Nat

VARIABLES
  log,      \* the transactions of stored blocks that are not committed
  at,       \* how many of them the session has interpreted
  db,       \* the tables
  session,  \* the tables as the session sees them
  skipped,  \* how many transactions exec passed over, because it took a token's
            \* incomplete metadata for an unknown entry point
  crashes

mirror == <<log, at, db, session, skipped, crashes>>
vars == <<l2vars, mirror>>

(***************************************************************************)
(* The tables.  An account is its key, so its row is left out; sessions    *)
(* that insert it twice, and stop the interpreter, are in Transfers.       *)
(***************************************************************************)
TokenRow == [exists : BOOLEAN, owner : Key \cup {NoRow}, ask : OrderId \cup {NoRow}]

OrderRow == [user : Key, bid : BOOLEAN, contract : Contract, token : Felt,
             quote_contract : Contract, quote_amount : Felt,
             fulfilled : BOOLEAN \cup {NoRow}]

ASSUME NoRowAssumption == NoRow \notin OrderRow

FlowRow == [type : {"DEPOSIT", "WITHDRAWAL", "MINT", "TRANSFER"}, user : Key,
            contract : Contract, value : Felt, mint : {0, 1}]

Tables ==
  [fungible : [Contract -> BOOLEAN \cup {NoRow}],   \* token_contract
   minter : [Contract -> Key \cup {NoRow}],         \* blueprint
   address : [Key -> Address \cup {NoRow}],         \* account
   amount : [Key -> [Contract -> Int]],             \* balance, 0 without a row
   token : [Contract -> [Felt -> TokenRow]],
   order : [OrderId -> OrderRow \cup {NoRow}]]      \* limit_order

NoToken == [exists |-> FALSE, owner |-> NoRow, ask |-> NoRow]

\* Collection r was registered with the gateway, if r is not NoRow.
Opening(r) ==
  [fungible |-> [c \in Contract |-> IF c = Ether THEN TRUE
                                   ELSE IF r # NoRow /\ c = r.contract THEN FALSE
                                   ELSE NoRow],
   minter |-> [c \in Contract |-> IF r # NoRow /\ c = r.contract THEN r.mint
                                 ELSE NoRow],
   address |-> [u \in Key |-> NoRow],
   amount |-> [u \in Key |-> [c \in Contract |-> 0]],
   token |-> [c \in Contract |-> [t \in Felt |-> NoToken]],
   order |-> [o \in OrderId |-> NoRow],
   flows |-> EmptyBag]   \* deposit, withdrawal and token_flow, a bag of FlowRow

Init ==
  /\ L2Init
  /\ log = <<>>
  /\ at = 0
  /\ db \in {Opening(r) : r \in Registered \cup {NoRow}}
  /\ session = db
  /\ skipped = 0
  /\ crashes = 0

-----------------------------------------------------------------------------
(***************************************************************************)
(* Handlers: the tables d after transaction tx.                            *)
(***************************************************************************)
Known(d, c) == d.fungible[c] # NoRow
IsToken(d, c) == d.fungible[c] = FALSE

Flow(d, type, user, tx) ==
  [d EXCEPT !.flows = BagAdd(@, [type |-> type, user |-> user,
                                 contract |-> tx.contract, value |-> tx.value,
                                 mint |-> tx.org])]

Adjust(d, u, c, v) == [d EXCEPT !.amount[u][c] = @ + v]

\* lift_token
LiftToken(d, c, t) ==
  IF IsToken(d, c) THEN [d EXCEPT !.token[c][t].exists = TRUE] ELSE d

\* token.owner = u
Own(d, c, t, u) == [d EXCEPT !.token[c][t].owner = u]

DbRegisterContract(d, tx) ==
  IF Known(d, tx.contract) THEN d
  ELSE LET fungible == tx.kind # KIND_ERC721 IN
       [d EXCEPT !.fungible[tx.contract] = fungible,
                 !.minter[tx.contract] = IF fungible THEN NoRow ELSE tx.mint]

DbRegisterClient(d, tx) == [d EXCEPT !.address[tx.user] = tx.address]

DbMint(d, tx) ==
  Flow(Own(d, tx.contract, tx.value, tx.user), "MINT", tx.user, tx)

DbWithdraw(d, tx) ==
  Flow(IF IsToken(d, tx.contract)
       THEN Own(d, tx.contract, tx.value, NoRow)
       ELSE Adjust(d, tx.user, tx.contract, -tx.value),
       "WITHDRAWAL", tx.user, tx)

DbDeposit(d, tx) ==
  Flow(IF IsToken(d, tx.contract)
       THEN Own(d, tx.contract, tx.value, tx.user)
       ELSE Adjust(d, tx.user, tx.contract, tx.value),
       "DEPOSIT", tx.user, tx)

DbTransfer_Slip(d, tx) ==
  IF IsToken(d, tx.contract)
  THEN Flow(d, "TRANSFER", tx.to, tx)
  ELSE Adjust(Adjust(d, tx.from, tx.contract, -tx.value),
              tx.to, tx.contract, tx.value)

DbTransfer(d, tx) ==
  IF IsToken(d, tx.contract)
  THEN Flow(Own(d, tx.contract, tx.value, tx.to), "TRANSFER", tx.to, tx)
  ELSE Adjust(Adjust(d, tx.from, tx.contract, -tx.value),
              tx.to, tx.contract, tx.value)

DbCreateOrder(d, tx) ==
  LET created == [d EXCEPT !.order[tx.order_id] =
        [user |-> tx.user, bid |-> tx.bid = BID,
         contract |-> tx.contract, token |-> tx.value,
         quote_contract |-> tx.quote_contract,
         quote_amount |-> tx.quote_amount, fulfilled |-> NoRow]]
  IN IF tx.bid = ASK
     THEN [created EXCEPT !.token[tx.contract][tx.value].ask = tx.order_id]
     ELSE Adjust(created, tx.user, tx.quote_contract, -tx.quote_amount)

DbFulfillOrder_Slip(d, tx) ==
  LET ord == d.order[tx.order_id]
      closed == [d EXCEPT !.order[tx.order_id].fulfilled = TRUE,
                          !.token[ord.contract][ord.token].ask = NoRow]
  IN Adjust(closed, tx.user, ord.quote_contract, ord.quote_amount)

\* Of a bid; for an ask see Fails.
DbFulfillOrder(d, tx) ==
  LET ord == d.order[tx.order_id]
      closed == [d EXCEPT !.order[tx.order_id].fulfilled = TRUE,
                          !.token[ord.contract][ord.token].ask = NoRow]
  IN Adjust(Own(closed, ord.contract, ord.token, ord.user),
            tx.user, ord.quote_contract, ord.quote_amount)

DbCancelOrder_Slip(d, tx) ==
  LET ord == d.order[tx.order_id]
      closed == [d EXCEPT !.order[tx.order_id].fulfilled = FALSE]
  IN IF ord.bid THEN closed
     ELSE [closed EXCEPT !.token[ord.contract][ord.token].ask = NoRow]

DbCancelOrder(d, tx) ==
  LET ord == d.order[tx.order_id]
      closed == [d EXCEPT !.order[tx.order_id].fulfilled = FALSE]
  IN IF ord.bid
     THEN Adjust(closed, ord.user, ord.quote_contract, ord.quote_amount)
     ELSE [closed EXCEPT !.token[ord.contract][ord.token].ask = NoRow]

\* exec
Handled(d, tx) ==
  CASE tx.f = "register_contract" -> DbRegisterContract(d, tx)
    [] tx.f = "register_client" -> DbRegisterClient(d, tx)
    [] tx.f = "mint" -> DbMint(d, tx)
    [] tx.f = "withdraw" -> DbWithdraw(d, tx)
    [] tx.f = "deposit" -> DbDeposit(d, tx)
    [] tx.f = "transfer" -> DbTransfer(d, tx)
    [] tx.f = "create_order" -> DbCreateOrder(d, tx)
    [] tx.f = "fulfill_order" -> DbFulfillOrder(d, tx)
    [] tx.f = "cancel_order" -> DbCancelOrder(d, tx)

LiftsToken(d, tx) ==
  /\ tx.f \in {"mint", "withdraw", "deposit", "transfer", "create_order"}
  /\ IsToken(d, tx.contract)

\* What the handler asserts, and that its queries have a result.
Asserted(d, tx) ==
  CASE tx.f = "register_contract" ->
         Known(d, tx.contract) =>
           /\ d.fungible[tx.contract] = (tx.kind # KIND_ERC721)
           /\ IsToken(d, tx.contract) => d.minter[tx.contract] = tx.mint
    [] tx.f = "register_client" ->
         \A u \in Key \ {tx.user} : d.address[u] # tx.address
    [] tx.f \in {"mint", "deposit"} -> Known(d, tx.contract)
    [] tx.f \in {"withdraw", "transfer"} ->
         /\ Known(d, tx.contract)
         /\ IsToken(d, tx.contract) =>
              d.token[tx.contract][tx.value].owner =
                IF tx.f = "withdraw" THEN tx.user ELSE tx.from
    [] tx.f = "create_order" ->
         /\ Known(d, tx.contract) /\ Known(d, tx.quote_contract)
         /\ d.order[tx.order_id] = NoRow
         /\ tx.bid = ASK => d.token[tx.contract][tx.value].owner = tx.user
    [] OTHER -> d.order[tx.order_id] # NoRow

\* What raises otherwise: to load a bid's user lazily, and to lift the account
\* of a fulfilled ask a second time, which asks for the Decimal of an Account.
Fails(d, tx, resident) ==
  \/ tx.f = "cancel_order" /\ d.order[tx.order_id].bid /\ ~resident
  \/ tx.f = "fulfill_order" /\ ~d.order[tx.order_id].bid

-----------------------------------------------------------------------------
(***************************************************************************)
(* The interpreter.                                                        *)
(***************************************************************************)
Restarted == session' = db /\ at' = 0

Proceed(d) == session' = d /\ at' = at + 1

\* lift_token, when the token's URI answers m
WithMetadata(m, d, tx) ==
  \/ /\ m = "valid"
     /\ Proceed(Handled(LiftToken(d, tx.contract, tx.value), tx))
     /\ UNCHANGED skipped
  \/ /\ m = "partial"
     /\ skipped < MaxSkips
     /\ Proceed(LiftToken(d, tx.contract, tx.value))
     /\ skipped' = skipped + 1
  \/ m = "unreachable" /\ Restarted /\ UNCHANGED skipped

Interpret ==
  LET tx == log[at + 1] IN
  /\ at < Len(log)
  /\ \/ ~Asserted(session, tx) /\ Restarted /\ UNCHANGED skipped
     \/ /\ Asserted(session, tx) /\ LiftsToken(session, tx)
        /\ \E m \in Metadata : WithMetadata(m, session, tx)
     \/ /\ Asserted(session, tx) /\ ~LiftsToken(session, tx)
        /\ \E resident \in Resident :
             IF Fails(session, tx, resident) THEN Restarted
             ELSE Proceed(Handled(session, tx))
        /\ UNCHANGED skipped
  /\ UNCHANGED <<l2vars, log, db, crashes>>

\* The block ends with the last transaction that was interpreted.
Commit ==
  /\ at > 0
  /\ db' = session
  /\ log' = SubSeq(log, at + 1, Len(log))
  /\ at' = 0
  /\ UNCHANGED <<l2vars, session, skipped, crashes>>

Crash ==
  /\ at > 0
  /\ crashes < MaxCrashes
  /\ Restarted
  /\ crashes' = crashes + 1
  /\ UNCHANGED <<l2vars, log, db, skipped>>

-----------------------------------------------------------------------------
(***************************************************************************)
(* L2, whose transactions the gateway relays or a user sends directly, and *)
(* the crawler, which stores them.  exec ignores set_pause, and a paused     *)
(* exchange only does less, so it is not paused here.                       *)
(***************************************************************************)
Stored(tx) ==
  /\ Len(log) < MaxLag
  /\ log' = Append(log, tx)
  /\ UNCHANGED <<at, db, session, skipped, crashes>>

StoredFlow(tx) ==
  Stored(tx) /\ BagCardinality(db.flows) + Len(log) + skipped < MaxFlows

RelayMint(sig, user, t, c) ==
  /\ MayIntroduce(c, t)
  /\ Mint(sig, user, t, c)
  /\ StoredFlow([f |-> "mint", user |-> user, contract |-> c, value |-> t,
                 org |-> 0])

\* The interpreter finds the origin flag in the message that L2 sent.
RelayWithdraw(sig, user, v, c, address) ==
  /\ Withdraw(sig, user, v, c, address)
  /\ StoredFlow([f |-> "withdraw", user |-> user, contract |-> c, value |-> v,
                 org |-> origin[c][v]])

RelayTransfer(sig, from, to, v, c) ==
  /\ Transfer(sig, from, to, v, c)
  /\ LET tx == [f |-> "transfer", from |-> from, to |-> to, contract |-> c,
                value |-> v, org |-> 0]
     IN IF Fungible(c) THEN Stored(tx) ELSE StoredFlow(tx)

RelayRegisterClient(sig, user, address) ==
  /\ RegisterClient(sig, user, address)
  /\ Stored([f |-> "register_client", user |-> user, address |-> address])

RelayCreateOrder(sig, o, user, bid, bc, t, qc, q) ==
  /\ CreateOrder(sig, o, user, bid, bc, t, qc, q)
  /\ Stored([f |-> "create_order", order_id |-> o, user |-> user, bid |-> bid,
             contract |-> bc, value |-> t, quote_contract |-> qc,
             quote_amount |-> q])

RelayFulfillOrder(sig, o, user) ==
  /\ FulfillOrder(sig, o, user)
  /\ Stored([f |-> "fulfill_order", order_id |-> o, user |-> user])

RelayCancelOrder(sig, o) ==
  CancelOrder(sig, o) /\ Stored([f |-> "cancel_order", order_id |-> o])

StoreHandler(m) ==
  \/ /\ RegisterContract(m)
     /\ Stored([f |-> "register_contract", contract |-> m.contract,
                kind |-> m.kind, mint |-> m.mint])
  \/ /\ m.type = "deposit"
     /\ MayIntroduce(m.contract, m.value)
     /\ Deposit(m)
     /\ StoredFlow([f |-> "deposit", user |-> m.user, contract |-> m.contract,
                    value |-> m.value, org |-> 0])

Relay(sig) ==
  \/ \E user \in Registrant, a \in Address : RelayRegisterClient(sig, user, a)
  \/ \E c \in Contract : \E v \in Inputs[c] :
       \/ \E user \in Recipient : RelayMint(sig, user, v, c)
       \/ \E user \in User, a \in Address : RelayWithdraw(sig, user, v, c, a)
       \/ \E from \in User, to \in Recipient : RelayTransfer(sig, from, to, v, c)
  \/ \E o \in OrderId, user \in User :
       \/ \E bid \in Side, bc, qc \in Contract :
            \E t \in Inputs[bc], q \in Inputs[qc] :
              RelayCreateOrder(sig, o, user, bid, bc, t, qc, q)
       \/ RelayFulfillOrder(sig, o, user)
  \/ \E o \in OrderId : RelayCancelOrder(sig, o)

Upstream ==
  /\ \/ L1Step /\ UNCHANGED mirror
     \/ \E m \in DOMAIN toL2 : StoreHandler(m)
     \/ \E sig \in User : Relay(sig)
  /\ SupplyBounded'

Next == Upstream \/ Interpret \/ Commit \/ Crash

Spec == Init /\ [][Next]_vars

-----------------------------------------------------------------------------
(***************************************************************************)
(* The gateway's warm queries.                                             *)
(***************************************************************************)
GetBalance(user, c) == db.amount[user][c]

GetClient(address) == {u \in Key : db.address[u] = address}

\* The lists: their filters by owner, side and state, and by contract, are what the
\* properties need.  Other filters, the order and the pages are left out.
FindTokens(user) ==
  {ct \in Contract \X Felt : db.token[ct[1]][ct[2]].owner = user}

GetAsk(c, t) == {o \in OrderId : db.token[c][t].ask = o}

\* state is null, TRUE or FALSE.
FindOrders(user, bid, state) ==
  {o \in OrderId : /\ db.order[o] # NoRow
                   /\ db.order[o].user = user
                   /\ db.order[o].bid = bid
                   /\ db.order[o].fulfilled = state}

\* What all users find of one kind, added up.
Find(type, c) ==
  Carried(db.flows, {r \in DOMAIN db.flows : r.type = type /\ r.contract = c})

FindDeposits(c) == Find("DEPOSIT", c)
FindWithdrawals(c) == Find("WITHDRAWAL", c)
FindMints(c) == Find("MINT", c)

-----------------------------------------------------------------------------
(***************************************************************************)
(* What the mirror promises, once it has caught up.                        *)
(***************************************************************************)
MirrorTypeOK ==
  /\ at \in 0 .. Len(log)
  /\ \A d \in {db, session} :
       [f \in DOMAIN d \ {"flows"} |-> d[f]] \in Tables /\ IsABag(d.flows)
  /\ skipped \in 0 .. MaxSkips /\ crashes \in 0 .. MaxCrashes

\* Every transaction that was stored is committed, and none was passed over.
CaughtUp == log = <<>> /\ skipped = 0

\* get_balance answers the same warm as cold.  The handlers never ask L2 for a
\* balance: they replay deposits, withdrawals, transfers and both sides of every
\* order, over the blocks that were interpreted twice because of a crash or of an
\* unreachable token.
WarmBalances ==
  CaughtUp => \A u \in Key, c \in Contract : GetBalance(u, c) = balance[u][c]

\* A token is shown to the user who can dispose of it: its owner, or the user of
\* the ask that keeps it in escrow on L2, and it shows that ask and no other.
WarmTokens ==
  CaughtUp =>
    /\ \A u \in User : FindTokens(u) = {ct \in Contract \X Felt :
                                          Title(ct[1], ct[2]) = u}
    /\ \A c \in Contract, t \in Felt :
         GetAsk(c, t) = {o \in OrderId : AskFor(o, c, t)}

\* Orders are listed under the state that get_order reads on L2.
WarmOrders ==
  CaughtUp =>
    \A u \in User, bid \in BOOLEAN, s \in {NoRow, TRUE, FALSE} :
      FindOrders(u, bid, s) =
        {o \in OrderId :
           /\ order[o].user = u
           /\ (order[o].bid = BID) = bid
           /\ order[o].state = CASE s = NoRow -> STATE_NEW
                                 [] s = TRUE -> STATE_FULFILLED
                                 [] s = FALSE -> STATE_CANCELLED}

\* Only a client that L2 knows is shown, under the key that L2 knows.
WarmClients ==
  CaughtUp => \A a \in Address : GetClient(a) \subseteq {client[a]}

\* The mirror is well formed, and shows what L2 is whenever it has caught up.
MirrorInv ==
  MirrorTypeOK /\ WarmBalances /\ WarmTokens /\ WarmOrders /\ WarmClients

\* The open bids that every user is shown, and the tokens.
OpenBidsIn(c) ==
  UNION {{o \in FindOrders(u, TRUE, NoRow) : db.order[o].quote_contract = c} : u \in Key}

TokensOf(c) == {t \in Felt : \E u \in Key : <<c, t>> \in FindTokens(u)}

\* The lists of deposits and withdrawals explain the books at every commit:
\* balances and open bids add up to what came in and did not go out.  Of a
\* collection, the ids of the tokens that somebody is shown to own do.
BooksBalance ==
  skipped = 0 =>
    \A c \in Contract :
      IF db.fungible[c] = TRUE
      THEN SumFunction([u \in Key |-> GetBalance(u, c)])
             + SumFunction([o \in OpenBidsIn(c) |-> db.order[o].quote_amount])
           = FindDeposits(c) - FindWithdrawals(c)
      ELSE SumFunction([t \in TokensOf(c) |-> t])
           = FindDeposits(c) + FindMints(c) - FindWithdrawals(c)

\* Wherever the interpreter stands, and however often it has started again, it
\* can interpret the transaction before it: what a handler asserts of the tables
\* is true of them, and the rows that it asks for are there.  Exceptions: it
\* passed over an earlier transaction; or L2 has fulfilled an ask; or L2 has
\* cancelled a bid whose user this block did not load.  There it raises and makes
\* no further progress, although the exchange went on.
RaisesAtOrdersOnly ==
  at < Len(log) /\ skipped = 0 =>
    LET tx == log[at + 1] IN
    \A resident \in Resident :
      \/ Asserted(session, tx) /\ ~Fails(session, tx, resident)
      \/ tx.f = "fulfill_order" /\ order[tx.order_id].bid = ASK
      \/ tx.f = "cancel_order" /\ order[tx.order_id].bid = BID /\ ~resident
=============================================================================
