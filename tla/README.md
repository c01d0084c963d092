# Richmetas in TLA+

Richmetas is an exchange for non-fungible tokens that trades on StarkNet (L2)
and settles on Ethereum (L1). This directory holds TLA+ modules of its two
contracts, of the messages between them and of the services behind its HTTP API,
TLC configurations that check them on small instances, and TLAPS proofs. Source
references are to `src/`.

## 1. The system

| Part | State | Operations |
|---|---|---|
| **Exchange contract** `contracts/Richmetas.cairo` | pause flag, contract descriptions, clients, balances, token owners, origin flags, limit orders | `set_pause`, `register_client`, `mint`, `withdraw`, `transfer`, `create_order`, `fulfill_order`, `cancel_order`; handlers of L1 messages `register_contract`, `deposit` |
| **Bridge contract** `contracts/Richmetas.sol` | trusted L2 contract, registered token contracts, the assets it holds | `trust`, `registerContract`, `deposit` (Ether), `deposit` (token), `withdraw` |
| **Message bridge** `contracts/IStarknetCore.sol` (external) | messages pending in each direction | send, handle, consume |
| **Collection contract** `contracts/ERC721PresetMinter.sol` | who holds which token | `mint`, `mintFor`, transfers, burns |
| **Forwarder** `contracts/RichmetasForwarder.sol` | nonces per address and batch | `verify`, `execute` |
| **Crawler** `richmetas/crawl.py` | blocks and transactions in the database, two cursors, a cache of block numbers | `run` (up and down), `purge` |
| **Interpreter** `richmetas/interpret.py` | accounts, tokens, orders, balances, flows in the database; the block counter | one handler per entry point; polling and resending of transfers |
| **Transfer service** `richmetas/services/TransferService.py` | transfers and balances in the database | `transfer`, `reject` |
| **HTTP gateway** `richmetas/serve.py` | accounts, blueprints, collections, metadata; transfers it accepts | about 30 handlers: registrations, metadata, transfers, orders, queries |
| **Ethereum monitor** `richmetas/ether_monitor.py` | L1 blocks and events; the match of an event with a withdrawal | `run`, `persist` |

How they interact. Users sign L2 transactions; the gateway forwards them to the
sequencer, which runs each alone and to the end or reverts it. L1 calls put
messages in the message bridge; the sequencer offers each to its handler until
the handler accepts it. `withdraw` on L2 puts a message that the user consumes
on L1. The crawler copies L2 blocks into the database, the interpreter replays
them there in order, the monitor adds the L1 side of withdrawals. Gateway and
interpreter share the database, at its default isolation level, in two
processes.

What is hard, and what makes each part correct:

* *Exchange.* No operation is concurrent with another, but any sequence of
  calls by any users is possible, numbers are field elements that wrap, and
  one value (owner 0) means several things. It is correct if nothing is created
  or lost, nothing leaves a user who never signed that it go there, escrow always
  backs its order and can always be refunded, and the flag that tells L1 to mint is
  true exactly when it should be.
* *Bridge.* Messages are delivered in any order, late, after reverts, and while
  the exchange is paused. It is correct if the vault covers what L2 owes, a token
  is never in two places, every withdrawal can be paid and every deposit is
  credited in the end.
* *Off-chain services.* Crashes between commits, lost updates between two
  processes, retries of what was already sent, results that arrive late or out
  of order. They are correct if the database converges to the L2 state, and a
  transfer is applied once or refunded.

The full list of hazards, each at its line with the properties that cover it,
is under `hazards` in PROJECT.json.

## 2. Modules

```
contracts                                   services

Felt   StarknetCore (external)  Wallets     Transfers    Clients     Collections
   \      /        \          (abstract)    Crawler      Monitor     Metadata
  StarkRichmetas   EtherRichmetas  |           (one concern each, on the tables
     |    \             |          |            that it is about)
     |   Custody -------|-INSTANCE-+
     |     |  \         |
     |     |   Bridge --+ (INSTANCE)
     |     |
     |   Mirror   the interpreter behind the exchange, all tables
     |
  proofs (TLAPS):
        SumTheorems              GatewayProofs (Monitor, Clients)
        /          \             CollectionsProofs
  StarkRichmetasProofs           CrawlerProofs
      |        TransfersProofs   MetadataProofs
  ExchangeProofs (Bridge, Mirror)
```

Every MC module extends the module it is named after and gives TLC its values
(MCStarkRichmetas extends Custody).

### 2.1 The contracts

**Felt** is the arithmetic of the contract: integers modulo the prime `P`, and
`assert_nn`, which accepts 0 .. `RangeCheckBound` - 1 (2^128 in Cairo). The only
assumption is `P >= 2 * RangeCheckBound`.

**StarknetCore** is the message bridge: a bag per direction. A handler that
reverts consumes nothing.

**StarkRichmetas** is `Richmetas.cairo`. A variable per storage variable, with
its name, plus `signer`, a history variable: who signed the last transaction.
An action per entry point; its guard is the conjunction of the asserts, in
the order of the code. What is abstracted:

* *Signatures.* `Signed[u]` are the inputs that `u` has signed, and
  `Verified(sig, key, inputs)` says that the signature of the transaction is one of the
  owner of the key over these inputs. The hash covers the inputs and no selector, and
  no nonce is stored (576-614): what is signed once is good as often as it is presented,
  and at every entry point whose inputs have that shape. `mint` and `transfer` share
  one (`GiftInputs`), and so do the entry points of one input (`SingleInputs`).
* *Nonces* are inputs like others and distinguish otherwise equal messages; storage
  does not keep them. A bag counts equal messages, which has the same effect.
* *Inputs.* `Inputs[c]` are the amounts or token ids used with contract `c`,
  `Recipient` the keys that are named as receivers, and so on. In the proofs
  these sets are arbitrary; in TLC's instances they are small.

L1 is unconstrained here: it sends any message and consumes any it was sent
(`L1Step`). `FreshOnly = TRUE` adds the one discipline that the contract relies
on and does not enforce: nobody introduces (mints or deposits) a token that an
open ask holds in escrow.

**Custody** looks at the same state as a custodian: `Wealth` (balance and open
bids), `Title` (owner, or the user of the open ask), `InSystem` (all that is
owed, or under way). It states conservation and refundability and the refinement
of **Wallets**, which is the promise made to users: wallets of natural numbers,
offers that reserve but move nothing, and a settlement that swaps money and
title in one step. Wallets has no escrow, no wrapping and no messages.
`create_order` and `cancel_order` change no wealth and no title in it.

**EtherRichmetas** is `Richmetas.sol` with the token contracts it calls.
Assumed of these (external) contracts: a transfer moves the asset or reverts.

**Bridge** composes the two contracts. Its L1 steps replace `L1Step`; of the
collections it assumes `Fresh`: a minter mints a token on one chain only, and
only if it exists on neither. Holders may pass tokens on, burn them, or push them
into the vault without a deposit; the admin may register a contract
towards the wrong L2 address and trust another L2 contract.

### 2.2 The services

All the services are Python processes that share one PostgreSQL database. What
the modules say of a *session* is what SQLAlchemy's `AsyncSession` and read
committed isolation do: a session reads a row once, changes its own copy, and
writes what it changed at commit; a commit that breaks a unique or foreign key,
an exception and a crash leave nothing. No row is locked between a read and the
commit, so a session may commit over another's write. Each `await` on the way
where another process may matter is a step of its own. A session of the
interpreter spans a block.

Some properties need that sessions keep off each other's rows, which the code
does not ensure. The modules concerned have a history variable `overlapped`: it becomes
TRUE for good when two sessions that are open have touched the same rows. Sessions
overlap freely all the same, and what is claimed only for `~overlapped` says so; the
other properties of these modules hold without it.

**Transfers**: a fungible transfer, off chain. `serve.py` books it
(`TransferService.transfer`) and then sends it; the interpreter books what it
finds in a block and never heard of, polls those that are under way, sends lost
ones again, and takes rejected ones back (`TransferService.reject`). State: the
status of each hash at the sequencer and the balances on L2; the tables `transfer`
and `balance`; a session per request and one for the interpreter, with the
balances it has loaded. A request goes `TransferRequest`, `LiftAccount` and `LiftBalance` (one
await per account and per balance), `ApplyTransfer`, `CommitRequest`, `SpawnSend`, and its client may
repeat it; the interpreter goes through a block's transfers and then its poll. `account` counts the rows
of each key: a session inserts one that it does not find, other handlers do so, too
(`LiftElsewhere`), and no constraint keeps two from doing it at once; with two rows
`lift_account` raises. `applied` and `refunded` are history: how
often the booking of a transfer was committed.

**Mirror**: extends Custody, and thereby runs the whole exchange. Each of its
entry points appends its transaction to `log`; `Interpret` runs the handler of the
interpreter on the session's tables, `Commit` and `Crash` end the session. The tables
are a record `db`. A handler is a pair of operators: what the tables are
afterwards (`DbMint`, `DbCreateOrder`, ...), and when it raises (`Fails`, from its
assertions, `scalar_one`s and lazy loads). The gateway's queries (`GetBalance`,
`FindTokens`, `FindOrders`, `GetClient`, ...) are operators on `db`, with the filters
that the properties ask for; further filters, the order of the answers and their pages are left out.
`Metadata` says what a token's URI may answer: with "partial" exec takes the missing
key for an unknown entry point and passes over the transaction (interpret.py:53, 323),
which `skipped` counts. `Resident` is whether the session happens to hold
a bid's user in memory when `cancel_order` wants it.

**Clients**: `register_client` of the gateway (select, commit, relay) against
`lift_account` of the interpreter (select, commit) on the table `account`, with L2's
rule that an address is registered once. Other handlers insert accounts as well
(`LiftElsewhere`), and a commit writes a row only if the session changed it (`writes`).
L2 may be paused when a transaction reaches it; it is refused then, and `refused`
remembers it. **Collections**: blueprints,
`register_collection`, the signed request, the forwarder's nonces on L1, the
bridge's registration and the interpreter's `register_contract`. **Metadata**:
`update_metadata` against `lift_token`, which fetches the metadata over HTTP from
the gateway itself, in the middle of its session. What a minter signs there is address, token
id and nonce, and not the metadata: the properties speak of *accepted* updates.

**Crawler**: L2's chain, which grows, makes blocks final and may abort or replace
those that are not; `crawl.py`'s two cursors, block cache and cooldown; `purge`, which
refreshes 20 blocks at a time and begins again at the first failed one; the
interpreter's block counter. A block is its number with a version. `executed` (history) are
the calls that the interpreter has executed, `flows` those of them that left a row which refers to the
transaction (`Referring`): only such a row makes purge's deletion fail.

**Monitor**: withdrawals on L2, rows that the interpreter writes for them,
events on L1; `ether_monitor.py` with its filter, one commit for a block and one for
each event, and the match of an event with a row by amount (or origin flag), address and nonce, and
by neither contract nor token. Users choose the nonce, so two withdrawals may be
alike in all of that (`Twins`). Without a match, or with two, `scalar_one` raises and the process dies.

Abstractions common to them: an amount, a key, an address and a hash are model values
or small numbers; JSON, hashing and calldata encoding are left out; the sequencer,
L1 and HTTP peers are the nondeterminism that the code has to live with.

## 3. What the runs show

### 3.1 The contracts

`P` and `RangeCheckBound` are tiny on purpose: a field of 4 or 6 elements brings
wrapping and the range check within reach of two or three deposits.

| Run | Instance | Question |
|---|---|---|
| `exchange` | 2 users, 2 orders that compete for one token, supply up to 2 with `RangeCheckBound` 3; signatures that may be presented again; one user signs everything, the other no withdrawal | Is escrow sound? `EscrowBacked`, `OriginLive`, `Refundable`, `OrderHistory`, `HolderConsents`. Does the exchange keep the promise of Wallets? `ImplementsWallets` |
| `overflow` | field of 4 elements, deposits of 1 and -1 without limit, minter not disciplined; pause at any moment (and with a bad argument), registrations of the collection as every kind 0..2 and of Ether once more, messages from another L1 contract, gifts to key 0 | Does wrapping break types or create value, is what is held of the kind of its contract? `L2Inv` (types and `HoldingsOfKind`), `ValueConserved` (modulo `P`). Does pausing freeze, do kinds stay? `PauseFreezes`, `OriginOfCollections` |
| `bridge` | both chains, supply 2, 2 orders, 2 messages under way each way, wrong L2 addresses | Does the vault cover what L2 owes, has every token one home? `Solvency`, `OneHome`. Does L1 behave as the exchange was told? `ExchangeInItsEnvironment`: the exchange inside Bridge satisfies its own specification with `FreshOnly` |
| `bridge_live` | both chains, an ERC20 contract and a collection, pauses | `DepositCredited` |
| `remint_escrow` | as `exchange`, minter not disciplined | Violation expected, see 3.3 |

*Bounds.* `MaxInFlight` bounds the messages pending in one direction, by guard
of the send. Two are enough for two equal messages, for a deposit that overtakes
the registration of its contract, and for two withdrawals collected in either
order; the runs of the exchange alone use one, as messages do not interact there.
One token id and one or two orders suffice for escrow, whose properties relate
two orders and one token. `SupplyBounded` (run `exchange`) says
that all that exists of a currency is below `RangeCheckBound`; 2^128 units of
Ether do not exist. Order identifiers are a symmetry set
in `exchange` and `bridge`: no definition names a particular one. The runs `exchange` and `bridge` leave out pausing and client registration
(empty `PauseInput`, `Registrant`), which multiply the states and are explored
in `overflow`. Deadlock is not checked: with a bounded supply, nobody has to do
anything.

*Fairness.* Only `bridge_live` uses it: weak fairness of the handling of each
deposit message. The sequencer keeps a message until its handler accepts it
(the code has no other way to lose it) and no other step disables an
acceptable deposit for good. Users and admins are not assumed to do anything.

*Mutants.* Definitions that end in `_Slip` are plausible mistakes (a dropped
check, a stale read, a write that does not clear). No specification uses them;
PROJECT.json names, for each property, one that it notices.

### 3.2 The services

| Run | Instance | Question |
|---|---|---|
| `transfers` | 2 opposite transfers, a request each that may be repeated, direct sends, accounts that are inserted twice, a poll limit that bites, 1 crash | Is each transfer booked once, and taken back exactly when L2 rejected it? `BookedOnce`. Does the database differ from L2 by the transfers under way only, unless sessions overlapped? `BooksReconcile`. Is every booked transfer settled, unless a key with two rows stops the interpreter (`Blocked`)? `Settled` |
| `mirror` | 2 users, 1 token, 1 order, 1 client, 2 transactions behind, 2 flows, 1 crash, 1 transaction passed over | When it has caught up, does the database show L2? `MirrorInv` (`WarmBalances`, `WarmTokens`, `WarmOrders`, `WarmClients`). Do its lists explain it? `BooksBalance`. Does the interpreter raise only at a fulfilled ask, at a bid that was cancelled while its user was not loaded, or after it passed over a transaction? `RaisesAtOrdersOnly` |
| `clients` | 3 requests for 2 keys and 2 addresses, each may be repeated, a user that goes to L2 directly with either address, a key that other handlers insert, 1 crash or 1 transaction that meets a pause | Is what is shown as L2 knows it? `WarmAgrees`, for addresses that are `Settled`. Unless sessions overlapped: `ClientsInv` (`OneRow`), `AnsweredOnce`, `Registered` (of what was not `refused`), `Passed`, but for a user who is `Wayward` |
| `collections` | 4 overlapping requests of 2 minters, 1 blueprint, direct registrations by the admin, 1 crash | Does what was signed fit the table for ever, and does the interpreter get past it? `CollectionsInv` (`SignedForMinter`, `SignedPasses`), `MinterFixed`, `Passed` |
| `crawler` | 3 blocks, 2 of them with calls, one of which leaves a row; cache buckets and batches of 2, `--thru`, a block that is aborted or replaced or both, a purge, 1 crash | `CrawlerInv` (`NeverStoredTwice`), `NothingSkipped`, `FinalTransactions`, `PurgeAdvances` |
| `monitor` | 3 withdrawals, a token and two twins, 2 L1 blocks, 1 crash, the monitor ahead of the interpreter | Is no event passed by? `NothingMissed`. Whose is a receipt? Its own withdrawal's, or that of a twin made later: `OwnReceipt`. Does each paid withdrawal get one if there are no twins? `Received` |
| `metadata` | 5 requests with 3 nonces, 2 crashes | `MetadataInv` (`AcceptedMetadata`). Unless sessions overlapped: `LatestMetadata`, `MintPassed` |

An invariant that ends in `Inv` is the type invariant of its module and the parts
named beside it.

*Bounds.* `MaxLag` bounds how far the interpreter is behind the chain; two
transactions behind are enough for a handler that depends on another one of
its own block, and one that L2 has overtaken. `MaxFlows` bounds the rows of
deposits, withdrawals and mints, and so the length of a run of the exchange (the
rows are never removed): a deposit and a mint, which one order can trade, or either
and its withdrawal. `MaxSkips` bounds the transactions that are passed over; after
one, the properties of the mirror claim nothing. `MaxCrashes` (`MaxDeaths` in Monitor) bounds crashes over the
whole behaviour; one is enough to stop any session at any step and run it again
beside another. In Clients, `MaxFaults` bounds crashes and refused transactions together.
`MaxRows` bounds the rows of a key that other handlers insert: with one, a session that has
found none still adds a second. `MaxBlock`, `MaxReplaced` (numbers whose first block is
aborted or replaced), `MaxPurges` and `MaxLog` bound what would go
on for ever; three blocks are the least that leave a hole between two stored ones.
`Bucket` and `Batch` are 2 instead of 1000 and 20: the boundary between two buckets,
and a batch that is full, have to lie inside the instance. `PollLimit` is 1: one of
two transfers has to wait. The exchange inside `mirror` is not paused: exec ignores
`set_pause`, and a paused exchange only does less.

*Fairness.* The interpreter and the monitor run for ever, or are restarted when
they die (each of them reads from its tables where to go on); L2 goes on building
blocks and executes or rejects what it has received. A request that has begun comes to
its commit, unless the run's crashes stop it; a request need not begin, and the gateway
need not send after it has committed. Nobody is assumed to send anything, to consume
a withdrawal, or to bring a signed request to L1. The runs `mirror` and `crawler` check
safety only and assume no fairness.

### 3.3 What the code does against its own word

*A token in escrow can be minted again* (`remint_escrow`, violation expected). A token
in escrow has owner 0 (`Richmetas.cairo:444`), and `mint` takes owner 0 for a token that
does not exist (251-252). If a minter mints a token that an open ask holds,
`fulfill_order` and `cancel_order` fail for ever on their `assert usr = 0` (497, 543).
The same owner check lets `mint` create a token on L2 that has gone to L1. This is why
`FreshOnly` and `Fresh` are assumptions; L1 deposits, on the other hand, cannot break
them (`ExchangeInItsEnvironment`).

The modules of the services contain further places where the code stops or
disagrees with itself. No run is devoted to them; the properties of section 3.2 are stated around them,
with the exception named in each:

* The contract hashes the inputs of a call and nothing else, and stores no nonce
  (`Richmetas.cairo:576-614`): one signature is good for any number of calls, and a
  minter's signature of a mint is one of a transfer, too (254-259, 376-381).
  `HolderConsents` therefore says that what leaves a user was signed for, and not how often.
* `fulfill_order` of an ask lifts the buyer's account twice, the second time from the
  row instead of the key (interpret.py:251, 257): the interpreter raises on this
  transaction after every restart (`Fails` in Mirror, whose log is never empty again).
* `cancel_order` of a bid reads relations that its query did not load
  (interpret.py:275); an async session cannot load them then (`Resident`).
  `RaisesAtOrdersOnly` names these two and says that there is no third.
* `except KeyError` (interpret.py:53) catches a missing key of the metadata, too: a
  transaction is passed over half done, and later handlers fail (`skipped`).
* Two requests that overlap, for one key and two addresses, are both answered 200
  (serve.py:64), and two that overlap insert two rows for one token, after which its
  metadata cannot be read (serve.py:344) (`overlapped`).
* Sessions that overlap may insert two rows for one key (TransferService.py:65-74,
  interpret.py:284-286, serve.py:58-66). `scalar_one` and `one` raise for this key from then on: the
  interpreter stops for good at a transaction that names it (`Blocked`
  in Transfers, `overlapped` in Clients).
* `register_client` is refused by L2 while the exchange is paused (`Richmetas.cairo:220`). The gateway
  has committed the row and answered 200, and nobody sends the transaction
  again (`refused` in Clients).
* While the interpreter is behind, the event of a withdrawal is taken for that of an
  earlier one with the same amount, address and nonce (ether_monitor.py:103-104); with both in the
  table, the monitor dies of either's event (`Twins`).
* L2 lets a key register any number of addresses, the table has room for one. When a
  user has a second one registered without the gateway, the interpreter overwrites the
  first (interpret.py:292); the gateway no longer shows it and may answer 200 for it to
  another user (`Wayward`, `Settled` in Clients).
* A contract in the gateway's table that the admin registers on L1 with another
  kind or minter stops the interpreter (interpret.py:66) (`Direct` in Collections).
* A transfer that is booked by one session while another one has the same balance
  in hand overwrites it (TransferService.py:42) (`overlapped`).

## 4. What is proved

### 4.1 The contracts

For all values of the constants that satisfy `FieldAssumption`, `MaxInFlightAssumption`,
`L2Assumption` and, for the bridge, `BridgeAssumption`. These say what the code fixes:
the prime is at least twice the range-check bound, key 0 signs nothing, the admin has a
key, Ether is a contract, the vault is no user's address, and there are finitely many keys
and order identifiers, which are felts. Any set of amounts, tokens, contracts,
registrations and L1 addresses is allowed, finite or not.

**StarkRichmetasProofs**, by induction over the entry points:

* `TypeCorrect`: `L2Spec => []L2TypeOK`. The type invariant is inductive. `HoldingsKept`:
  `L2Spec => []L2Inv`, with `HoldingsOfKind`: tokens are in collections only, money in ERC20
  contracts only, escrow and messages included. It is inductive with the types, since a kind is written
  once, while the contract holds nothing.
* `EscrowSound`: with `FreshOnly`, `L2Spec => []EscrowBacked`. Inductive together
  with the type invariant. The argument: a step that opens no ask and changes the
  owner only of tokens that no ask offers afterwards is harmless (`EscrowFrame`);
  every entry point but an ask is such a step, since it takes the token from its
  owner, and a token with an owner is not in escrow. An ask takes its token
  from the owner too, so no other ask has it.
* `OriginSound`: if nobody gives tokens to key 0, `L2Spec => []OriginLive`. It needs
  no discipline of minters.
* `OriginsOfCollections`: `L2Spec => []OriginOfCollections`. Inductive with the types; `KindsAndOrigins`
  says what one step may do to descriptions, flags and messages.
* `OrdersFinal`: `L2Spec => OrderHistory`; `PauseHolds`: `L2Spec => PauseFreezes`.
* `PaymentExact`: if `assert_nn` accepts `bal - v`, then `v <= bal` and nothing
  wrapped, even for a balance that deposits have brought beyond the range check.

**SumTheorems** is about `SumFunction` of the community modules, in which everything
that is owed, reserved or under way is expressed: what a sum over a finite set is after
a point is added, removed or changed, and its bounds. `SumFunction` is a fold, defined by
recursion over finite sets by CHOOSE. The provers cannot instantiate the library's
induction over finite sets; the module argues by a smallest counterexample instead
(`SmallestSubset`, from the well-founded order of the subsets of a finite set), first that the recursion has a solution
(`SumExists`), then that any two agree (`SumsAgree`).

Its second half does the accounts. For each entry point, one lemma says whose
wealth changes by how much (`WealthOf...`), another that the sum over users and
messages stays (`...Conserves`, from `Flows`: one side of a payment loses, another gains).

* `ConservesValue`: `L2Spec => ValueConserved`, wrapping included. Inductive
  invariant `AccountInv`: types, finite bags, and amounts of orders within the range check
  (`OrdersInRange`), without which a refund could wrap.
* `OrdersRefundable`: with `FreshOnly`, `BoundedSpec => []Refundable`. From `BoundedInv`
  (`AccountInv` and the supply bound) and `EscrowSound`: a refund passes `assert_nn`
  because balance and reserve are terms of one sum that the supply bounds (`WithinSupply`).
* `HoldersConsent`: `BoundedSpec => HolderConsents`, needing no fresh tokens, for whatever
  each user has signed. What a fulfilled order takes was put into escrow by its user, in an earlier
  step; the induction carries that whoever has an order has signed its terms (`OrdersSigned`). The
  theorem is about what is signed for. How often one signature is used, the contract leaves open.

Its last part proves the refinement, `WalletsImplemented`: with `FreshOnly`,
`BoundedSpec => ImplementsWallets`. The refinement mapping is that of Custody. First what the
mapping makes of the parts of a state (`FreeIsBalance`: what a wallet has free is the
balance; `OfferedIsEscrow`, `TitleOf`), then one lemma per entry point: registration, client and
pause map to a stutter, the others to the step of Wallets with their name. `CustodyInv` gives what the guards
of Wallets need: that the token of an open ask has no owner (so its title is that of
the ask), and that a sum did not wrap (so a gain in felts is a gain in numbers).

**ExchangeProofs**, part I, is about both chains with their messages. `BridgeInv` is one inductive
invariant, as its parts lean on each other:

* `Solvent` extends `Solvency` to contracts that L1 has not registered yet (a deposit needs a
  registration, and money there must not be owed already). It needs `KindsMatch`: what L2 takes for a
  currency, or has a registration under way for, is one on L1, and likewise for collections.
* `HomeInv` extends `OneHome` in the same way, and keeps apart what holds even if tokens
  are sent to key 0. A count of the places of a token goes up in one place as it goes
  down in another (`HomeOnL1`, `HomeOnL2`).
* `EscrowBacked` is proved here anew, without `FreshOnly`: a token in escrow has its home there, so
  no deposit of it is under way (`ArrivalsAreFree`) and `Fresh` rules out a mint.

From it: `VaultCovers`: `BridgeSpec => []Solvency`. `TokensHaveOneHome`: if nobody sends tokens to
key 0, `BridgeSpec => []OneHome`. The hypothesis is needed: such a token has its flag
without an owner, and can be deposited or minted again with the flag of its former life.
`L1IsTheEnvironment`: `BridgeSpec => ExchangeInItsEnvironment`, by `ArrivalsAreFree` step by step.
With it, what holds of the exchange under `FreshOnly` holds of it behind the
bridge, from an assumption about minters alone.

Only model-checked: `DepositCredited`, a liveness property.

### 4.2 The services

In **GatewayProofs**, part I, for every set of withdrawals and any bounds:

* `EventsComplete`: `MonitorSpec => []NothingMissed`. The events in the table are a prefix of
  L1's log. The inductive invariant `IInv` says why a restart from the last block *in
  the table* is enough, although a block is committed before its events: a block
  gets there only if all events before its own are stored (`BlockAfterEvents`), events
  lie in the log in the order of blocks (`Ordered`), and the last block is asked for
  once more (`FromBlock`, lemma `FromSafe`). `NothingBehind` carries this through the two overlapping
  answers of the filter, and `HasChoice` says that the CHOOSEs of the model are
  defined.
* `MonitorTyped`: `MonitorSpec => []MonitorTypeOK`, from `IInv` and `Bounded`: what the monitor holds
  are positions of the log.
* `ReceiptsOwn`: `MonitorSpec => []OwnReceipt`, whatever amounts and nonces users choose. A
  receipt that is not that of its own withdrawal is that of a twin, and the twin was made later: L1 pays what
  L2 has made (`PaidIsMade`), rows come in the order of L2, and the match is unique when the event
  is stored. So an event of a withdrawal whose row is there is nobody else's.

In **TransfersProofs**, for every finite set of transfers and any accounts, requests,
poll limit and bounds. `BookInv` is the inductive invariant. Most of it is about one
session (`Good`), against the table of transfers and the answers of the sequencer:

* `Shape`: at which points of the code a session can be, and that it has in hand both
  balances of a transfer before it changes them (`transfer` and `reject` lift both first).
* `Writes`: the rows that it will write say what it has done to the balances: a row that
  is new for what it booked, `REJECTED` for what it took back, and for nothing else.
* `Backed`: a row that it rewrites without having booked it is in the table, and stays
  there while others commit; what it takes back L2 has rejected. The interpreter alone rewrites
  rows, which is why what it has read of them does not get stale.

`Blocks` adds that a block holds accepted transfers, and that the interpreter has one while it works.
There is a lemma for each way in which a session goes on (`BookIsGood`, `PollIsGood`, ...), one for the rest of the
world (`GoodKept`), one for a commit (`Flushed`, `FlushStep`), and one per action.

* `BooksTransfersOnce`: `Spec => []BookedOnce`. The unique key of the table is what makes the second
  of two sessions fail (`Conflict`); sessions overlap as they like.
* `TransfersTyped`: `Spec => []TransfersTypeOK`.
* `RootInv` is about the table of accounts: who has a balance or a transfer has an account, or gets
  one at the commit of the session that works with it (`Rooted`). So a session that has inserted an
  account knows that it has no balance, as long as sessions do not overlap.
* `BooksAgree`: `Spec => []BooksReconcile`. On top of `BookInv`, `SumInv` says that L2's balance is the
  opening one and the effects of what L2 executed, the table's the opening one and the effects of
  what is in the books, and that a balance that a session has loaded is the table's *now* and the
  effects of what the session did since. The last part is what an overlapping session breaks, and why
  `~overlapped` is needed; `Apart` (no account and no balance in two hands) makes it inductive, and `NetElsewhere`
  (a transfer does nothing to other balances) lets a session load one balance after having changed others.

In **CollectionsProofs**, for any contracts, keys, blueprints, requests, direct registrations and
bounds; the assumption says of `NoRow` that it is no key, id or row, as a null is none.

* `SignedStaysGood`: `Spec => []CollectionsInv`. A request reads a blueprint, checks its minter and
  commits later, when another one may have taken the blueprint or the address. The inductive
  invariant `CInv` says what survives the wait (`SessionOK`): the blueprint that the session
  has found has the signer as its minter, and so has the collection if it has a row. This holds because of
  how the tables may change at all (`Grows`, shown for every step): rows are only added, a blueprint keeps its
  minter, a collection its kind and minter; the unique columns (`Fits`) are what keeps it so. With `RaisedOK`, what
  the interpreter has once refused the table contradicts for ever, and so it was not
  signed (`RaisedNotSigned`).
* `MintersFixed`: `Spec => MinterFixed`, from `Grows` alone.

In **CrawlerProofs**, for any number of blocks, size of buckets and batches, replaceable blocks, purges
and crashes; the assumption says of `NoBlock` that it is no number, row or document. Three processes read
and write two tables without a lock, and what each has read may be old when it
writes. The inductive invariant `CrawlInv` says of each what does not get old:

* the crawler (`Cached`, `Fetched`): it has walked over the numbers from `i` up to `j`, and what the
  bucket in its cache does not show is either not stored or among these. As it only goes to a
  neighbour of what it has walked over, what the cache does not show there is not stored.
  `StoredOnce`: `Spec => []CrawlerInv`.
* purge (`PurgeGood`): a document may be old, but not one of a final block (`AsL2`, lemma
  `DocumentKept`), and what it calls aborted is so for good; a batch asks for each block once. With
  `TxsOK`, the transactions stored for a
  block are those of the version in its row, and they are there unless L2 has given the block up. `FinalAreProved`: `Spec => []FinalTransactions`;
  `PurgeProgresses`: `Spec => PurgeAdvances`.
* the interpreter (`ReadOK`, `FlowsOK`): it reads the block at its counter, all of whose
  transactions are there unless L2 has aborted or replaced the block since (`Standing`,
  `NeverReplaced`). `NoneSkipped`: `Spec => []NothingSkipped`.

`Frame` shows that these survive what the others do: L2 keeps final blocks, and no row of a
block is removed (`Onwards`).

In **MetadataProofs**, for any requests, nonces, transactions that name the token, and crashes.

* `AcceptedOnly`: `Spec => []MetadataInv`. The inductive invariant `IInv` says of a session that what it has
  read stays accepted: an accepted update stays accepted (`OkStays`), so the nonces below the one it
  has found stay used (`Sessions`), and the metadata that the interpreter has fetched stay said by somebody
  (`Lifting`), though the row may show others by the time of the commit. `WriteHolds` is about a commit.
* `LastAcceptedShown`: `Spec => []LatestMetadata`. `Alone` says what is so while no two sessions were
  open at once: there is one row at most, and the open session has it as it is. So an update that is
  committed has the highest nonce, and the interpreter has fetched what it had read and writes nothing.

In **GatewayProofs**, part II, for any keys, addresses, requests, direct registrations and
crashes; the assumption says of `NoRow` that it is no key or address. `ClientsSafe` is the
induction. Its first half, `CInv`, holds however sessions overlap: L2 gives an address to one key
for good (`LogOK`), everything that L2 knows was answered 200 or sent directly (`Provenance`),
a row keeps its key, so what a session has found is still its own (`RowsFound`), and what the
interpreter has passed of a settled address stays in the table (`Shown`): no request and no registration
names another address for its key, and a commit writes no address that another row has; what the
interpreter need not write it has found there (`Ready`). The second half, `AloneInv`, holds while no two sessions about one key or address are open:
what an open session has found is still so at its commit (`FoundSo`, `LiftedSo`), and a user who was
answered 200 has the row, unless wayward (`Kept`).

* `WarmAgreesHolds`: `Spec => []WarmAgrees`, from `CInv` alone.
* `ClientsInvHolds`: `Spec => []ClientsInv`; `AnsweredOnceHolds`: `Spec => []AnsweredOnce`.

`Wayward` and `Settled` are in these two properties because of the proof: without them the induction
fails at `CommitAccount`, for a user who registers a second address past the gateway (3.3), and with two
such addresses in the instance TLC finds the behaviour, too.

### 4.3 The exchange and its mirror

**ExchangeProofs**, part II, is about Mirror: the whole exchange, and the interpreter at any distance
behind it. No bound of the run is used: any users, contracts, tokens, orders, lag, metadata and number of
crashes. The hypotheses are `FreshOnly`, as in 4.1, and `RegistrationsAgree`: a collection that the gateway
knows beforehand is registered on L1 as it knows it (otherwise the assertion of `register_contract` fails,
as it should).

What is on the tables is meaningless while the interpreter is behind; what can be said is where they
lead. `MirrorFaithful` proves inductive: unless a transaction was passed over, there is a *trail* of tables
(`Trail`) from the committed ones over each transaction that is stored, in order. Each handler on it can
run (`Leads`: no assertion fails, no row is missing), the tables of the session lie on it at the place
where the session is, and it ends with tables that show what L2 is (`Reflects`) or before the
fulfilment of an ask, over which the interpreter stumbles every time (`Halts`, 3.3).

* A step of the exchange adds a transaction to the log and one table to the trail. For each entry point
  there is a lemma that the handler, on tables that reflect L2 before the step, can run and makes
  tables that reflect L2 after it. It needs the guard of the entry point and the invariants of 4.1: that
  the token of an open ask has no owner (`EscrowBacked`), and that no sum wraps (`BoundedInv`), as the database
  counts in integers. `HandlerMirrored` puts them together.
* A step of the interpreter goes one further on the trail, a commit moves the beginning of it to the
  session, a crash or metadata that cannot be reached take the session back to the beginning.

From it: `MirrorInvHolds`: `Spec => []MirrorInv`, as the trail of an interpreter that has caught up is a
single table, which reflects L2 (`MirrorFollows`). `RaisesAtOrdersOnlyHolds`: `Spec => []RaisesAtOrdersOnly`,
as the handler at hand can run, but for the two that raise by themselves, and the tables know the side of
each order as L2 does (`SidesAgree`).
`BooksBalanceHolds`: `Spec => []BooksBalance`, if nothing is sent to key 0; every table of a trail is
`Sound`: for each contract the rows of its flows add up to the balances, open bids and tokens. The
hypothesis is needed: for L2 a token of key 0 does not exist, so it can be minted once more, and the
rows count it twice.

What is left to TLC alone, of all that the runs check: `DepositCredited`, `Settled` (Transfers), `Received`,
`Registered`, `Passed` and `MintPassed`. They are liveness under fairness, which is beyond the provers.

## 5. Not modelled

* *Gateway queries that no other part depends on*: `get_contracts`, `find_collections`,
  `get_tx_status`, `inspect_tx`, uploads of assets, paging, and filters of lists that no property
  uses. They
  change nothing but files, or nothing at all.
* *Encoding and hashing*: `stark_key.py`, the packing of calldata, EIP-712 requests
  of the forwarder and its fees. They are pure functions on long numbers with no state;
  `Verified`, with the tuples of inputs, and the identity of a message stand for them.
* *Token contracts* that report failure by returning false (`Richmetas.sol:101`), roles
  and URIs of the collection contract: the code of these contracts is not under our control.
* *Reorganisations of L1*: the monitor does not handle them; its log only grows.
  Of L2, aborted and replaced blocks are modelled as far as `purge` goes. Calls of a block that
  replaces one are not interpreted once the number is stored or passed; `NothingSkipped`
  speaks of `Standing` blocks only.
* *Schema migrations and the API description*: configuration.

## 6. What could come next

1. The forwarder's `verify` and its fee as a module of its own.
2. Reorganisations of L1 in Monitor, to say what a receipt is worth then.
