------------------------ MODULE StarkRichmetasProofs ------------------------
(***************************************************************************)
(* Theorems about the exchange contract, for every set of users,           *)
(* contracts, orders and every field: its escrow, its orders and its       *)
(* origins; then the exchange as custody, that is, what the bound on the   *)
(* supply buys, that every step conserves what is owed, and that the       *)
(* exchange implements Wallets.                                            *)
(***************************************************************************)
EXTENDS Custody, SumTheorems

(***************************************************************************)
(* The arithmetic of felts.                                                *)
(***************************************************************************)

\* Sums and differences of felts are felts.
LEMMA FeltClosed ==
  ASSUME NEW a \in Felt, NEW b \in Felt
  PROVE  FeltAdd(a, b) \in Felt /\ FeltSub(a, b) \in Felt
BY FieldAssumption DEF Felt, FeltAdd, FeltSub

\* The guard of every payment is sound: when assert_nn accepts the difference
\* of a balance and a range-checked amount, the subtraction did not wrap, even
\* for a balance that deposits have brought beyond the range of assert_nn.
LEMMA PaymentExact ==
  ASSUME NEW a \in Felt, NEW v \in Felt, AssertNN(v), AssertNN(FeltSub(a, v))
  PROVE  v <= a /\ FeltSub(a, v) = a - v
BY FieldAssumption DEF Felt, FeltSub, AssertNN

(***************************************************************************)
(* Bags of messages.                                                       *)
(***************************************************************************)

\* The bags stay bags of messages as messages come and go.
LEMMA BagTyping ==
  ASSUME NEW S, NEW B, IsABag(B), DOMAIN B \subseteq S, NEW m
  PROVE  /\ IsABag(BagRemove(B, m)) /\ DOMAIN BagRemove(B, m) \subseteq S
         /\ m \in S => IsABag(BagAdd(B, m)) /\ DOMAIN BagAdd(B, m) \subseteq S
<1>1. B \in [DOMAIN B -> {n \in Nat : n > 0}]
  BY DEF IsABag
<1>2. IsABag(BagRemove(B, m)) /\ DOMAIN BagRemove(B, m) \subseteq S
  BY <1>1 DEF IsABag, BagRemove
<1>3. ASSUME m \in S
      PROVE  IsABag(BagAdd(B, m)) /\ DOMAIN BagAdd(B, m) \subseteq S
  BY <1>1, <1>3 DEF IsABag, BagAdd
<1> QED
  BY <1>2, <1>3

\* What is pending after a message came or went.
LEMMA BagDomains ==
  ASSUME NEW B, IsABag(B), NEW m
  PROVE  /\ DOMAIN BagRemove(B, m) \subseteq DOMAIN B
         /\ DOMAIN BagAdd(B, m) = DOMAIN B \cup {m}
         /\ m \in DOMAIN B => BagRemove(B, m) # B
<1>1. B \in [DOMAIN B -> {n \in Nat : n > 0}]
  BY DEF IsABag
<1>2. DOMAIN BagRemove(B, m) \subseteq DOMAIN B
  BY <1>1 DEF BagRemove
<1>3. DOMAIN BagAdd(B, m) = DOMAIN B \cup {m}
  BY <1>1 DEF BagAdd
<1>4. ASSUME m \in DOMAIN B PROVE BagRemove(B, m) # B
  <2>1. CASE B[m] = 1
    <3>1. m \notin DOMAIN BagRemove(B, m)
      BY <1>4, <2>1 DEF BagRemove
    <3> QED
      BY <1>4, <3>1
  <2>2. CASE B[m] # 1
    <3>1. BagRemove(B, m)[m] = B[m] - 1
      BY <1>1, <1>4, <2>2 DEF BagRemove
    <3>2. B[m] \in Nat
      BY <1>1, <1>4
    <3> QED
      BY <3>1, <3>2
  <2> QED
    BY <2>1, <2>2
<1> QED
  BY <1>2, <1>3, <1>4

-----------------------------------------------------------------------------
(***************************************************************************)
(* Type correctness, one lemma per group of entry points.                  *)
(***************************************************************************)

\* The updates of balances, owners and origins that the entry points share.
LEMMA CustodyTyping ==
  ASSUME L2TypeOK, NEW u \in Key, NEW c \in Contract, NEW v \in Felt,
         NEW b \in [Key -> [Contract -> Felt]]
  PROVE  /\ Paid(b, u, c, v) \in [Key -> [Contract -> Felt]]
         /\ Received(b, u, c, v) \in [Key -> [Contract -> Felt]]
         /\ GiveToken(c, v, u) => owner' \in [Contract -> [Felt -> Key]]
         /\ \A org \in {0, 1} :
              SetOrigin(c, v, org) => origin' \in [Contract -> [Felt -> {0, 1}]]
<1>1. b[u][c] \in Felt
  OBVIOUS
<1>2. FeltAdd(b[u][c], v) \in Felt /\ FeltSub(b[u][c], v) \in Felt
  BY <1>1, FeltClosed
<1>3. Paid(b, u, c, v) \in [Key -> [Contract -> Felt]]
  BY <1>2 DEF Paid
<1>4. Received(b, u, c, v) \in [Key -> [Contract -> Felt]]
  BY <1>2 DEF Received
<1>5. GiveToken(c, v, u) => owner' \in [Contract -> [Felt -> Key]]
  BY DEF L2TypeOK, GiveToken
<1>6. \A org \in {0, 1} :
        SetOrigin(c, v, org) => origin' \in [Contract -> [Felt -> {0, 1}]]
  BY DEF L2TypeOK, SetOrigin
<1> QED
  BY <1>3, <1>4, <1>5, <1>6

\* What the other tokens look like after one is given, or one flag is set.
LEMMA OwnerWrite ==
  ASSUME L2TypeOK, NEW bc \in Contract, NEW t \in Felt, NEW u \in Key,
         GiveToken(bc, t, u), NEW c \in Contract, NEW s \in Felt
  PROVE  owner'[c][s] = IF c = bc /\ s = t THEN u ELSE owner[c][s]
BY DEF GiveToken, L2TypeOK

\* The same for the origin flags.
LEMMA OriginWrite ==
  ASSUME L2TypeOK, NEW bc \in Contract, NEW t \in Felt, NEW org \in {0, 1},
         SetOrigin(bc, t, org), NEW c \in Contract, NEW s \in Felt
  PROVE  origin'[c][s] = IF c = bc /\ s = t THEN org ELSE origin[c][s]
BY DEF SetOrigin, L2TypeOK

\* The amounts and token ids that users choose are felts, whatever the contract.
LEMMA InputsAreFelts ==
  ASSUME NEW c \in Contract, NEW v \in Inputs[c]
  PROVE  v \in Felt
BY L2Assumption

\* 0, the users' keys and the admin's are what a storage slot for a key may hold.
LEMMA KeyTyping == Nobody \in Key /\ User \subseteq Key /\ Admin \in Key
BY L2Assumption DEF Key

\* The constructor leaves storage well typed: unwritten slots read as 0.
LEMMA TypeInit == L2Init => L2TypeOK
<1> SUFFICES ASSUME L2Init PROVE L2TypeOK
  OBVIOUS
<1> USE KeyTyping, L2Assumption, FieldAssumption DEF L2Init, StorageInit, CoreInit
<1>1. 0 \in Felt
  BY DEF Felt
<1>2. NoOrder \in LimitOrder
  BY <1>1 DEF NoOrder, LimitOrder, ASK, STATE_NEW
<1>3. description \in [Contract -> ContractDescription]
  BY DEF ContractDescription, Kind, KIND_ERC20
<1>4. IsABag(EmptyBag) /\ DOMAIN EmptyBag = {}
  BY DEF IsABag, EmptyBag, SetToBag
<1> QED
  BY <1>1, <1>2, <1>3, <1>4 DEF L2TypeOK

\* The steps of L1 and the handlers of its messages.
LEMMA TypeL1 == L2TypeOK /\ (L1Step \/ L1Handler) => L2TypeOK'
<1> SUFFICES ASSUME L2TypeOK, L1Step \/ L1Handler PROVE L2TypeOK'
  OBVIOUS
<1> USE KeyTyping
<1>1. ASSUME NEW m \in Message, L1Sends(m) PROVE L2TypeOK'
  <2>1. IsABag(toL2') /\ DOMAIN toL2' \subseteq Message
    BY <1>1, BagTyping DEF L1Sends, SendMessageToL2, L2TypeOK
  <2> QED
    BY <1>1, <2>1 DEF L1Sends, L2TypeOK, storage
<1>2. ASSUME NEW m \in DOMAIN toL1, L1Consumes(m) PROVE L2TypeOK'
  <2>1. IsABag(toL1') /\ DOMAIN toL1' \subseteq WithdrawMessage
    BY <1>2, BagTyping DEF L1Consumes, ConsumeMessageFromL2, L2TypeOK
  <2> QED
    BY <1>2, <2>1 DEF L1Consumes, L2TypeOK, storage
<1>3. ASSUME NEW m \in DOMAIN toL2, HandleMessageFromL1(m)
      PROVE  m \in Message /\ IsABag(toL2') /\ DOMAIN toL2' \subseteq Message
  BY <1>3, BagTyping DEF HandleMessageFromL1, L2TypeOK
<1>4. ASSUME NEW m \in DOMAIN toL2, RegisterContract(m) PROVE L2TypeOK'
  <2>1. m \in RegisterMessage /\ IsABag(toL2') /\ DOMAIN toL2' \subseteq Message
    BY <1>3, <1>4 DEF RegisterContract, Message, DepositMessage
  <2>2. description' \in [Contract -> ContractDescription]
    BY <1>4, <2>1
    DEF RegisterContract, L2TypeOK, RegisterMessage, ContractDescription
  <2> QED
    BY <1>4, <2>1, <2>2 DEF RegisterContract, L2TypeOK
<1>5. ASSUME NEW m \in DOMAIN toL2, m.type = "deposit", Deposit(m)
      PROVE  L2TypeOK'
  <2>1. m \in DepositMessage /\ IsABag(toL2') /\ DOMAIN toL2' \subseteq Message
    BY <1>3, <1>5 DEF Deposit, Message, RegisterMessage
  <2>2. /\ m.user \in Key /\ m.contract \in Contract /\ m.value \in Felt
        /\ balance \in [Key -> [Contract -> Felt]]
        /\ owner \in [Contract -> [Felt -> Key]]
    BY <2>1 DEF DepositMessage, L2TypeOK
  <2>3. CASE Fungible(m.contract)
    <3>1. balance' = Received(balance, m.user, m.contract, m.value)
          /\ owner' = owner
      BY <1>5, <2>3 DEF Deposit
    <3>2. balance' \in [Key -> [Contract -> Felt]]
      BY <2>2, <3>1, CustodyTyping
    <3> QED
      BY <1>5, <2>1, <3>1, <3>2 DEF Deposit, L2TypeOK
  <2>4. CASE ~Fungible(m.contract)
    <3>1. GiveToken(m.contract, m.value, m.user) /\ balance' = balance
      BY <1>5, <2>4 DEF Deposit
    <3>2. owner' \in [Contract -> [Felt -> Key]]
      BY <2>2, <3>1, CustodyTyping
    <3> QED
      BY <1>5, <2>1, <3>1, <3>2 DEF Deposit, L2TypeOK
  <2> QED
    BY <2>3, <2>4
<1>6. CASE L1Step
  <2>1. ASSUME NEW from \in L1Sender, NEW r \in Registration
        PROVE  [type |-> "register_contract", from |-> from,
                contract |-> r.contract, kind |-> r.kind, mint |-> r.mint]
                 \in Message
    BY L2Assumption DEF Message, RegisterMessage
  <2>2. ASSUME NEW from \in L1Sender, NEW c \in Contract,
               NEW v \in Inputs[c], NEW u \in Recipient
        PROVE  [type |-> "deposit", from |-> from, user |-> u,
                value |-> v, contract |-> c] \in Message
    BY InputsAreFelts, L2Assumption DEF Message, DepositMessage
  <2> QED
    BY <1>1, <1>2, <1>6, <2>1, <2>2 DEF L1Step
<1>7. CASE L1Handler
  BY <1>4, <1>5, <1>7 DEF L1Handler
<1> QED
  BY <1>6, <1>7

\* The entry points that users call, one step per entry point.
LEMMA TypeTransaction ==
  ASSUME L2TypeOK, NEW sig \in User,
         Minting(sig) \/ Transaction(sig)
  PROVE  L2TypeOK'
<1> USE KeyTyping
<1>1. ASSUME NEW paus \in PauseInput, SetPause(sig, paus) PROVE L2TypeOK'
  BY <1>1 DEF SetPause, L2TypeOK
<1>2. ASSUME NEW user \in Registrant, NEW a \in Address,
             RegisterClient(sig, user, a)
      PROVE  L2TypeOK'
  <2>1. client' \in [Address -> Key]
    BY <1>2, L2Assumption DEF RegisterClient, L2TypeOK
  <2> QED
    BY <1>2, <2>1 DEF RegisterClient, L2TypeOK
<1>3. ASSUME NEW c \in Contract, NEW v \in Inputs[c], NEW user \in Recipient,
             Mint(sig, user, v, c)
      PROVE  L2TypeOK'
  <2>1. v \in Felt /\ user \in Key
    BY InputsAreFelts, L2Assumption
  <2>2. GiveToken(c, v, user) /\ SetOrigin(c, v, 1)
    BY <1>3 DEF Mint
  <2>3. owner' \in [Contract -> [Felt -> Key]]
    BY <2>1, <2>2 DEF GiveToken, L2TypeOK
  <2>4. origin' \in [Contract -> [Felt -> {0, 1}]]
    BY <2>1, <2>2 DEF SetOrigin, L2TypeOK
  <2> QED
    BY <1>3, <2>3, <2>4 DEF Mint, L2TypeOK
<1>4. ASSUME NEW c \in Contract, NEW v \in Inputs[c], NEW user \in User,
             NEW a \in Address, Withdraw(sig, user, v, c, a)
      PROVE  L2TypeOK'
  <2> DEFINE msg == [address |-> a, value |-> v, contract |-> c,
                     org |-> origin[c][v]]
  <2>1. v \in Felt /\ user \in Key
    BY InputsAreFelts
  <2>2. msg \in WithdrawMessage
    BY <2>1 DEF WithdrawMessage, L2TypeOK
  <2> HIDE DEF msg
  <2>3. IsABag(toL1') /\ DOMAIN toL1' \subseteq WithdrawMessage
    <3>1. toL1' = BagAdd(toL1, msg)
      BY <1>4 DEF Withdraw, SendMessageToL1, msg
    <3> QED
      BY <2>2, <3>1, BagTyping DEF L2TypeOK
  <2>4. CASE Fungible(c)
    <3>1. /\ balance' = Paid(balance, user, c, v)
          /\ owner' = owner /\ origin' = origin
      BY <1>4, <2>4 DEF Withdraw
    <3>2. balance' \in [Key -> [Contract -> Felt]]
      BY <2>1, <3>1, CustodyTyping DEF L2TypeOK
    <3> QED
      BY <1>4, <2>3, <3>1, <3>2 DEF Withdraw, L2TypeOK
  <2>5. CASE ~Fungible(c)
    <3>1. /\ GiveToken(c, v, Nobody) /\ SetOrigin(c, v, 0)
          /\ balance' = balance
      BY <1>4, <2>5 DEF Withdraw
    <3>2. owner' \in [Contract -> [Felt -> Key]]
      BY <2>1, <3>1 DEF GiveToken, L2TypeOK
    <3>3. origin' \in [Contract -> [Felt -> {0, 1}]]
      BY <2>1, <3>1 DEF SetOrigin, L2TypeOK
    <3> QED
      BY <1>4, <2>3, <3>1, <3>2, <3>3 DEF Withdraw, L2TypeOK
  <2> QED
    BY <2>4, <2>5
<1>5. ASSUME NEW c \in Contract, NEW v \in Inputs[c], NEW from \in User,
             NEW to \in Recipient, Transfer(sig, from, to, v, c)
      PROVE  L2TypeOK'
  <2>1. v \in Felt /\ from \in Key /\ to \in Key
    BY InputsAreFelts, L2Assumption
  <2>2. CASE Fungible(c)
    <3> DEFINE debited == Paid(balance, from, c, v)
    <3>1. balance' = Received(debited, to, c, v) /\ owner' = owner
      BY <1>5, <2>2 DEF Transfer
    <3>2. debited \in [Key -> [Contract -> Felt]]
      BY <2>1, CustodyTyping DEF L2TypeOK
    <3>3. balance' \in [Key -> [Contract -> Felt]]
      BY <2>1, <3>1, <3>2, CustodyTyping
    <3> QED
      BY <1>5, <3>1, <3>3 DEF Transfer, L2TypeOK
  <2>3. CASE ~Fungible(c)
    <3>1. GiveToken(c, v, to) /\ balance' = balance
      BY <1>5, <2>3 DEF Transfer
    <3>2. owner' \in [Contract -> [Felt -> Key]]
      BY <2>1, <3>1 DEF GiveToken, L2TypeOK
    <3> QED
      BY <1>5, <3>1, <3>2 DEF Transfer, L2TypeOK
  <2> QED
    BY <2>2, <2>3
<1>6. ASSUME NEW o \in OrderId, NEW user \in User, NEW bid \in {ASK, BID},
             NEW bc \in Contract, NEW qc \in Contract, NEW t \in Inputs[bc],
             NEW q \in Inputs[qc], CreateOrder(sig, o, user, bid, bc, t, qc, q)
      PROVE  L2TypeOK'
  <2>1. t \in Felt /\ q \in Felt /\ user \in Key
    BY InputsAreFelts
  <2>2. order' \in [OrderId -> LimitOrder]
    BY <1>6, <2>1 DEF CreateOrder, L2TypeOK, LimitOrder
  <2>3. CASE bid = ASK
    <3>1. GiveToken(bc, t, Nobody) /\ balance' = balance
      BY <1>6, <2>3 DEF CreateOrder, ASK, BID
    <3>2. owner' \in [Contract -> [Felt -> Key]]
      BY <2>1, <3>1 DEF GiveToken, L2TypeOK
    <3> QED
      BY <1>6, <2>2, <3>1, <3>2 DEF CreateOrder, L2TypeOK
  <2>4. CASE bid = BID
    <3>1. balance' = Paid(balance, user, qc, q) /\ owner' = owner
      BY <1>6, <2>4 DEF CreateOrder, ASK, BID
    <3>2. balance' \in [Key -> [Contract -> Felt]]
      BY <2>1, <3>1, CustodyTyping DEF L2TypeOK
    <3> QED
      BY <1>6, <2>2, <3>1, <3>2 DEF CreateOrder, L2TypeOK
  <2> QED
    BY <2>3, <2>4
<1>7. ASSUME NEW o \in OrderId, NEW state \in {STATE_FULFILLED, STATE_CANCELLED},
             Close(o, state)
      PROVE  order' \in [OrderId -> LimitOrder]
  BY <1>7 DEF Close, L2TypeOK, LimitOrder
<1>8. ASSUME NEW o \in OrderId
      PROVE  /\ order[o].user \in Key
             /\ order[o].base_contract \in Contract
             /\ order[o].base_token_id \in Felt
             /\ order[o].quote_contract \in Contract
             /\ order[o].quote_amount \in Felt
             /\ order[o].bid \in {ASK, BID}
  BY DEF L2TypeOK, LimitOrder
<1>9. ASSUME NEW o \in OrderId, NEW user \in User, FulfillOrder(sig, o, user)
      PROVE  L2TypeOK'
  <2> DEFINE ord == order[o]
             paid == Paid(balance, user, ord.quote_contract, ord.quote_amount)
  <2>1. order' \in [OrderId -> LimitOrder]
    BY <1>7, <1>9 DEF FulfillOrder
  <2>2. \E u \in Key : GiveToken(ord.base_contract, ord.base_token_id, u)
    BY <1>8, <1>9 DEF FulfillOrder
  <2>3. owner' \in [Contract -> [Felt -> Key]]
    BY <1>8, <2>2 DEF GiveToken, L2TypeOK
  <2>4. paid \in [Key -> [Contract -> Felt]]
    BY <1>8, CustodyTyping DEF L2TypeOK
  <2>5. \/ balance' = Received(paid, ord.user, ord.quote_contract,
                               ord.quote_amount)
        \/ balance' = Received(balance, user, ord.quote_contract,
                               ord.quote_amount)
    BY <1>9 DEF FulfillOrder
  <2>6. balance' \in [Key -> [Contract -> Felt]]
    <3>1. Received(paid, ord.user, ord.quote_contract, ord.quote_amount)
            \in [Key -> [Contract -> Felt]]
      <4> HIDE DEF paid
      <4> QED
        BY <1>8, <2>4, CustodyTyping
    <3>2. Received(balance, user, ord.quote_contract, ord.quote_amount)
            \in [Key -> [Contract -> Felt]]
      BY <1>8, CustodyTyping DEF L2TypeOK
    <3> QED
      BY <2>5, <3>1, <3>2
  <2> QED
    BY <1>9, <2>1, <2>3, <2>6 DEF FulfillOrder, L2TypeOK
<1>10. ASSUME NEW o \in OrderId, CancelOrder(sig, o) PROVE L2TypeOK'
  <2> DEFINE ord == order[o]
  <2>1. order' \in [OrderId -> LimitOrder]
    BY <1>7, <1>10 DEF CancelOrder
  <2>2. owner' = owner \/ GiveToken(ord.base_contract, ord.base_token_id, ord.user)
    BY <1>10 DEF CancelOrder
  <2>3. owner' \in [Contract -> [Felt -> Key]]
    <3>1. CASE owner' = owner
      BY <3>1 DEF L2TypeOK
    <3>2. CASE GiveToken(ord.base_contract, ord.base_token_id, ord.user)
      BY <1>8, <3>2 DEF GiveToken, L2TypeOK
    <3> QED
      BY <2>2, <3>1, <3>2
  <2>4. \/ balance' = balance
        \/ balance' = Received(balance, ord.user, ord.quote_contract,
                               ord.quote_amount)
    BY <1>10 DEF CancelOrder
  <2>5. balance' \in [Key -> [Contract -> Felt]]
    BY <1>8, <2>4, CustodyTyping DEF L2TypeOK
  <2> QED
    BY <1>10, <2>1, <2>3, <2>5 DEF CancelOrder, L2TypeOK
<1> QED
  BY <1>1, <1>2, <1>3, <1>4, <1>5, <1>6, <1>9, <1>10 DEF Minting, Transaction

\* Every storage variable keeps its type and every pending message is one that
\* its receiver can read, for any sets of users, contracts, orders and inputs.
THEOREM TypeCorrect == L2Spec => []L2TypeOK
<1>1. L2TypeOK /\ [L2Next]_l2vars => L2TypeOK'
  <2>1. L2TypeOK /\ L2Next => L2TypeOK'
    BY TypeL1, TypeTransaction DEF L2Next
  <2>2. L2TypeOK /\ UNCHANGED l2vars => L2TypeOK'
    BY DEF L2TypeOK, l2vars, storage
  <2> QED
    BY <2>1, <2>2
<1> QED
  BY TypeInit, <1>1, PTL DEF L2Spec

-----------------------------------------------------------------------------
(***************************************************************************)
(* The escrow.                                                             *)
(***************************************************************************)

\* A step that opens no ask keeps the escrow sound, as long as the only tokens
\* whose owner it changes are tokens that no ask offers afterwards.
LEMMA EscrowFrame ==
  ASSUME EscrowBacked,
         \A o \in OrderId, c \in Contract, t \in Felt :
           AskFor(o, c, t)' =>
             AskFor(o, c, t) /\ owner'[c][t] = owner[c][t]
  PROVE  EscrowBacked'
BY DEF EscrowBacked

\* The steps that leave the orders alone: they change the owner of one token
\* at most, and no ask offers that token.
LEMMA EscrowToken ==
  ASSUME L2TypeOK, EscrowBacked, UNCHANGED order,
         NEW bc \in Contract, NEW t \in Felt, NEW u \in Key,
         owner' = owner \/ (GiveToken(bc, t, u) /\ ~InEscrow(bc, t))
  PROVE  EscrowBacked'
<1>1. ASSUME NEW o \in OrderId, NEW c \in Contract, NEW s \in Felt,
             AskFor(o, c, s)'
      PROVE  AskFor(o, c, s) /\ owner'[c][s] = owner[c][s]
  <2>1. AskFor(o, c, s)
    BY <1>1 DEF AskFor, Open
  <2>2. owner'[c][s] = owner[c][s]
    <3>1. CASE owner' = owner
      BY <3>1
    <3>2. CASE GiveToken(bc, t, u) /\ ~InEscrow(bc, t)
      <4>1. ~(c = bc /\ s = t)
        BY <2>1, <3>2 DEF InEscrow
      <4> QED
        BY <3>2, <4>1 DEF GiveToken, L2TypeOK
    <3> QED
      BY <3>1, <3>2
  <2> QED
    BY <2>1, <2>2
<1> QED
  BY <1>1, EscrowFrame

\* A token with an owner is not in escrow.
LEMMA OwnedNotEscrowed ==
  ASSUME EscrowBacked, NEW c \in Contract, NEW t \in Felt, owner[c][t] # Nobody
  PROVE  ~InEscrow(c, t)
BY DEF EscrowBacked, InEscrow

\* A minter keeps the escrow sound, unless it mints a token that is in escrow.
LEMMA EscrowMint ==
  ASSUME L2TypeOK, EscrowBacked, NEW sig \in User, NEW c \in Contract,
         NEW v \in Inputs[c], NEW user \in Recipient,
         Mint(sig, user, v, c), ~InEscrow(c, v)
  PROVE  EscrowBacked'
<1>1. v \in Felt /\ user \in Key
  BY InputsAreFelts, L2Assumption
<1>2. GiveToken(c, v, user) /\ UNCHANGED order
  BY DEF Mint
<1> QED
  BY <1>1, <1>2, EscrowToken

\* So does the deposit handler, unless the token is in escrow.
LEMMA EscrowDeposit ==
  ASSUME L2TypeOK, EscrowBacked, NEW m \in DOMAIN toL2, m.type = "deposit",
         Deposit(m), ~InEscrow(m.contract, m.value)
  PROVE  EscrowBacked'
<1>1. m \in DepositMessage
  BY DEF L2TypeOK, Message, RegisterMessage
<1>2. m.user \in Key /\ m.contract \in Contract /\ m.value \in Felt
  BY <1>1 DEF DepositMessage
<1>3. /\ UNCHANGED order
      /\ owner' = owner \/ GiveToken(m.contract, m.value, m.user)
  BY DEF Deposit
<1> QED
  BY <1>2, <1>3, EscrowToken

\* Entry points that users call keep the escrow sound: each takes a token from
\* its owner, or from its order.
LEMMA EscrowTransaction ==
  ASSUME L2TypeOK, EscrowBacked, NEW sig \in User, Transaction(sig)
  PROVE  EscrowBacked'
<1> USE KeyTyping
<1>1. ASSUME UNCHANGED <<owner, order>> PROVE EscrowBacked'
  BY <1>1 DEF EscrowBacked, AskFor, Open
<1>3. ASSUME NEW c \in Contract, NEW v \in Inputs[c], NEW user \in User,
             NEW a \in Address, Withdraw(sig, user, v, c, a)
      PROVE  EscrowBacked'
  <2>1. v \in Felt /\ user \in Key /\ user # Nobody
    BY InputsAreFelts, L2Assumption
  <2>2. /\ UNCHANGED order
        /\ owner' = owner \/ (owner[c][v] = user /\ GiveToken(c, v, Nobody))
    BY <1>3 DEF Withdraw
  <2> QED
    BY <2>1, <2>2, OwnedNotEscrowed, EscrowToken
<1>4. ASSUME NEW c \in Contract, NEW v \in Inputs[c], NEW from \in User,
             NEW to \in Recipient, Transfer(sig, from, to, v, c)
      PROVE  EscrowBacked'
  <2>1. v \in Felt /\ to \in Key /\ from # Nobody
    BY InputsAreFelts, L2Assumption
  <2>2. /\ UNCHANGED order
        /\ owner' = owner \/ (owner[c][v] = from /\ GiveToken(c, v, to))
    BY <1>4 DEF Transfer
  <2> QED
    BY <2>1, <2>2, OwnedNotEscrowed, EscrowToken
<1>5. ASSUME NEW o \in OrderId, NEW user \in User, NEW bid \in {ASK, BID},
             NEW bc \in Contract, NEW qc \in Contract, NEW t \in Inputs[bc],
             NEW q \in Inputs[qc], CreateOrder(sig, o, user, bid, bc, t, qc, q)
      PROVE  EscrowBacked'
  <2>1. t \in Felt /\ user # Nobody
    BY InputsAreFelts, L2Assumption
  <2>2. \A p \in OrderId \ {o} : order'[p] = order[p]
    BY <1>5 DEF CreateOrder, L2TypeOK
  <2>3. order'[o] = [user |-> user, bid |-> bid, base_contract |-> bc,
                     base_token_id |-> t, quote_contract |-> qc,
                     quote_amount |-> q, state |-> STATE_NEW]
    BY <1>5 DEF CreateOrder, L2TypeOK
  <2>4. CASE bid = ASK
    <3>1. owner[bc][t] = user /\ GiveToken(bc, t, Nobody)
      BY <1>5, <2>4 DEF CreateOrder, ASK, BID
    <3>2. \A p \in OrderId : ~AskFor(p, bc, t)
      BY <2>1, <3>1, OwnedNotEscrowed DEF InEscrow
    <3>3. owner'[bc][t] = Nobody
      BY <2>1, <3>1 DEF GiveToken, L2TypeOK
    <3>4. \A c \in Contract, s \in Felt :
            (c # bc \/ s # t) => owner'[c][s] = owner[c][s]
      BY <2>1, <3>1 DEF GiveToken, L2TypeOK
    <3>5. \A p \in OrderId \ {o}, c \in Contract, s \in Felt :
            AskFor(p, c, s)' <=> AskFor(p, c, s)
      BY <2>2 DEF AskFor, Open
    <3>6. \A c \in Contract, s \in Felt : AskFor(o, c, s)' => c = bc /\ s = t
      BY <2>3 DEF AskFor
    <3> QED
      BY <3>2, <3>3, <3>4, <3>5, <3>6 DEF EscrowBacked
  <2>5. CASE bid = BID
    <3>1. owner' = owner
      BY <1>5, <2>5 DEF CreateOrder, ASK, BID
    <3>2. \A p \in OrderId, c \in Contract, s \in Felt :
            AskFor(p, c, s)' => AskFor(p, c, s)
      BY <2>2, <2>3, <2>5 DEF AskFor, Open, ASK, BID
    <3> QED
      BY <3>1, <3>2, EscrowFrame
  <2> QED
    BY <2>4, <2>5
<1>6. ASSUME NEW o \in OrderId, NEW state \in {STATE_FULFILLED, STATE_CANCELLED},
             Close(o, state)
      PROVE  \A p \in OrderId, c \in Contract, s \in Felt :
               AskFor(p, c, s)' => p # o /\ AskFor(p, c, s)
  <2>1. order'[o].state = state
    BY <1>6 DEF Close, L2TypeOK, LimitOrder
  <2>2. \A p \in OrderId \ {o} : order'[p] = order[p]
    BY <1>6 DEF Close, L2TypeOK
  <2> QED
    BY <2>1, <2>2
    DEF AskFor, Open, STATE_NEW, STATE_FULFILLED, STATE_CANCELLED
<1>7. ASSUME NEW o \in OrderId, NEW state \in {STATE_FULFILLED, STATE_CANCELLED},
             Close(o, state), Open(order[o]),
             \/ owner' = owner
             \/ /\ \E u \in Key : GiveToken(order[o].base_contract,
                                            order[o].base_token_id, u)
                /\ \/ order[o].bid = ASK
                   \/ owner[order[o].base_contract][order[o].base_token_id]
                        # Nobody
      PROVE  EscrowBacked'
  <2> DEFINE bc == order[o].base_contract
             t == order[o].base_token_id
  <2>1. bc \in Contract /\ t \in Felt
    BY DEF L2TypeOK, LimitOrder
  <2>2. CASE owner' = owner
    BY <1>6, <1>7, <2>2, EscrowFrame
  <2>3. CASE owner' # owner
    <3>1. PICK u \in Key : GiveToken(bc, t, u)
      BY <1>7, <2>3
    <3>2. \A p \in OrderId : AskFor(p, bc, t) => p = o
      <4>1. CASE order[o].bid = ASK
        BY <1>7, <2>1, <4>1 DEF EscrowBacked, AskFor
      <4>2. CASE owner[bc][t] # Nobody
        BY <2>1, <4>2, OwnedNotEscrowed DEF InEscrow
      <4> QED
        BY <1>7, <2>3, <4>1, <4>2
    <3>3. \A c \in Contract, s \in Felt :
            (c # bc \/ s # t) => owner'[c][s] = owner[c][s]
      BY <2>1, <3>1 DEF GiveToken, L2TypeOK
    <3> QED
      BY <1>6, <1>7, <3>2, <3>3, EscrowFrame
  <2> QED
    BY <2>2, <2>3
<1>8. ASSUME NEW o \in OrderId, NEW user \in User, FulfillOrder(sig, o, user)
      PROVE  EscrowBacked'
  <2>1. order[o].user \in Key /\ user # Nobody /\ user \in Key
    BY L2Assumption DEF L2TypeOK, LimitOrder
  <2> QED
    BY <1>7, <1>8, <2>1 DEF FulfillOrder
<1>9. ASSUME NEW o \in OrderId, CancelOrder(sig, o) PROVE EscrowBacked'
  <2>1. order[o].user \in Key
    BY DEF L2TypeOK, LimitOrder
  <2> QED
    BY <1>7, <1>9, <2>1 DEF CancelOrder
<1> QED
  BY <1>1, <1>3, <1>4, <1>5, <1>8, <1>9 DEF Transaction, SetPause, RegisterClient

\* So do the steps of L1, which touch no storage, and registrations.
LEMMA EscrowFixed ==
  ASSUME EscrowBacked,
         L1Step \/ \E m \in DOMAIN toL2 : RegisterContract(m)
  PROVE  EscrowBacked'
<1>1. UNCHANGED <<owner, order>>
  BY DEF L1Step, L1Sends, L1Consumes, storage, RegisterContract
<1> QED
  BY <1>1 DEF EscrowBacked, AskFor, Open

\* Escrow is sound for any number of users, collections and orders, provided
\* that nobody introduces a token an open ask already holds: the token of an
\* open ask has no owner and backs no other ask.
THEOREM EscrowSound == FreshOnly /\ L2Spec => []EscrowBacked
<1> SUFFICES ASSUME FreshOnly PROVE L2Spec => []EscrowBacked
  OBVIOUS
<1>1. L2Init => EscrowBacked
  BY DEF L2Init, StorageInit, NoOrder, EscrowBacked, AskFor, Open
<1>2. L2TypeOK /\ EscrowBacked /\ [L2Next]_l2vars => EscrowBacked'
  <2>1. L2TypeOK /\ EscrowBacked /\ L2Next => EscrowBacked'
    BY EscrowMint, EscrowDeposit, EscrowTransaction, EscrowFixed
    DEF L2Next, L1Handler, Minting, MayIntroduce
  <2>2. EscrowBacked /\ UNCHANGED l2vars => EscrowBacked'
    BY DEF EscrowBacked, AskFor, Open, l2vars, storage
  <2> QED
    BY <2>1, <2>2
<1> QED
  BY <1>1, <1>2, TypeCorrect, PTL DEF L2Spec

-----------------------------------------------------------------------------
(***************************************************************************)
(* The life of an order.                                                   *)
(***************************************************************************)

\* What OrderHistory says of one step.
OrdersAdvance ==
  \A o \in OrderId :
    order[o].user # Nobody =>
      \/ order'[o] = order[o]
      \/ /\ order[o].state = STATE_NEW
         /\ \E s \in {STATE_FULFILLED, STATE_CANCELLED} :
              order'[o] = [order[o] EXCEPT !.state = s]

\* Closing an open order, as fulfill_order and cancel_order do, is an advance.
LEMMA CloseAdvances ==
  ASSUME L2TypeOK, NEW o \in OrderId, Open(order[o]),
         NEW s \in {STATE_FULFILLED, STATE_CANCELLED}, Close(o, s)
  PROVE  OrdersAdvance
<1>1. order'[o] = [order[o] EXCEPT !.state = s]
  BY DEF Close, L2TypeOK
<1>2. \A p \in OrderId \ {o} : order'[p] = order[p]
  BY DEF Close, L2TypeOK
<1> QED
  BY <1>1, <1>2 DEF OrdersAdvance, Open

LEMMA OrdersAdvanceStep ==
  ASSUME L2TypeOK, [L2Next]_l2vars
  PROVE  OrdersAdvance
<1>1. ASSUME UNCHANGED order PROVE OrdersAdvance
  BY <1>1 DEF OrdersAdvance
<1>2. CASE UNCHANGED l2vars
  BY <1>1, <1>2 DEF l2vars, storage
<1>3. CASE L1Step
  BY <1>1, <1>3 DEF L1Step, L1Sends, L1Consumes, storage
<1>4. CASE L1Handler
  BY <1>1, <1>4 DEF L1Handler, RegisterContract, Deposit
<1>5. ASSUME NEW sig \in User, Minting(sig) \/ Transaction(sig)
      PROVE  OrdersAdvance
  <2>1. ASSUME NEW o \in OrderId, NEW user \in User, NEW bid \in {ASK, BID},
               NEW bc \in Contract, NEW qc \in Contract, NEW t \in Inputs[bc],
               NEW q \in Inputs[qc],
               CreateOrder(sig, o, user, bid, bc, t, qc, q)
        PROVE  OrdersAdvance
    <3>1. \A p \in OrderId \ {o} : order'[p] = order[p]
      BY <2>1 DEF CreateOrder, L2TypeOK
    <3> QED
      BY <2>1, <3>1 DEF CreateOrder, OrdersAdvance
  <2>2. ASSUME NEW o \in OrderId, NEW user \in User,
               FulfillOrder(sig, o, user)
        PROVE  OrdersAdvance
    BY <2>2, CloseAdvances DEF FulfillOrder
  <2>3. ASSUME NEW o \in OrderId, CancelOrder(sig, o) PROVE OrdersAdvance
    BY <2>3, CloseAdvances DEF CancelOrder
  <2>4. ASSUME NEW x, NEW y, NEW v, NEW c, NEW a,
               \/ SetPause(sig, x) \/ RegisterClient(sig, x, a)
               \/ Mint(sig, x, v, c) \/ Withdraw(sig, x, v, c, a)
               \/ Transfer(sig, x, y, v, c)
        PROVE  OrdersAdvance
    BY <1>1, <2>4
    DEF SetPause, RegisterClient, Mint, Withdraw, Transfer
  <2> QED
    BY <1>5, <2>1, <2>2, <2>3, <2>4 DEF Minting, Transaction
<1> QED
  BY <1>2, <1>3, <1>4, <1>5 DEF L2Next

\* Orders are never rewritten: for any number of users and orders, an order
\* that exists keeps its terms, and once closed it keeps its state.
THEOREM OrdersFinal == L2Spec => OrderHistory
<1>1. L2TypeOK /\ [L2Next]_l2vars => [OrdersAdvance]_l2vars
  BY OrdersAdvanceStep
<1> QED
  BY <1>1, TypeCorrect, PTL DEF L2Spec, OrderHistory, OrdersAdvance

-----------------------------------------------------------------------------
(***************************************************************************)
(* The origin flag.                                                        *)
(***************************************************************************)

\* The steps that close an order return its token to somebody.
LEMMA OriginClose ==
  ASSUME L2TypeOK, OriginLive, UNCHANGED origin, NEW o \in OrderId,
         NEW s \in {STATE_FULFILLED, STATE_CANCELLED}, Close(o, s),
         \/ owner' = owner /\ order[o].bid = BID
         \/ \E u \in Key \ {Nobody} : GiveToken(order[o].base_contract,
                                               order[o].base_token_id, u)
  PROVE  OriginLive'
<1> DEFINE bc == order[o].base_contract
           t == order[o].base_token_id
<1>1. bc \in Contract /\ t \in Felt
  BY DEF L2TypeOK, LimitOrder
<1>2. \A p \in OrderId \ {o} : order'[p] = order[p]
  BY DEF Close, L2TypeOK
<1>3. \A c \in Contract, x \in Felt :
        owner[c][x] # Nobody => owner'[c][x] # Nobody
  BY <1>1, OwnerWrite, KeyTyping
<1>4. ASSUME NEW c \in Contract, NEW x \in Felt, InEscrow(c, x)
      PROVE  owner'[c][x] # Nobody \/ InEscrow(c, x)'
  <2>1. PICK p \in OrderId : AskFor(p, c, x)
    BY <1>4 DEF InEscrow
  <2>2. CASE p # o
    BY <1>2, <2>1, <2>2 DEF InEscrow, AskFor, Open
  <2>3. CASE p = o
    <3>1. c = bc /\ x = t /\ order[o].bid = ASK
      BY <2>1, <2>3 DEF AskFor
    <3>2. PICK u \in Key \ {Nobody} : GiveToken(bc, t, u)
      BY <3>1 DEF ASK, BID
    <3> QED
      BY <1>1, <3>1, <3>2 DEF GiveToken, L2TypeOK
  <2> QED
    BY <2>2, <2>3
<1> QED
  BY <1>3, <1>4 DEF OriginLive

\* A token that carries the flag "minted on L2" is on L2, whatever path it took
\* since, when nobody gives tokens to the key 0: a withdrawal that asks L1 to
\* mint leaves nothing behind that could ask for it again.
THEOREM OriginSound == Nobody \notin Recipient /\ L2Spec => []OriginLive
<1> SUFFICES ASSUME Nobody \notin Recipient PROVE L2Spec => []OriginLive
  OBVIOUS
<1> USE KeyTyping
<1>1. L2Init => OriginLive
  BY DEF L2Init, StorageInit, OriginLive
<1>2. ASSUME OriginLive, UNCHANGED <<owner, origin, order>> PROVE OriginLive'
  BY <1>2 DEF OriginLive, InEscrow, AskFor, Open
<1>3. ASSUME OriginLive, L2TypeOK, L1Step \/ L1Handler PROVE OriginLive'
  <2>1. L1Step => UNCHANGED <<owner, origin, order>>
    BY DEF L1Step, L1Sends, L1Consumes, storage
  <2>2. ASSUME NEW m \in DOMAIN toL2, RegisterContract(m)
        PROVE  UNCHANGED <<owner, origin, order>>
    BY <2>2 DEF RegisterContract
  <2>3. ASSUME NEW m \in DOMAIN toL2, m.type = "deposit", Deposit(m)
        PROVE  OriginLive'
    <3>1. m \in DepositMessage
      BY <1>3, <2>3 DEF L2TypeOK, Message, RegisterMessage
    <3>2. m.user \in Key /\ m.contract \in Contract /\ m.value \in Felt
      BY <3>1 DEF DepositMessage
    <3>3. UNCHANGED <<origin, order>>
      BY <2>3 DEF Deposit
    <3>4. \A c \in Contract, t \in Felt :
            owner[c][t] # Nobody => owner'[c][t] = owner[c][t]
      BY <1>3, <2>3, <3>2, OwnerWrite DEF Deposit
    <3> QED
      BY <1>3, <3>3, <3>4 DEF OriginLive, InEscrow, AskFor, Open
  <2> QED
    BY <1>2, <1>3, <2>1, <2>2, <2>3 DEF L1Handler
<1>4. ASSUME OriginLive, L2TypeOK, NEW sig \in User,
         Minting(sig) \/ Transaction(sig)
      PROVE  OriginLive'
  <2>1. ASSUME NEW c \in Contract, NEW v \in Inputs[c], NEW user \in Recipient,
               Mint(sig, user, v, c) \/ \E from \in User :
                                          Transfer(sig, from, user, v, c)
        PROVE  OriginLive'
    <3>1. v \in Felt /\ user \in Key \ {Nobody}
      BY InputsAreFelts, L2Assumption
    <3>2. UNCHANGED order
      BY <2>1 DEF Mint, Transfer
    <3>3. owner' = owner \/ GiveToken(c, v, user)
      BY <2>1 DEF Mint, Transfer
    <3>4. origin' = origin \/ (SetOrigin(c, v, 1) /\ GiveToken(c, v, user))
      BY <2>1 DEF Mint, Transfer
    <3>5. \A d \in Contract, t \in Felt :
            origin'[d][t] = 1 => origin[d][t] = 1 \/ owner'[d][t] # Nobody
      BY <1>4, <3>1, <3>4, OwnerWrite, OriginWrite
    <3>6. \A d \in Contract, t \in Felt :
            owner[d][t] # Nobody => owner'[d][t] # Nobody
      BY <1>4, <3>1, <3>3, OwnerWrite
    <3> QED
      BY <1>4, <3>2, <3>5, <3>6 DEF OriginLive, InEscrow, AskFor, Open
  <2>2. ASSUME NEW c \in Contract, NEW v \in Inputs[c], NEW user \in User,
               NEW a \in Address, Withdraw(sig, user, v, c, a)
        PROVE  OriginLive'
    <3>1. v \in Felt
      BY InputsAreFelts
    <3>2. UNCHANGED order
      BY <2>2 DEF Withdraw
    <3>3. \/ UNCHANGED <<owner, origin>>
          \/ GiveToken(c, v, Nobody) /\ SetOrigin(c, v, 0)
      BY <2>2 DEF Withdraw
    <3>4. \A d \in Contract, t \in Felt :
            origin'[d][t] = 1 =>
              origin[d][t] = 1 /\ owner'[d][t] = owner[d][t]
      BY <1>4, <3>1, <3>3, OwnerWrite, OriginWrite
    <3> QED
      BY <1>4, <3>2, <3>4 DEF OriginLive, InEscrow, AskFor, Open
  <2>3. ASSUME NEW o \in OrderId, NEW user \in User, NEW bid \in {ASK, BID},
               NEW bc \in Contract, NEW qc \in Contract, NEW t \in Inputs[bc],
               NEW q \in Inputs[qc],
               CreateOrder(sig, o, user, bid, bc, t, qc, q)
        PROVE  OriginLive'
    <3>1. t \in Felt /\ user # Nobody
      BY InputsAreFelts, L2Assumption
    <3>2. \A p \in OrderId \ {o} : order'[p] = order[p]
      BY <1>4, <2>3 DEF CreateOrder, L2TypeOK
    <3>3. order'[o] = [user |-> user, bid |-> bid, base_contract |-> bc,
                       base_token_id |-> t, quote_contract |-> qc,
                       quote_amount |-> q, state |-> STATE_NEW]
      BY <1>4, <2>3 DEF CreateOrder, L2TypeOK
    <3>4. \A c \in Contract, x \in Felt : InEscrow(c, x) => InEscrow(c, x)'
      <4>1. order[o].user = Nobody
        BY <2>3 DEF CreateOrder
      <4> QED
        BY <3>2, <4>1 DEF InEscrow, AskFor, Open
    <3>5. bid = ASK => InEscrow(bc, t)'
      BY <3>1, <3>3 DEF InEscrow, AskFor, Open
    <3>6. UNCHANGED origin /\ (owner' = owner \/ (bid = ASK /\ GiveToken(bc, t, Nobody)))
      BY <2>3 DEF CreateOrder
    <3>7. \A c \in Contract, x \in Felt :
            owner[c][x] # Nobody => owner'[c][x] # Nobody \/ InEscrow(c, x)'
      BY <1>4, <3>1, <3>5, <3>6, OwnerWrite
    <3> QED
      BY <1>4, <3>4, <3>6, <3>7 DEF OriginLive
  <2>4. ASSUME NEW o \in OrderId, NEW user \in User, FulfillOrder(sig, o, user)
        PROVE  OriginLive'
    <3>1. user \in Key \ {Nobody} /\ order[o].user \in Key \ {Nobody}
      BY <1>4, <2>4, L2Assumption DEF FulfillOrder, Open, L2TypeOK, LimitOrder
    <3> QED
      BY <1>4, <2>4, <3>1, OriginClose DEF FulfillOrder
  <2>5. ASSUME NEW o \in OrderId, CancelOrder(sig, o) PROVE OriginLive'
    <3>1. order[o].user \in Key \ {Nobody}
      BY <1>4, <2>5 DEF CancelOrder, Open, L2TypeOK, LimitOrder
    <3> QED
      BY <1>4, <2>5, <3>1, OriginClose DEF CancelOrder
  <2> QED
    BY <1>2, <1>4, <2>1, <2>2, <2>3, <2>4, <2>5
    DEF Minting, Transaction, SetPause, RegisterClient
<1>5. L2TypeOK /\ OriginLive /\ [L2Next]_l2vars => OriginLive'
  BY <1>2, <1>3, <1>4 DEF L2Next, l2vars, storage
<1> QED
  BY <1>1, <1>5, TypeCorrect, PTL DEF L2Spec

-----------------------------------------------------------------------------
(***************************************************************************)
(* Kinds and origins.                                                      *)
(***************************************************************************)

\* What a step may change of descriptions, origin flags and messages to L1: a
\* description only if there was none; a flag is raised only by mint, under an
\* ERC721 kind; a message appears only in withdraw, with the flag as it stood.
KindsAndOrigins ==
  /\ \A c \in Contract : description[c].kind # 0 => description'[c] = description[c]
  /\ \A c \in Contract, t \in Felt :
       origin'[c][t] = 1 => origin[c][t] = 1 \/ description[c].kind = KIND_ERC721
  /\ \A m \in DOMAIN toL1' :
       m \in DOMAIN toL1 \/ m.org = origin[m.contract][m.value]

\* Every step preserves that flags are set in collections only.
LEMMA KindsAndOriginsStep ==
  ASSUME L2TypeOK, [L2Next]_l2vars
  PROVE  KindsAndOrigins
<1>1. ASSUME UNCHANGED <<description, origin, toL1>> PROVE KindsAndOrigins
  BY <1>1 DEF KindsAndOrigins
<1>2. CASE UNCHANGED l2vars
  BY <1>1, <1>2 DEF l2vars, storage
<1>3. CASE L1Step
  <2>1. ASSUME NEW m, L1Sends(m) PROVE KindsAndOrigins
    BY <1>1, <2>1 DEF L1Sends, storage
  <2>2. ASSUME NEW m, L1Consumes(m) PROVE KindsAndOrigins
    <3>1. DOMAIN toL1' \subseteq DOMAIN toL1
      BY <2>2, BagDomains DEF L1Consumes, ConsumeMessageFromL2, L2TypeOK
    <3> QED
      BY <2>2, <3>1 DEF L1Consumes, storage, KindsAndOrigins
  <2> QED
    BY <1>3, <2>1, <2>2 DEF L1Step
<1>4. CASE L1Handler
  <2>1. ASSUME NEW m \in DOMAIN toL2, RegisterContract(m) PROVE KindsAndOrigins
    <3>1. \A c \in Contract :
            description[c].kind # 0 => description'[c] = description[c]
      BY <2>1 DEF RegisterContract, Unregistered, L2TypeOK
    <3> QED
      BY <2>1, <3>1 DEF RegisterContract, KindsAndOrigins
  <2>2. ASSUME NEW m \in DOMAIN toL2, Deposit(m) PROVE KindsAndOrigins
    BY <1>1, <2>2 DEF Deposit
  <2> QED
    BY <1>4, <2>1, <2>2 DEF L1Handler
<1>5. ASSUME NEW sig \in User, Minting(sig) \/ Transaction(sig)
      PROVE  KindsAndOrigins
  <2>1. ASSUME NEW c \in Contract, NEW v \in Inputs[c], NEW user \in Recipient,
               Mint(sig, user, v, c)
        PROVE  KindsAndOrigins
    <3>1. v \in Felt
      BY InputsAreFelts
    <3>2. SetOrigin(c, v, 1) /\ description[c].kind = KIND_ERC721
      BY <2>1 DEF Mint
    <3>3. \A d \in Contract, t \in Felt :
            origin'[d][t] = 1 => origin[d][t] = 1 \/ d = c
      BY <3>1, <3>2, OriginWrite
    <3> QED
      BY <2>1, <3>2, <3>3 DEF Mint, KindsAndOrigins
  <2>2. ASSUME NEW c \in Contract, NEW v \in Inputs[c], NEW user \in User,
               NEW a \in Address, Withdraw(sig, user, v, c, a)
        PROVE  KindsAndOrigins
    <3> DEFINE msg == [address |-> a, value |-> v, contract |-> c,
                       org |-> origin[c][v]]
    <3>1. v \in Felt
      BY InputsAreFelts
    <3>2. origin' = origin \/ SetOrigin(c, v, 0)
      BY <2>2 DEF Withdraw
    <3>3. \A d \in Contract, t \in Felt : origin'[d][t] = 1 => origin[d][t] = 1
      BY <3>1, <3>2, OriginWrite
    <3>4. msg.org = origin[msg.contract][msg.value]
      OBVIOUS
    <3> HIDE DEF msg
    <3>5. toL1' = BagAdd(toL1, msg)
      BY <2>2 DEF Withdraw, SendMessageToL1, msg
    <3>6. DOMAIN toL1' = DOMAIN toL1 \cup {msg}
      BY <3>5, BagDomains DEF L2TypeOK
    <3> QED
      BY <2>2, <3>3, <3>4, <3>6 DEF Withdraw, KindsAndOrigins
  <2>3. ASSUME NEW x, NEW y, NEW v, NEW c, NEW a, NEW bc, NEW t, NEW qc,
               \/ SetPause(sig, x) \/ RegisterClient(sig, x, a)
               \/ Transfer(sig, x, y, v, c) \/ FulfillOrder(sig, x, y)
               \/ CreateOrder(sig, x, y, v, bc, t, qc, c) \/ CancelOrder(sig, x)
        PROVE  KindsAndOrigins
    BY <1>1, <2>3
    DEF SetPause, RegisterClient, Transfer, CreateOrder, FulfillOrder,
        CancelOrder
  <2> QED
    BY <1>5, <2>1, <2>2, <2>3 DEF Minting, Transaction
<1> QED
  BY <1>2, <1>3, <1>4, <1>5 DEF L2Next

\* No withdrawal of an ERC20 amount asks L1 to mint, although withdraw reads the
\* origin flag before it looks at the kind: for any inputs, paused or not, the
\* flags and the messages that carry them belong to ERC721 collections.
THEOREM OriginsOfCollections == L2Spec => []OriginOfCollections
<1>1. L2Init => OriginOfCollections
  BY DEF L2Init, StorageInit, CoreInit, OriginOfCollections, EmptyBag, SetToBag
<1>2. /\ L2TypeOK /\ L2TypeOK' /\ OriginOfCollections /\ [L2Next]_l2vars
      => OriginOfCollections'
  <2> SUFFICES ASSUME L2TypeOK, L2TypeOK', OriginOfCollections,
                      KindsAndOrigins
               PROVE  OriginOfCollections'
    BY KindsAndOriginsStep
  <2>1. \A c \in Contract : description[c].kind = KIND_ERC721
                              => description'[c].kind = KIND_ERC721
    BY DEF KindsAndOrigins, KIND_ERC721
  <2>2. \A c \in Contract, t \in Felt :
          origin'[c][t] = 1 => description'[c].kind = KIND_ERC721
    BY <2>1 DEF KindsAndOrigins, OriginOfCollections
  <2>3. \A m \in DOMAIN toL1' : m.contract \in Contract /\ m.value \in Felt
    BY DEF L2TypeOK, WithdrawMessage
  <2>4. ASSUME NEW m \in DOMAIN toL1', m.org = 1
        PROVE  description'[m.contract].kind = KIND_ERC721
    <3>1. m.contract \in Contract /\ m.value \in Felt
      BY <2>3, <2>4
    <3>2. \/ m \in DOMAIN toL1
          \/ origin[m.contract][m.value] = 1
      BY <2>4 DEF KindsAndOrigins
    <3> QED
      BY <2>1, <2>4, <3>1, <3>2 DEF OriginOfCollections
  <2> QED
    BY <2>2, <2>4 DEF OriginOfCollections
<1> QED
  BY <1>1, <1>2, TypeCorrect, PTL DEF L2Spec

-----------------------------------------------------------------------------
(***************************************************************************)
(* Kinds and holdings.                                                     *)
(***************************************************************************)

\* What a step may do to what is held: tokens move in collections, money in
\* ERC20 contracts, an order gets a collection and a currency, and a message is
\* about a contract that is one or the other.
OfKind ==
  /\ \A c \in Contract, t \in Felt :
       owner'[c][t] # owner[c][t] => description[c].kind = KIND_ERC721
  /\ \A u \in Key, c \in Contract : balance'[u][c] # balance[u][c] => Fungible(c)
  /\ \A o \in OrderId : order'[o].user # Nobody =>
       \/ /\ order[o].user # Nobody
          /\ order'[o].base_contract = order[o].base_contract
          /\ order'[o].quote_contract = order[o].quote_contract
       \/ /\ description[order'[o].base_contract].kind = KIND_ERC721
          /\ Fungible(order'[o].quote_contract)
  /\ \A m \in DOMAIN toL1' :
       m \in DOMAIN toL1 \/ description[m.contract].kind \in Kind

\* A write of an owner, and one of a balance, leaves the other contracts alone.
LEMMA TokenElsewhere ==
  ASSUME L2TypeOK, NEW c \in Contract, NEW t \in Felt, NEW u \in Key,
         GiveToken(c, t, u)
  PROVE  \A d \in Contract, s \in Felt : owner'[d][s] # owner[d][s] => d = c
BY DEF GiveToken, L2TypeOK

LEMMA MoneyElsewhere ==
  ASSUME L2TypeOK, NEW c \in Contract, NEW v \in Felt, NEW u \in Key, NEW w \in Key,
         \/ balance' = Paid(balance, u, c, v)
         \/ balance' = Received(balance, u, c, v)
         \/ balance' = Received(Paid(balance, w, c, v), u, c, v)
  PROVE  \A x \in Key, d \in Contract : balance'[x][d] # balance[x][d] => d = c
<1>1. balance \in [Key -> [Contract -> Felt]]
  BY DEF L2TypeOK
<1>2. ASSUME NEW b \in [Key -> [Contract -> Felt]], NEW y \in Key
      PROVE  /\ Paid(b, y, c, v) \in [Key -> [Contract -> Felt]]
             /\ Received(b, y, c, v) \in [Key -> [Contract -> Felt]]
             /\ \A x \in Key, d \in Contract :
                  d # c => /\ Paid(b, y, c, v)[x][d] = b[x][d]
                           /\ Received(b, y, c, v)[x][d] = b[x][d]
  <2>1. FeltSub(b[y][c], v) \in Felt /\ FeltAdd(b[y][c], v) \in Felt
    BY FeltClosed
  <2> QED
    BY <2>1 DEF Paid, Received
<1>3. CASE balance' = Paid(balance, u, c, v)
  BY <1>1, <1>2, <1>3
<1>4. CASE balance' = Received(balance, u, c, v)
  BY <1>1, <1>2, <1>4
<1>5. CASE balance' = Received(Paid(balance, w, c, v), u, c, v)
  <2>1. Paid(balance, w, c, v) \in [Key -> [Contract -> Felt]]
    BY <1>1, <1>2
  <2> DEFINE b == Paid(balance, w, c, v)
  <2>2. \A x \in Key, d \in Contract : d # c => b[x][d] = balance[x][d]
    BY <1>1, <1>2
  <2>3. b \in [Key -> [Contract -> Felt]]
    BY <2>1
  <2> HIDE DEF b
  <2>4. \A x \in Key, d \in Contract :
          d # c => Received(b, u, c, v)[x][d] = b[x][d]
    BY <1>2, <2>3
  <2>5. balance' = Received(b, u, c, v)
    BY <1>5 DEF b
  <2> QED
    BY <2>2, <2>4, <2>5
<1> QED
  BY <1>3, <1>4, <1>5

\* What a step does to one contract that it has checked is of its kind.
LEMMA OneOfKind ==
  ASSUME L2TypeOK, NEW c \in Contract, UNCHANGED order,
         \A m \in DOMAIN toL1' : m \in DOMAIN toL1 \/ m.contract = c,
         description[c].kind \in Kind,
         \/ /\ Fungible(c) /\ UNCHANGED owner
            /\ \A x \in Key, d \in Contract :
                 balance'[x][d] # balance[x][d] => d = c
         \/ /\ ~Fungible(c) /\ UNCHANGED balance
            /\ \A d \in Contract, s \in Felt : owner'[d][s] # owner[d][s] => d = c
  PROVE  OfKind
<1>1. ~Fungible(c) => description[c].kind = KIND_ERC721
  BY DEF Fungible, Kind
<1>2. \A m \in DOMAIN toL1' :
        m \in DOMAIN toL1 \/ description[m.contract].kind \in Kind
  OBVIOUS
<1>3. \A o \in OrderId : order'[o].user # Nobody =>
        /\ order[o].user # Nobody
        /\ order'[o].base_contract = order[o].base_contract
        /\ order'[o].quote_contract = order[o].quote_contract
  OBVIOUS
<1>4. \A d \in Contract, s \in Felt :
        owner'[d][s] # owner[d][s] => description[d].kind = KIND_ERC721
  BY <1>1
<1>5. \A x \in Key, d \in Contract : balance'[x][d] # balance[x][d] => Fungible(d)
  OBVIOUS
<1> QED
  BY <1>2, <1>3, <1>4, <1>5 DEF OfKind

\* Each entry point checks the kind of what it moves, or moves what an order has
\* of the kind that create_order checked.
LEMMA OfKindStep ==
  ASSUME L2TypeOK, HoldingsOfKind, [L2Next]_l2vars
  PROVE  OfKind
<1>1. ASSUME UNCHANGED <<balance, owner, order>>, DOMAIN toL1' \subseteq DOMAIN toL1
      PROVE  OfKind
  BY <1>1 DEF OfKind
<1>2. CASE UNCHANGED l2vars
  BY <1>1, <1>2 DEF l2vars, storage
<1>3. CASE L1Step
  <2>1. ASSUME NEW m, L1Sends(m) PROVE OfKind
    BY <1>1, <2>1 DEF L1Sends, storage
  <2>2. ASSUME NEW m, L1Consumes(m) PROVE OfKind
    BY <1>1, <2>2, BagDomains
    DEF L1Consumes, ConsumeMessageFromL2, L2TypeOK, storage
  <2> QED
    BY <1>3, <2>1, <2>2 DEF L1Step
<1>4. CASE L1Handler
  <2>1. ASSUME NEW m, RegisterContract(m) PROVE OfKind
    BY <1>1, <2>1 DEF RegisterContract
  <2>2. ASSUME NEW m \in DOMAIN toL2, m.type = "deposit", Deposit(m) PROVE OfKind
    <3>1. m \in DepositMessage
      BY <2>2 DEF L2TypeOK, Message, RegisterMessage
    <3>2. m.user \in Key /\ m.contract \in Contract /\ m.value \in Felt
      BY <3>1 DEF DepositMessage
    <3>3. /\ description[m.contract].kind \in Kind /\ UNCHANGED <<order, toL1>>
          /\ \/ /\ Fungible(m.contract) /\ UNCHANGED owner
                /\ balance' = Received(balance, m.user, m.contract, m.value)
             \/ /\ ~Fungible(m.contract) /\ UNCHANGED balance
                /\ GiveToken(m.contract, m.value, m.user)
      BY <2>2 DEF Deposit
    <3> DEFINE c == m.contract
    <3>4. c \in Contract /\ description[c].kind \in Kind
      BY <3>2, <3>3
    <3> HIDE DEF c
    <3>5. CASE Fungible(m.contract)
      <4>1. balance' = Received(balance, m.user, c, m.value)
        BY <3>3, <3>5 DEF c
      <4>2. \A x \in Key, d \in Contract : balance'[x][d] # balance[x][d] => d = c
        BY <3>2, <3>4, <4>1, MoneyElsewhere
      <4> QED
        BY <3>3, <3>4, <3>5, <4>2, OneOfKind DEF c
    <3>6. CASE ~Fungible(m.contract)
      <4>1. GiveToken(c, m.value, m.user)
        BY <3>3, <3>6 DEF c
      <4>2. \A d \in Contract, s \in Felt : owner'[d][s] # owner[d][s] => d = c
        BY <3>2, <3>4, <4>1, TokenElsewhere
      <4> QED
        BY <3>3, <3>4, <3>6, <4>2, OneOfKind DEF c
    <3> QED
      BY <3>5, <3>6
  <2> QED
    BY <1>4, <2>1, <2>2 DEF L1Handler
<1>5. ASSUME NEW sig \in User, Minting(sig) \/ Transaction(sig)
      PROVE  OfKind
  <2>1. balance \in [Key -> [Contract -> Felt]] /\ Nobody \in Key
    BY KeyTyping DEF L2TypeOK
  <2>2. ASSUME NEW x, NEW a, SetPause(sig, x) \/ RegisterClient(sig, x, a)
        PROVE  OfKind
    BY <1>1, <2>2 DEF SetPause, RegisterClient
  <2>3. ASSUME NEW c \in Contract, NEW v \in Inputs[c], NEW user \in Recipient,
               Mint(sig, user, v, c)
        PROVE  OfKind
    <3>1. v \in Felt /\ user \in Key
      BY InputsAreFelts, L2Assumption
    <3>2. /\ GiveToken(c, v, user) /\ description[c].kind = KIND_ERC721
          /\ UNCHANGED <<balance, order, toL1>>
      BY <2>3 DEF Mint
    <3>3. ~Fungible(c) /\ description[c].kind \in Kind
      BY <3>2 DEF Fungible, Kind, KIND_ERC20, KIND_ERC721
    <3>4. \A d \in Contract, s \in Felt : owner'[d][s] # owner[d][s] => d = c
      BY <3>1, <3>2, TokenElsewhere
    <3> QED
      BY <3>2, <3>3, <3>4, OneOfKind
  <2>4. ASSUME NEW c \in Contract, NEW v \in Inputs[c], NEW user \in User,
               NEW a \in Address, Withdraw(sig, user, v, c, a)
        PROVE  OfKind
    <3> DEFINE msg == [address |-> a, value |-> v, contract |-> c,
                       org |-> origin[c][v]]
    <3>1. v \in Felt /\ user \in Key /\ msg.contract = c
      BY InputsAreFelts, KeyTyping
    <3> HIDE DEF msg
    <3>2. /\ description[c].kind \in Kind /\ UNCHANGED order
          /\ toL1' = BagAdd(toL1, msg)
          /\ \/ /\ Fungible(c) /\ UNCHANGED owner
                /\ balance' = Paid(balance, user, c, v)
             \/ /\ ~Fungible(c) /\ UNCHANGED balance
                /\ GiveToken(c, v, Nobody)
      BY <2>4 DEF Withdraw, SendMessageToL1, msg
    <3>3. DOMAIN toL1' = DOMAIN toL1 \cup {msg}
      BY <3>2, BagDomains DEF L2TypeOK
    <3>4. ASSUME balance' = Paid(balance, user, c, v)
          PROVE  \A x \in Key, d \in Contract :
                   balance'[x][d] # balance[x][d] => d = c
      BY <3>1, <3>4, MoneyElsewhere
    <3>5. ASSUME GiveToken(c, v, Nobody)
          PROVE  \A d \in Contract, s \in Felt :
                   owner'[d][s] # owner[d][s] => d = c
      BY <2>1, <3>1, <3>5, TokenElsewhere
    <3>6. \A m \in DOMAIN toL1' : m \in DOMAIN toL1 \/ m.contract = c
      BY <3>1, <3>3
    <3> QED
      BY <3>2, <3>4, <3>5, <3>6, OneOfKind
  <2>5. ASSUME NEW c \in Contract, NEW v \in Inputs[c], NEW from \in User,
               NEW to \in Recipient, Transfer(sig, from, to, v, c)
        PROVE  OfKind
    <3>1. v \in Felt /\ from \in Key /\ to \in Key
      BY InputsAreFelts, KeyTyping, L2Assumption
    <3>2. /\ description[c].kind \in Kind /\ UNCHANGED <<order, toL1>>
          /\ \/ /\ Fungible(c) /\ UNCHANGED owner
                /\ balance' = Received(Paid(balance, from, c, v), to, c, v)
             \/ /\ ~Fungible(c) /\ UNCHANGED balance
                /\ GiveToken(c, v, to)
      BY <2>5 DEF Transfer
    <3>3. ASSUME balance' = Received(Paid(balance, from, c, v), to, c, v)
          PROVE  \A x \in Key, d \in Contract :
                   balance'[x][d] # balance[x][d] => d = c
      BY <3>1, <3>3, MoneyElsewhere
    <3>4. ASSUME GiveToken(c, v, to)
          PROVE  \A d \in Contract, s \in Felt :
                   owner'[d][s] # owner[d][s] => d = c
      BY <3>1, <3>4, TokenElsewhere
    <3> QED
      BY <3>2, <3>3, <3>4, OneOfKind
  <2>6. ASSUME NEW o \in OrderId, NEW user \in User, NEW bid \in {ASK, BID},
               NEW bc \in Contract, NEW qc \in Contract, NEW t \in Inputs[bc],
               NEW q \in Inputs[qc], CreateOrder(sig, o, user, bid, bc, t, qc, q)
        PROVE  OfKind
    <3>1. t \in Felt /\ q \in Felt /\ user \in Key
      BY InputsAreFelts, KeyTyping
    <3>2. /\ description[bc].kind = KIND_ERC721 /\ Fungible(qc)
          /\ UNCHANGED toL1
          /\ \/ GiveToken(bc, t, Nobody) /\ UNCHANGED balance
             \/ balance' = Paid(balance, user, qc, q) /\ UNCHANGED owner
      BY <2>6 DEF CreateOrder, Fungible
    <3>3. \A p \in OrderId :
            \/ order'[p] = order[p]
            \/ order'[p].base_contract = bc /\ order'[p].quote_contract = qc
      BY <2>6 DEF CreateOrder, L2TypeOK
    <3>4. /\ \A c \in Contract, s \in Felt :
               owner'[c][s] # owner[c][s] => c = bc
          /\ \A u \in Key, c \in Contract : balance'[u][c] # balance[u][c] => c = qc
      <4>1. ASSUME GiveToken(bc, t, Nobody)
            PROVE  \A c \in Contract, s \in Felt :
                     owner'[c][s] # owner[c][s] => c = bc
        BY <2>1, <3>1, <4>1, TokenElsewhere
      <4>2. ASSUME balance' = Paid(balance, user, qc, q)
            PROVE  \A u \in Key, c \in Contract :
                     balance'[u][c] # balance[u][c] => c = qc
        BY <3>1, <4>2, MoneyElsewhere
      <4> QED
        BY <3>2, <4>1, <4>2
    <3> QED
      BY <3>2, <3>3, <3>4 DEF OfKind
  <2>7. ASSUME NEW o \in OrderId, NEW s, Close(o, s), UNCHANGED toL1,
               order[o].user # Nobody,
               \A c \in Contract, t \in Felt :
                 owner'[c][t] # owner[c][t] => c = order[o].base_contract,
               \A u \in Key, c \in Contract :
                 balance'[u][c] # balance[u][c] => c = order[o].quote_contract
        PROVE  OfKind
    <3>1. \A p \in OrderId :
            /\ order'[p].user = order[p].user
            /\ order'[p].base_contract = order[p].base_contract
            /\ order'[p].quote_contract = order[p].quote_contract
      BY <2>7 DEF Close, L2TypeOK, LimitOrder
    <3>2. /\ description[order[o].base_contract].kind = KIND_ERC721
          /\ Fungible(order[o].quote_contract)
      BY <2>7 DEF HoldingsOfKind
    <3> QED
      BY <2>7, <3>1, <3>2 DEF OfKind
  <2>8. ASSUME NEW o \in OrderId
        PROVE  /\ order[o].user \in Key /\ order[o].base_contract \in Contract
               /\ order[o].base_token_id \in Felt
               /\ order[o].quote_contract \in Contract
               /\ order[o].quote_amount \in Felt
    BY DEF L2TypeOK, LimitOrder
  <2>9. ASSUME NEW o \in OrderId, NEW user \in User, FulfillOrder(sig, o, user)
        PROVE  OfKind
    <3> DEFINE ord == order[o]
               qc == ord.quote_contract
               q == ord.quote_amount
               bc == ord.base_contract
               t == ord.base_token_id
    <3>1. /\ ord.user # Nobody /\ Close(o, STATE_FULFILLED) /\ UNCHANGED toL1
          /\ GiveToken(bc, t, user) \/ GiveToken(bc, t, ord.user)
          /\ \/ balance' = Received(Paid(balance, user, qc, q), ord.user, qc, q)
             \/ balance' = Received(balance, user, qc, q)
      BY <2>9 DEF FulfillOrder, Open
    <3>2. /\ ord.user \in Key /\ user \in Key /\ bc \in Contract /\ t \in Felt
          /\ qc \in Contract /\ q \in Felt
      BY <2>8, KeyTyping
    <3> HIDE DEF ord, qc, q, bc, t
    <3>3. /\ \A c \in Contract, s \in Felt : owner'[c][s] # owner[c][s] => c = bc
          /\ \A u \in Key, c \in Contract : balance'[u][c] # balance[u][c] => c = qc
      <4>1. \A c \in Contract, s \in Felt :
              owner'[c][s] # owner[c][s] => c = bc
        <5>1. ASSUME GiveToken(bc, t, user)
              PROVE  \A c \in Contract, s \in Felt :
                       owner'[c][s] # owner[c][s] => c = bc
          BY <3>2, <5>1, TokenElsewhere
        <5>2. ASSUME GiveToken(bc, t, ord.user)
              PROVE  \A c \in Contract, s \in Felt :
                       owner'[c][s] # owner[c][s] => c = bc
          BY <3>2, <5>2, TokenElsewhere
        <5> QED
          BY <3>1, <5>1, <5>2
      <4>2. \A u \in Key, c \in Contract :
              balance'[u][c] # balance[u][c] => c = qc
        <5>1. ASSUME balance' = Received(Paid(balance, user, qc, q), ord.user, qc, q)
              PROVE  \A u \in Key, c \in Contract :
                       balance'[u][c] # balance[u][c] => c = qc
          BY <3>2, <5>1, MoneyElsewhere
        <5>2. ASSUME balance' = Received(balance, user, qc, q)
              PROVE  \A u \in Key, c \in Contract :
                       balance'[u][c] # balance[u][c] => c = qc
          BY <3>2, <5>2, MoneyElsewhere
        <5> QED
          BY <3>1, <5>1, <5>2
      <4> QED
        BY <4>1, <4>2
    <3> QED
      BY <2>7, <3>1, <3>3 DEF ord, qc, bc
  <2>10. ASSUME NEW o \in OrderId, CancelOrder(sig, o) PROVE OfKind
    <3> DEFINE ord == order[o]
               qc == ord.quote_contract
               q == ord.quote_amount
               bc == ord.base_contract
               t == ord.base_token_id
    <3>1. /\ ord.user # Nobody /\ Close(o, STATE_CANCELLED) /\ UNCHANGED toL1
          /\ \/ GiveToken(bc, t, ord.user) /\ UNCHANGED balance
             \/ balance' = Received(balance, ord.user, qc, q) /\ UNCHANGED owner
      BY <2>10 DEF CancelOrder, Open
    <3>2. /\ ord.user \in Key /\ bc \in Contract /\ t \in Felt
          /\ qc \in Contract /\ q \in Felt
      BY <2>8
    <3> HIDE DEF ord, qc, q, bc, t
    <3>3. /\ \A c \in Contract, s \in Felt : owner'[c][s] # owner[c][s] => c = bc
          /\ \A u \in Key, c \in Contract : balance'[u][c] # balance[u][c] => c = qc
      <4>1. ASSUME GiveToken(bc, t, ord.user)
            PROVE  \A c \in Contract, s \in Felt :
                     owner'[c][s] # owner[c][s] => c = bc
        BY <3>2, <4>1, TokenElsewhere
      <4>2. ASSUME balance' = Received(balance, ord.user, qc, q)
            PROVE  \A u \in Key, c \in Contract :
                     balance'[u][c] # balance[u][c] => c = qc
        BY <3>2, <4>2, MoneyElsewhere
      <4> QED
        BY <3>1, <4>1, <4>2
    <3> QED
      BY <2>7, <3>1, <3>3 DEF ord, qc, bc
  <2> QED
    BY <1>5, <2>2, <2>3, <2>4, <2>5, <2>6, <2>9, <2>10 DEF Minting, Transaction
<1> QED
  BY <1>2, <1>3, <1>4, <1>5 DEF L2Next

\* Whatever is held stays of the kind of its contract: tokens in collections,
\* money in ERC20 contracts, escrow and pending withdrawals included, for any
\* registrations, valid or not, and any order of calls.
THEOREM HoldingsKept == L2Spec => []L2Inv
<1>1. L2Init => HoldingsOfKind
  BY DEF L2Init, StorageInit, CoreInit, HoldingsOfKind, NoOrder, EmptyBag, SetToBag
<1>2. /\ L2TypeOK /\ L2TypeOK' /\ HoldingsOfKind /\ [L2Next]_l2vars
      => HoldingsOfKind'
  <2> SUFFICES ASSUME L2TypeOK, L2TypeOK', HoldingsOfKind, KindsAndOrigins, OfKind
               PROVE  HoldingsOfKind'
    BY KindsAndOriginsStep, OfKindStep
  <2>1. KIND_ERC20 \in Kind /\ KIND_ERC721 \in Kind
    BY DEF Kind
  <2>2. \A c \in Contract :
          description[c].kind \in Kind => description'[c] = description[c]
    BY DEF KindsAndOrigins, Kind, KIND_ERC20, KIND_ERC721
  <2>3. \A c \in Contract :
          description[c].kind = KIND_ERC721 => description'[c].kind = KIND_ERC721
    BY <2>1, <2>2
  <2>4. \A c \in Contract :
          description[c].kind = KIND_ERC20 => description'[c].kind = KIND_ERC20
    BY <2>1, <2>2
  <2>5. ASSUME NEW c \in Contract, NEW t \in Felt, owner'[c][t] # Nobody
        PROVE  description'[c].kind = KIND_ERC721
    BY <2>3, <2>5 DEF OfKind, HoldingsOfKind
  <2>6. ASSUME NEW u \in Key, NEW c \in Contract, balance'[u][c] # 0
        PROVE  description'[c].kind = KIND_ERC20
    BY <2>4, <2>6 DEF OfKind, HoldingsOfKind, Fungible
  <2>7. ASSUME NEW o \in OrderId, order'[o].user # Nobody
        PROVE  /\ description'[order'[o].base_contract].kind = KIND_ERC721
               /\ description'[order'[o].quote_contract].kind = KIND_ERC20
    <3>1. order'[o].base_contract \in Contract /\ order'[o].quote_contract \in Contract
      BY DEF L2TypeOK, LimitOrder
    <3>2. /\ description[order'[o].base_contract].kind = KIND_ERC721
          /\ description[order'[o].quote_contract].kind = KIND_ERC20
      BY <2>7 DEF OfKind, HoldingsOfKind, Fungible
    <3> QED
      BY <2>3, <2>4, <3>1, <3>2
  <2>8. ASSUME NEW m \in DOMAIN toL1'
        PROVE  description'[m.contract].kind \in Kind
    <3>1. m.contract \in Contract
      BY <2>8 DEF L2TypeOK, WithdrawMessage
    <3>2. description[m.contract].kind \in Kind
      BY <2>8 DEF OfKind, HoldingsOfKind
    <3> QED
      BY <2>2, <3>1, <3>2
  <2> QED
    BY <2>5, <2>6, <2>7, <2>8 DEF HoldingsOfKind, Fungible
<1> QED
  BY <1>1, <1>2, TypeCorrect, PTL DEF L2Spec, L2Inv

-----------------------------------------------------------------------------
(***************************************************************************)
(* The pause.                                                              *)
(***************************************************************************)

\* What PauseFreezes says of one step.
Frozen ==
  \/ UNCHANGED <<description, client, balance, owner, origin, order>>
  \/ /\ toL2' # toL2
     /\ UNCHANGED <<description, client, origin, order, toL1>>
     /\ \A c \in Contract, t \in Felt :
          owner[c][t] # Nobody => owner'[c][t] = owner[c][t]

\* Every entry point but set_pause and deposit asks check_on first, and deposit
\* consumes a message and never replaces an owner: nothing leaves and nothing
\* is traded while the contract is paused, whatever anybody sends or signs.
THEOREM PauseHolds == L2Spec => PauseFreezes
<1>1. ASSUME L2TypeOK, pause = 1, [L2Next]_l2vars PROVE Frozen
  <2>1. ASSUME NEW m \in DOMAIN toL2, m.type = "deposit", Deposit(m) PROVE Frozen
    <3>1. m \in DepositMessage
      BY <1>1, <2>1 DEF L2TypeOK, Message, RegisterMessage
    <3>2. m.user \in Key /\ m.contract \in Contract /\ m.value \in Felt
      BY <3>1 DEF DepositMessage
    <3>3. toL2' # toL2
      BY <1>1, <2>1, BagDomains DEF Deposit, HandleMessageFromL1, L2TypeOK
    <3>4. \A c \in Contract, t \in Felt :
            owner[c][t] # Nobody => owner'[c][t] = owner[c][t]
      BY <1>1, <2>1, <3>2, OwnerWrite DEF Deposit
    <3> QED
      BY <2>1, <3>3, <3>4 DEF Deposit, Frozen
  <2>2. CASE L1Handler
    <3>1. ASSUME NEW m, RegisterContract(m) PROVE FALSE
      BY <1>1, <3>1 DEF RegisterContract, CheckOn
    <3> QED
      BY <2>1, <2>2, <3>1 DEF L1Handler
  <2>3. CASE L1Step \/ UNCHANGED l2vars
    BY <2>3 DEF L1Step, L1Sends, L1Consumes, Frozen, l2vars, storage
  <2>4. ASSUME NEW sig \in User, Minting(sig) \/ Transaction(sig) PROVE Frozen
    <3>1. ASSUME NEW x, NEW y, NEW v, NEW c, NEW a, NEW bc, NEW t, NEW qc,
                 \/ RegisterClient(sig, x, a) \/ Mint(sig, x, v, c)
                 \/ Withdraw(sig, x, v, c, a) \/ Transfer(sig, x, y, v, c)
                 \/ CreateOrder(sig, x, y, v, bc, t, qc, c)
                 \/ FulfillOrder(sig, x, y) \/ CancelOrder(sig, x)
          PROVE  FALSE
      BY <1>1, <3>1
      DEF RegisterClient, Mint, Withdraw, Transfer, CreateOrder, FulfillOrder,
          CancelOrder, CheckOn
    <3>2. ASSUME NEW paus, SetPause(sig, paus) PROVE Frozen
      BY <3>2 DEF SetPause, Frozen
    <3> QED
      BY <2>4, <3>1, <3>2 DEF Minting, Transaction
  <2> QED
    BY <1>1, <2>2, <2>3, <2>4 DEF L2Next
<1>2. L2TypeOK /\ [L2Next]_l2vars => [pause = 1 => Frozen]_l2vars
  BY <1>1
<1> QED
  BY <1>2, TypeCorrect, PTL DEF L2Spec, PauseFreezes, Frozen

-----------------------------------------------------------------------------
(***************************************************************************)
(* The amounts that the properties add up.                                 *)
(***************************************************************************)

\* Finitely many messages are pending: each step adds one at most.
FiniteBags == IsFiniteSet(DOMAIN toL2) /\ IsFiniteSet(DOMAIN toL1)

\* A bag stays finite when a message is added or removed.
LEMMA BagFinite ==
  ASSUME NEW B, IsABag(B), IsFiniteSet(DOMAIN B), NEW m
  PROVE  IsFiniteSet(DOMAIN BagAdd(B, m)) /\ IsFiniteSet(DOMAIN BagRemove(B, m))
<1>1. IsFiniteSet(DOMAIN BagRemove(B, m))
  BY BagDomains, FS_Subset
<1>2. IsFiniteSet(DOMAIN B \cup {m})
  BY FS_AddElement
<1> QED
  BY <1>1, <1>2, BagDomains

\* Every step adds one message to one bag at most.
LEMMA FiniteBagsStep ==
  ASSUME L2TypeOK, FiniteBags, [L2Next]_l2vars
  PROVE  FiniteBags'
<1> DEFINE Grown == \E m : toL1' = BagAdd(toL1, m) /\ UNCHANGED toL2
           Sent == \E m : toL2' = BagAdd(toL2, m) /\ UNCHANGED toL1
           Taken == \E m : toL2' = BagRemove(toL2, m) /\ UNCHANGED toL1
           Spent == \E m : toL1' = BagRemove(toL1, m) /\ UNCHANGED toL2
<1>1. Grown \/ Sent \/ Taken \/ Spent => FiniteBags'
  BY BagFinite DEF L2TypeOK, FiniteBags
<1>2. UNCHANGED <<toL2, toL1>> => FiniteBags'
  BY DEF FiniteBags
<1>3. L1Step => Sent \/ Spent
  BY DEF L1Step, L1Sends, L1Consumes, SendMessageToL2, ConsumeMessageFromL2
<1>4. L1Handler => Taken
  BY DEF L1Handler, RegisterContract, Deposit, HandleMessageFromL1
<1>5. ASSUME NEW sig \in User, Minting(sig) \/ Transaction(sig)
      PROVE  Grown \/ UNCHANGED <<toL2, toL1>>
  <2>1. ASSUME NEW x, NEW v, NEW c, NEW a, Withdraw(sig, x, v, c, a)
        PROVE  Grown
    BY <2>1 DEF Withdraw, SendMessageToL1
  <2>2. ASSUME NEW x, NEW y, NEW v, NEW c, NEW a, NEW bc, NEW t, NEW qc,
               \/ SetPause(sig, x) \/ RegisterClient(sig, x, a)
               \/ Mint(sig, x, v, c)
               \/ Transfer(sig, x, y, v, c) \/ FulfillOrder(sig, x, y)
               \/ CreateOrder(sig, x, y, v, bc, t, qc, c) \/ CancelOrder(sig, x)
        PROVE  UNCHANGED <<toL2, toL1>>
    BY <2>2
    DEF SetPause, RegisterClient, Mint, Transfer, CreateOrder, FulfillOrder,
        CancelOrder
  <2> HIDE DEF Grown
  <2> QED
    BY <1>5, <2>1, <2>2 DEF Minting, Transaction
<1>6. UNCHANGED l2vars => UNCHANGED <<toL2, toL1>>
  BY DEF l2vars
<1> HIDE DEF Grown, Sent, Taken, Spent
<1> QED
  BY <1>1, <1>2, <1>3, <1>4, <1>5, <1>6 DEF L2Next

\* Amounts of pending messages are amounts of felts.
LEMMA Times ==
  ASSUME NEW n \in Nat \ {0}, NEW v \in Nat
  PROVE  n * v \in Nat /\ v <= n * v
<1>1. n * v = v + (n - 1) * v
  OBVIOUS
<1>2. (n - 1) * v \in Nat
  OBVIOUS
<1> QED
  BY <1>1, <1>2

\* The users and their orders are finitely many.
LEMMA FiniteKeys == IsFiniteSet(Key) /\ \A u, c : IsFiniteSet(OpenBids(u, c))
<1>1. IsFiniteSet(Key)
  BY L2Assumption, FS_Singleton, FS_Union DEF Key
<1>2. ASSUME NEW u, NEW c PROVE IsFiniteSet(OpenBids(u, c))
  <2>1. OpenBids(u, c) \subseteq OrderId
    BY DEF OpenBids
  <2> QED
    BY <2>1, L2Assumption, FS_Subset
<1> QED
  BY <1>1, <1>2

\* What an open bid took is reserved for its user.
LEMMA ReservedNat ==
  ASSUME L2TypeOK, NEW u \in Key, NEW c \in Contract
  PROVE  /\ [o \in OpenBids(u, c) |-> order[o].quote_amount]
              \in [OpenBids(u, c) -> Nat]
         /\ Reserved(u, c) \in Nat
         /\ \A o \in OpenBids(u, c) : order[o].quote_amount <= Reserved(u, c)
<1> DEFINE f == [o \in OpenBids(u, c) |-> order[o].quote_amount]
<1>1. \A o \in OpenBids(u, c) : order[o].quote_amount \in Nat
  BY FieldAssumption DEF OpenBids, L2TypeOK, LimitOrder, Felt
<1>2. f \in [OpenBids(u, c) -> Nat]
  BY <1>1
<1>3. SumFunction(f) \in Nat /\ \A o \in OpenBids(u, c) : f[o] <= SumFunction(f)
  <2> HIDE DEF f
  <2> QED
    BY <1>2, FiniteKeys, SumFunctionNat
<1>4. Reserved(u, c) = SumFunction(f)
  BY DEF Reserved
<1>5. \A o \in OpenBids(u, c) : f[o] = order[o].quote_amount
  OBVIOUS
<1> HIDE DEF f
<1> QED
  BY <1>2, <1>3, <1>4, <1>5 DEF f

\* A user's wealth is part of what is owed.
LEMMA WealthNat ==
  ASSUME L2TypeOK, NEW c \in Contract
  PROVE  /\ [u \in Key |-> Wealth(u, c)] \in [Key -> Nat]
         /\ Owed(c) \in Nat
         /\ \A u \in Key : Wealth(u, c) <= Owed(c)
<1> DEFINE f == [u \in Key |-> Wealth(u, c)]
<1>1. ASSUME NEW u \in Key PROVE Wealth(u, c) \in Nat
  <2>1. balance[u][c] \in Nat
    BY FieldAssumption DEF L2TypeOK, Felt
  <2> QED
    BY <2>1, ReservedNat DEF Wealth
<1>2. f \in [Key -> Nat]
  BY <1>1
<1>3. SumFunction(f) \in Nat /\ \A u \in Key : f[u] <= SumFunction(f)
  <2> HIDE DEF f
  <2> QED
    BY <1>2, FiniteKeys, SumFunctionNat
<1>4. Owed(c) = SumFunction(f)
  BY DEF Owed
<1>5. \A u \in Key : f[u] = Wealth(u, c)
  OBVIOUS
<1> HIDE DEF f
<1> QED
  BY <1>2, <1>3, <1>4, <1>5 DEF f

\* Messages under way carry at least what each of them carries.
LEMMA CarriedNat ==
  ASSUME NEW B, IsABag(B), NEW M, M \subseteq DOMAIN B, IsFiniteSet(M),
         \A m \in M : m.value \in Nat
  PROVE  /\ [m \in M |-> B[m] * m.value] \in [M -> Nat]
         /\ Carried(B, M) \in Nat
         /\ \A m \in M : m.value <= Carried(B, M)
<1> DEFINE f == [m \in M |-> B[m] * m.value]
<1>1. ASSUME NEW m \in M PROVE B[m] * m.value \in Nat /\ m.value <= B[m] * m.value
  <2>1. B[m] \in Nat \ {0}
    BY DEF IsABag
  <2> QED
    BY <2>1, Times
<1>2. f \in [M -> Nat]
  BY <1>1
<1>3. SumFunction(f) \in Nat /\ \A m \in M : f[m] <= SumFunction(f)
  <2> HIDE DEF f
  <2> QED
    BY <1>2, SumFunctionNat
<1>4. Carried(B, M) = SumFunction(f)
  BY DEF Carried
<1>5. ASSUME NEW m \in M PROVE m.value <= SumFunction(f)
  <2>1. f[m] = B[m] * m.value
    OBVIOUS
  <2> DEFINE x == B[m] * m.value
  <2>2. x \in Nat /\ m.value <= x /\ f[m] = x
    BY <1>1, <2>1
  <2> HIDE DEF f, x
  <2> QED
    BY <1>3, <2>2
<1> HIDE DEF f
<1> QED
  BY <1>2, <1>3, <1>4, <1>5 DEF f

\* The amounts in flight are natural numbers, and no deposit exceeds them.
LEMMA InFlightNat ==
  ASSUME L2TypeOK, FiniteBags, NEW c \in Contract
  PROVE  /\ Incoming(c) \in Nat /\ Outgoing(c) \in Nat
         /\ \A m \in DepositsInFlight(c) : m.value <= Incoming(c)
<1>1. \A m \in DepositsInFlight(c) : m.value \in Nat
  BY FieldAssumption
  DEF DepositsInFlight, L2TypeOK, Message, RegisterMessage, DepositMessage, Felt
<1>2. \A m \in WithdrawalsInFlight(c) : m.value \in Nat
  BY FieldAssumption DEF WithdrawalsInFlight, L2TypeOK, WithdrawMessage, Felt
<1>3. /\ DepositsInFlight(c) \subseteq DOMAIN toL2
      /\ WithdrawalsInFlight(c) \subseteq DOMAIN toL1
  BY DEF DepositsInFlight, WithdrawalsInFlight
<1>4. IsFiniteSet(DepositsInFlight(c)) /\ IsFiniteSet(WithdrawalsInFlight(c))
  BY <1>3, FS_Subset DEF FiniteBags
<1> QED
  BY <1>1, <1>2, <1>3, <1>4, CarriedNat DEF Incoming, Outgoing, L2TypeOK

-----------------------------------------------------------------------------
(***************************************************************************)
(* What the bound on the supply buys.                                      *)
(***************************************************************************)

\* create_order range-checks the amount, so that of every order is in range.
OrdersInRange == \A o \in OrderId : AssertNN(order[o].quote_amount)

\* The inductive invariant under a bounded supply.
BoundedInv == L2TypeOK /\ FiniteBags /\ SupplyBounded /\ OrdersInRange

\* At the start nothing is owed and nothing is in flight.
LEMMA BoundedInit ==
  L2Init => BoundedInv /\ \A c \in Contract : InSystem(c) = 0
<1> SUFFICES ASSUME L2Init
             PROVE  BoundedInv /\ \A c \in Contract : InSystem(c) = 0
  OBVIOUS
<1> USE FieldAssumption DEF L2Init, StorageInit, CoreInit
<1>1. L2TypeOK
  BY TypeInit
<1>2. DOMAIN toL2 = {} /\ DOMAIN toL1 = {}
  BY DEF EmptyBag, SetToBag
<1>3. FiniteBags
  BY <1>2, FS_EmptySet DEF FiniteBags
<1>4. OrdersInRange
  BY DEF OrdersInRange, NoOrder, AssertNN
<1>5. ASSUME NEW c \in Contract PROVE InSystem(c) = 0
  <2>1. ASSUME NEW u \in Key PROVE Wealth(u, c) = 0
    <3> DEFINE f == [o \in OpenBids(u, c) |-> order[o].quote_amount]
    <3>1. f \in [OpenBids(u, c) -> {0}]
      BY DEF OpenBids, NoOrder
    <3> HIDE DEF f
    <3>2. SumFunction(f) = 0
      BY <3>1, FiniteKeys, SumFunctionZero
    <3> QED
      BY <3>2 DEF f, Wealth, Reserved
  <2>2. Owed(c) = 0
    <3> DEFINE f == [u \in Key |-> Wealth(u, c)]
    <3>1. f \in [Key -> {0}]
      BY <2>1
    <3> HIDE DEF f
    <3>2. SumFunction(f) = 0
      BY <3>1, FiniteKeys, SumFunctionZero
    <3> QED
      BY <3>2 DEF f, Owed
  <2>3. DepositsInFlight(c) = {} /\ WithdrawalsInFlight(c) = {}
    BY <1>2 DEF DepositsInFlight, WithdrawalsInFlight
  <2>4. ASSUME NEW B PROVE Carried(B, {}) = 0
    <3> DEFINE f == [m \in {} |-> B[m] * m.value]
    <3>1. f \in [{} -> {0}]
      OBVIOUS
    <3> HIDE DEF f
    <3>2. SumFunction(f) = 0
      BY <3>1, FS_EmptySet, SumFunctionZero
    <3> QED
      BY <3>2 DEF f, Carried
  <2> QED
    BY <2>2, <2>3, <2>4 DEF InSystem, Incoming, Outgoing
<1>6. SupplyBounded
  BY <1>5 DEF SupplyBounded
<1> QED
  BY <1>1, <1>3, <1>4, <1>5, <1>6 DEF BoundedInv

\* create_order range-checks the amount, and nothing else writes it.
LEMMA OrdersInRangeStep ==
  ASSUME L2TypeOK, OrdersInRange, [L2Next]_l2vars
  PROVE  OrdersInRange'
<1>1. ASSUME UNCHANGED order PROVE OrdersInRange'
  BY <1>1 DEF OrdersInRange
<1>2. CASE UNCHANGED l2vars
  BY <1>1, <1>2 DEF l2vars, storage
<1>3. CASE L1Step \/ L1Handler
  BY <1>1, <1>3
  DEF L1Step, L1Sends, L1Consumes, storage, L1Handler, RegisterContract, Deposit
<1>4. ASSUME NEW sig \in User, Minting(sig) \/ Transaction(sig)
      PROVE  OrdersInRange'
  <2>1. ASSUME NEW o, NEW user, NEW bid, NEW bc, NEW t, NEW qc, NEW q,
               CreateOrder(sig, o, user, bid, bc, t, qc, q)
        PROVE  OrdersInRange'
    BY <2>1 DEF CreateOrder, OrdersInRange, L2TypeOK
  <2>2. ASSUME NEW o \in OrderId, NEW state, Close(o, state)
        PROVE  OrdersInRange'
    BY <2>2 DEF Close, OrdersInRange, L2TypeOK, LimitOrder
  <2>3. ASSUME NEW o \in OrderId, NEW user,
               FulfillOrder(sig, o, user) \/ CancelOrder(sig, o)
        PROVE  OrdersInRange'
    BY <2>2, <2>3 DEF FulfillOrder, CancelOrder
  <2>4. ASSUME NEW x, NEW y, NEW v, NEW c, NEW a,
               \/ SetPause(sig, x) \/ RegisterClient(sig, x, a)
               \/ Mint(sig, x, v, c) \/ Withdraw(sig, x, v, c, a)
               \/ Transfer(sig, x, y, v, c)
        PROVE  OrdersInRange'
    BY <1>1, <2>4
    DEF SetPause, RegisterClient, Mint, Withdraw, Transfer
  <2> QED
    BY <1>4, <2>1, <2>3, <2>4 DEF Minting, Transaction
<1> QED
  BY <1>2, <1>3, <1>4 DEF L2Next

\* The invariant holds as long as the supply stays below the bound.
LEMMA BoundedInvariant == BoundedSpec => []BoundedInv
<1>1. BoundedInv /\ [BoundedNext]_l2vars => BoundedInv'
  <2> SUFFICES ASSUME BoundedInv, [BoundedNext]_l2vars PROVE BoundedInv'
    OBVIOUS
  <2>1. [L2Next]_l2vars
    BY DEF BoundedNext
  <2>2. L2TypeOK'
    BY <2>1, TypeL1, TypeTransaction DEF BoundedInv, L2Next, L2TypeOK, l2vars, storage
  <2>3. FiniteBags' /\ OrdersInRange'
    BY <2>1, FiniteBagsStep, OrdersInRangeStep DEF BoundedInv
  <2>4. SupplyBounded'
    <3>1. CASE UNCHANGED l2vars
      BY <3>1 DEF BoundedInv, SupplyBounded, InSystem, Owed, Wealth, Reserved,
        OpenBids, Open, Incoming, Outgoing, DepositsInFlight,
        WithdrawalsInFlight, Carried, l2vars, storage
    <3> QED
      BY <3>1 DEF BoundedNext
  <2> QED
    BY <2>2, <2>3, <2>4 DEF BoundedInv
<1> QED
  BY BoundedInit, <1>1, PTL DEF BoundedSpec

\* Under a bounded supply no amount is near the range of assert_nn, let alone
\* near P: not what a user has, and not what a deposit adds to it.
LEMMA WithinSupply ==
  ASSUME BoundedInv, NEW u \in Key, NEW c \in Contract
  PROVE  /\ balance[u][c] \in Nat /\ Reserved(u, c) \in Nat
         /\ balance[u][c] + Reserved(u, c) < RangeCheckBound
         /\ \A m \in DepositsInFlight(c) :
              m.value \in Nat => balance[u][c] + m.value < RangeCheckBound
<1>1. InSystem(c) < RangeCheckBound
  BY DEF BoundedInv, SupplyBounded
<1>2. balance[u][c] \in Nat
  BY FieldAssumption DEF BoundedInv, L2TypeOK, Felt
<1>3. Reserved(u, c) \in Nat /\ Owed(c) \in Nat
      /\ balance[u][c] + Reserved(u, c) <= Owed(c)
  BY ReservedNat, WealthNat DEF BoundedInv, Wealth
<1>4. Incoming(c) \in Nat /\ Outgoing(c) \in Nat
      /\ \A m \in DepositsInFlight(c) : m.value <= Incoming(c)
  BY InFlightNat DEF BoundedInv
<1> QED
  BY <1>1, <1>2, <1>3, <1>4, FieldAssumption DEF InSystem

\* Every open order can be cancelled, by its user, at any time: an ask because
\* the escrow is sound, a bid because what it took and what its user has since
\* received stay below the range-check bound together.
THEOREM OrdersRefundable == FreshOnly /\ BoundedSpec => []Refundable
<1> SUFFICES ASSUME FreshOnly PROVE BoundedSpec => []Refundable
  OBVIOUS
<1>1. BoundedInv /\ EscrowBacked => Refundable
  <2> SUFFICES ASSUME BoundedInv, EscrowBacked, NEW o \in OrderId, Open(order[o])
               PROVE  IF order[o].bid = ASK
                      THEN owner[order[o].base_contract][order[o].base_token_id]
                             = Nobody
                      ELSE CanReceive(balance, order[o].user,
                             order[o].quote_contract, order[o].quote_amount)
    BY DEF Refundable
  <2> DEFINE u == order[o].user
             c == order[o].quote_contract
             q == order[o].quote_amount
  <2>1. /\ u \in Key /\ c \in Contract /\ q \in Felt
        /\ order[o].base_contract \in Contract /\ order[o].base_token_id \in Felt
        /\ order[o].bid \in {ASK, BID}
    BY DEF BoundedInv, L2TypeOK, LimitOrder
  <2>2. CASE order[o].bid = ASK
    BY <2>1, <2>2 DEF EscrowBacked, AskFor
  <2>3. CASE order[o].bid # ASK
    <3>1. o \in OpenBids(u, c)
      BY <2>1, <2>3 DEF OpenBids
    <3>2. q <= Reserved(u, c)
      BY <2>1, <3>1, ReservedNat DEF BoundedInv
    <3>3. /\ balance[u][c] \in Nat /\ q \in Nat
          /\ balance[u][c] + q < RangeCheckBound
      BY <2>1, <3>2, WithinSupply, FieldAssumption DEF Felt
    <3>4. CanReceive(balance, u, c, q)
      BY <3>3, FieldAssumption DEF CanReceive, FeltAdd, AssertNN
    <3> QED
      BY <2>3, <3>4
  <2> QED
    BY <2>2, <2>3
<1>2. BoundedSpec => L2Spec
  <2>1. [BoundedNext]_l2vars => [L2Next]_l2vars
    BY DEF BoundedNext
  <2> QED
    BY <2>1, PTL DEF BoundedSpec, L2Spec
<1> QED
  BY <1>1, <1>2, BoundedInvariant, EscrowSound, PTL

-----------------------------------------------------------------------------
(***************************************************************************)
(* Consent.                                                                *)
(***************************************************************************)

\* A payment and a receipt change one balance.
LEMMA PaidOnly ==
  ASSUME NEW b \in [Key -> [Contract -> Felt]], NEW u \in Key,
         NEW c \in Contract, NEW v, NEW w \in Key, NEW d \in Contract
  PROVE  /\ Paid(b, u, c, v)[w][d]
              = IF w = u /\ d = c THEN FeltSub(b[u][c], v) ELSE b[w][d]
         /\ Received(b, u, c, v)[w][d]
              = IF w = u /\ d = c THEN FeltAdd(b[u][c], v) ELSE b[w][d]
BY DEF Paid, Received

\* Two amounts in range do not wrap.
LEMMA InRangeAdd ==
  ASSUME NEW a \in Nat, NEW v \in Nat, a < RangeCheckBound, v < RangeCheckBound
  PROVE  FeltAdd(a, v) = a + v
BY FieldAssumption DEF FeltAdd

\* A payment takes the amount from the payer and nothing from anybody else, and
\* who receives it has it afterwards.
LEMMA PaymentMoves ==
  ASSUME BoundedInv, NEW from \in Key, NEW to \in Key, NEW c \in Contract,
         NEW v \in Felt, AssertNN(v), CanPay(balance, from, c, v),
         NEW u \in Key, NEW d \in Contract, balance[u][d] - balance'[u][d] > 0,
         \/ balance' = Paid(balance, from, c, v)
         \/ balance' = Received(Paid(balance, from, c, v), to, c, v)
  PROVE  /\ u = from /\ d = c /\ balance[u][d] - balance'[u][d] = v
         /\ \/ balance' = Paid(balance, from, c, v)
            \/ balance'[to][c] = balance[to][c] + v
<1> DEFINE paid == Paid(balance, from, c, v)
<1>1. balance \in [Key -> [Contract -> Felt]] /\ v \in Nat
  BY FieldAssumption DEF BoundedInv, L2TypeOK, Felt
<1>2. \A w \in Key, e \in Contract : balance[w][e] \in Nat
  BY <1>1, FieldAssumption DEF Felt
<1>3. ASSUME NEW w \in Key
      PROVE  balance[w][c] < RangeCheckBound
  <2>1. /\ balance[w][c] \in Nat /\ Reserved(w, c) \in Nat
        /\ balance[w][c] + Reserved(w, c) < RangeCheckBound
    BY WithinSupply
  <2> QED
    BY <2>1, FieldAssumption
<1>4. paid \in [Key -> [Contract -> Felt]]
  BY CustodyTyping DEF BoundedInv, L2TypeOK
<1>5. FeltSub(balance[from][c], v) = balance[from][c] - v
      /\ balance[from][c] - v \in Nat
  <2>1. balance[from][c] \in Felt
    BY <1>1
  <2> QED
    BY <2>1, PaymentExact, <1>2, FieldAssumption DEF CanPay, Felt
<1>6. \A w \in Key, e \in Contract :
        paid[w][e] = IF w = from /\ e = c THEN balance[from][c] - v
                                          ELSE balance[w][e]
  BY <1>1, <1>5, PaidOnly
<1> HIDE DEF paid
<1>7. CASE balance' = paid
  BY <1>1, <1>2, <1>6, <1>7 DEF paid
<1>8. CASE balance' = Received(paid, to, c, v)
  <2>1. paid[to][c] \in Nat /\ paid[to][c] < RangeCheckBound
    BY <1>1, <1>2, <1>3, <1>5, <1>6, FieldAssumption
  <2>2. FeltAdd(paid[to][c], v) = paid[to][c] + v
    BY <1>1, <2>1, InRangeAdd DEF AssertNN
  <2>3. \A w \in Key, e \in Contract :
          balance'[w][e] = IF w = to /\ e = c THEN paid[to][c] + v
                                              ELSE paid[w][e]
    BY <1>4, <1>8, <2>2, PaidOnly
  <2>4. u = from /\ d = c /\ u # to
    BY <1>1, <1>2, <1>6, <2>3
  <2> QED
    BY <1>1, <1>2, <1>6, <2>3, <2>4
<1> QED
  BY <1>7, <1>8 DEF paid

\* A receipt takes nothing from anybody.
LEMMA ReceiptMoves ==
  ASSUME BoundedInv, NEW to \in Key, NEW c \in Contract,
         NEW v \in Felt, AssertNN(v), balance' = Received(balance, to, c, v),
         NEW u \in Key, NEW d \in Contract
  PROVE  ~(balance[u][d] - balance'[u][d] > 0)
<1>1. balance \in [Key -> [Contract -> Felt]] /\ v \in Nat
  BY FieldAssumption DEF BoundedInv, L2TypeOK, Felt
<1>2. balance[to][c] \in Nat /\ balance[u][d] \in Nat
  BY <1>1, FieldAssumption DEF Felt
<1>3. balance[to][c] < RangeCheckBound
  <2>1. /\ balance[to][c] \in Nat /\ Reserved(to, c) \in Nat
        /\ balance[to][c] + Reserved(to, c) < RangeCheckBound
    BY WithinSupply
  <2> QED
    BY <2>1, FieldAssumption
<1>4. FeltAdd(balance[to][c], v) = balance[to][c] + v
  BY <1>1, <1>2, <1>3, InRangeAdd DEF AssertNN
<1>5. balance'[u][d] = IF u = to /\ d = c THEN balance[to][c] + v
                                          ELSE balance[u][d]
  BY <1>1, <1>4, PaidOnly
<1> QED
  BY <1>1, <1>2, <1>5

\* Only the token that is given can leave its owner.
LEMMA TokenLeaves ==
  ASSUME L2TypeOK, NEW c \in Contract, NEW t \in Felt, NEW u \in Key,
         GiveToken(c, t, u), NEW d \in Contract, NEW s \in Felt,
         owner[d][s] \notin {Nobody, owner'[d][s]}
  PROVE  d = c /\ s = t /\ owner'[d][s] = u
BY OwnerWrite

\* Whoever has an order has signed its terms: create_order alone writes them.
OrdersSigned ==
  \A o \in OrderId :
    order[o].user # Nobody => Signs(order[o].user, OrderInputs(o, order[o]))

\* Terms are written once, signed, and closing an order leaves them alone.
LEMMA OrdersSignedStep ==
  ASSUME L2TypeOK, OrdersSigned, [L2Next]_l2vars
  PROVE  OrdersSigned'
<1>1. UNCHANGED order => OrdersSigned'
  BY DEF OrdersSigned, Signs, OrderInputs
<1>2. ASSUME NEW o \in OrderId, NEW s, Close(o, s)
      PROVE  OrdersSigned'
  <2>1. ASSUME NEW p \in OrderId
        PROVE  /\ order'[p].user = order[p].user
               /\ OrderInputs(p, order'[p]) = OrderInputs(p, order[p])
    BY <1>2 DEF Close, L2TypeOK, LimitOrder, OrderInputs
  <2> QED
    BY <2>1 DEF OrdersSigned, Signs
<1>3. ASSUME NEW sig \in User, NEW o \in OrderId, NEW user, NEW bid, NEW bc,
             NEW qc, NEW t, NEW q, CreateOrder(sig, o, user, bid, bc, t, qc, q)
      PROVE  OrdersSigned'
  <2>1. /\ user \in User /\ <<o, bid, bc, t, qc, q>> \in Signed[user]
        /\ order' = [order EXCEPT ![o] =
             [user |-> user, bid |-> bid, base_contract |-> bc,
              base_token_id |-> t, quote_contract |-> qc, quote_amount |-> q,
              state |-> STATE_NEW]]
    BY <1>3 DEF CreateOrder, Verified
  <2>2. order'[o].user = user
        /\ OrderInputs(o, order'[o]) = <<o, bid, bc, t, qc, q>>
    BY <2>1 DEF L2TypeOK, OrderInputs
  <2>3. \A p \in OrderId \ {o} : order'[p] = order[p]
    BY <2>1 DEF L2TypeOK
  <2>4. ASSUME NEW p \in OrderId, order'[p].user # Nobody
        PROVE  Signs(order'[p].user, OrderInputs(p, order'[p]))
    <3>1. CASE p = o
      BY <2>1, <2>2, <3>1 DEF Signs
    <3>2. CASE p # o
      <4>1. order'[p] = order[p]
        BY <2>3, <3>2
      <4> QED
        BY <2>4, <4>1 DEF OrdersSigned
    <3> QED
      BY <3>1, <3>2
  <2> QED
    BY <2>4 DEF OrdersSigned, Signs, OrderInputs
<1>4. ASSUME NEW sig \in User, Minting(sig) \/ Transaction(sig)
      PROVE  OrdersSigned'
  <2>1. ASSUME NEW x, NEW y, NEW v, NEW c, NEW a,
               \/ SetPause(sig, x) \/ RegisterClient(sig, x, a)
               \/ Mint(sig, x, v, c) \/ Withdraw(sig, x, v, c, a)
               \/ Transfer(sig, x, y, v, c)
        PROVE  OrdersSigned'
    BY <1>1, <2>1 DEF SetPause, RegisterClient, Mint, Withdraw, Transfer
  <2>2. ASSUME NEW o \in OrderId, NEW x, FulfillOrder(sig, o, x) \/ CancelOrder(sig, o)
        PROVE  OrdersSigned'
    BY <1>2, <2>2 DEF FulfillOrder, CancelOrder
  <2> QED
    BY <1>3, <1>4, <2>1, <2>2 DEF Minting, Transaction
<1>5. CASE L1Step \/ L1Handler \/ UNCHANGED l2vars
  BY <1>1, <1>5 DEF L1Step, L1Handler, L1Sends, L1Consumes, RegisterContract,
                    Deposit, l2vars, storage
<1> QED
  BY <1>4, <1>5 DEF L2Next

\* A step that closes no order, or one that was signed away.
LEMMA OrderConsentKept ==
  ASSUME L2TypeOK,
         \/ UNCHANGED order
         \/ \E o \in OrderId :
              order[o].user = Nobody /\ \A p \in OrderId \ {o} : order'[p] = order[p]
         \/ \E o \in OrderId : Close(o, STATE_CANCELLED) /\ Signs(order[o].user, <<o>>)
         \/ \E o \in OrderId, u \in User : Close(o, STATE_FULFILLED) /\ Settles(u, o)
  PROVE  OrderConsent
<1>1. CASE UNCHANGED order
  BY <1>1 DEF OrderConsent, Open
<1>2. ASSUME NEW o \in OrderId, order[o].user = Nobody,
             \A p \in OrderId \ {o} : order'[p] = order[p]
      PROVE  OrderConsent
  BY <1>2 DEF OrderConsent, Open
<1>3. ASSUME NEW o \in OrderId, NEW s, Close(o, s)
      PROVE  order'[o].state = s /\ \A p \in OrderId \ {o} : order'[p] = order[p]
  BY <1>3 DEF Close, L2TypeOK, LimitOrder
<1>4. ASSUME NEW o \in OrderId, Close(o, STATE_CANCELLED),
             Signs(order[o].user, <<o>>)
      PROVE  OrderConsent
  BY <1>3, <1>4 DEF OrderConsent, Open
<1>5. ASSUME NEW o \in OrderId, NEW u \in User, Close(o, STATE_FULFILLED),
             Settles(u, o)
      PROVE  OrderConsent
  BY <1>3, <1>5 DEF OrderConsent, Open
<1> QED
  BY <1>1, <1>2, <1>4, <1>5

\* No money and no token moves without consent, per entry point.
LEMMA WithdrawConsent ==
  ASSUME BoundedInv, NEW sig \in User, NEW c \in Contract, NEW v \in Inputs[c],
         NEW user \in User, NEW a \in Address, Withdraw(sig, user, v, c, a)
  PROVE  MoneyConsent /\ TokenConsent /\ OrderConsent
<1>1. v \in Felt /\ user \in Key /\ Nobody \in Key /\ L2TypeOK
  BY InputsAreFelts, KeyTyping DEF BoundedInv
<1>2. /\ AssertNN(v) /\ Signs(user, <<v, c, a>>) /\ UNCHANGED order
      /\ toL1' = BagAdd(toL1, [address |-> a, value |-> v, contract |-> c,
                               org |-> origin[c][v]])
      /\ \/ /\ CanPay(balance, user, c, v) /\ UNCHANGED owner
            /\ balance' = Paid(balance, user, c, v)
         \/ /\ owner[c][v] = user /\ GiveToken(c, v, Nobody)
            /\ UNCHANGED balance
  BY DEF Withdraw, Verified, Signs, SendMessageToL1
<1>3. origin[c][v] \in {0, 1}
  BY <1>1 DEF L2TypeOK
<1>4. SendsHome(user, v, c)
  BY <1>2, <1>3 DEF SendsHome
<1>5. OrderConsent
  BY <1>1, <1>2, OrderConsentKept
<1>6. ASSUME NEW u \in Key, NEW d \in Contract, balance[u][d] - balance'[u][d] > 0
      PROVE  SendsHome(u, balance[u][d] - balance'[u][d], d)
  <2>1. balance' # balance
    BY <1>1, <1>6, FieldAssumption DEF L2TypeOK, Felt
  <2>2. u = user /\ d = c /\ balance[u][d] - balance'[u][d] = v
    BY <1>1, <1>2, <1>6, <2>1, PaymentMoves
  <2> QED
    BY <1>4, <2>2
<1>7. ASSUME NEW d \in Contract, NEW s \in Felt,
             owner[d][s] \notin {Nobody, owner'[d][s]}
      PROVE  SendsHome(owner[d][s], s, d) /\ owner'[d][s] = Nobody
  <2>1. GiveToken(c, v, Nobody) /\ owner[c][v] = user
    BY <1>2, <1>7
  <2>2. d = c /\ s = v /\ owner'[d][s] = Nobody
    BY <1>1, <1>7, <2>1, TokenLeaves
  <2> QED
    BY <1>4, <2>1, <2>2
<1> QED
  BY <1>5, <1>6, <1>7 DEF MoneyConsent, TokenConsent

\* What leaves by a transfer, its user has signed for the receiver.
LEMMA TransferConsent ==
  ASSUME BoundedInv, NEW sig \in User, NEW c \in Contract, NEW v \in Inputs[c],
         NEW from \in User, NEW to \in Recipient, Transfer(sig, from, to, v, c)
  PROVE  MoneyConsent /\ TokenConsent /\ OrderConsent
<1>1. v \in Felt /\ from \in Key /\ to \in Key /\ L2TypeOK
  BY InputsAreFelts, KeyTyping, L2Assumption DEF BoundedInv
<1>2. /\ AssertNN(v) /\ Signs(from, <<to, v, c>>) /\ UNCHANGED order
      /\ \/ /\ CanPay(balance, from, c, v) /\ UNCHANGED owner
            /\ balance' = Received(Paid(balance, from, c, v), to, c, v)
         \/ /\ owner[c][v] = from /\ GiveToken(c, v, to)
            /\ UNCHANGED balance
  BY DEF Transfer, Verified, Signs
<1>3. OrderConsent
  BY <1>1, <1>2, OrderConsentKept
<1>4. ASSUME NEW u \in Key, NEW d \in Contract, balance[u][d] - balance'[u][d] > 0
      PROVE  \E r \in Key :
               /\ Signs(u, <<r, balance[u][d] - balance'[u][d], d>>)
               /\ balance'[r][d] = balance[r][d] + (balance[u][d] - balance'[u][d])
  <2>1. balance' # balance
    BY <1>1, <1>4, FieldAssumption DEF L2TypeOK, Felt
  <2>2. CanPay(balance, from, c, v)
        /\ balance' = Received(Paid(balance, from, c, v), to, c, v)
    BY <1>2, <2>1
  <2>3. /\ u = from /\ d = c /\ balance[u][d] - balance'[u][d] = v
        /\ \/ balance' = Paid(balance, from, c, v)
           \/ balance'[to][c] = balance[to][c] + v
    BY <1>1, <1>2, <1>4, <2>2, PaymentMoves
  <2>4. ASSUME balance' = Paid(balance, from, c, v)
        PROVE  balance'[to][c] = balance[to][c] + v
    <3> DEFINE paid == Paid(balance, from, c, v)
    <3>1. paid \in [Key -> [Contract -> Felt]]
      BY <1>1, CustodyTyping DEF L2TypeOK
    <3> HIDE DEF paid
    <3>2. paid = Received(paid, to, c, v)
      BY <2>2, <2>4 DEF paid
    <3>3. paid[to][c] = FeltAdd(paid[to][c], v)
      BY <1>1, <3>1, <3>2, PaidOnly
    <3>4. paid[to][c] \in Felt /\ v \in Felt
      BY <1>1, <3>1
    <3>5. v = 0
      BY <3>3, <3>4, FieldAssumption DEF FeltAdd, Felt
    <3> QED
      BY <1>4, <2>3, <3>5
  <2> QED
    BY <1>1, <1>2, <2>3, <2>4
<1>5. ASSUME NEW d \in Contract, NEW s \in Felt,
             owner[d][s] \notin {Nobody, owner'[d][s]}
      PROVE  Signs(owner[d][s], <<owner'[d][s], s, d>>)
  <2>1. GiveToken(c, v, to) /\ owner[c][v] = from
    BY <1>2, <1>5
  <2>2. d = c /\ s = v /\ owner'[d][s] = to
    BY <1>1, <1>5, <2>1, TokenLeaves
  <2> QED
    BY <1>2, <2>1, <2>2
<1> QED
  BY <1>3, <1>4, <1>5 DEF MoneyConsent, TokenConsent

\* What goes into escrow, its user has signed for the terms of the order.
LEMMA CreateOrderConsent ==
  ASSUME BoundedInv, NEW sig \in User, NEW o \in OrderId, NEW user \in User,
         NEW bid \in {ASK, BID}, NEW bc \in Contract, NEW qc \in Contract,
         NEW t \in Inputs[bc], NEW q \in Inputs[qc],
         CreateOrder(sig, o, user, bid, bc, t, qc, q)
  PROVE  MoneyConsent /\ TokenConsent /\ OrderConsent
<1> DEFINE new == [user |-> user, bid |-> bid, base_contract |-> bc,
                   base_token_id |-> t, quote_contract |-> qc,
                   quote_amount |-> q, state |-> STATE_NEW]
<1>1. t \in Felt /\ q \in Felt /\ user \in Key /\ Nobody \in Key /\ L2TypeOK
      /\ user # Nobody
  BY InputsAreFelts, KeyTyping, L2Assumption DEF BoundedInv
<1>2. /\ AssertNN(q) /\ Signs(user, <<o, bid, bc, t, qc, q>>)
      /\ order[o].user = Nobody /\ order' = [order EXCEPT ![o] = new]
      /\ \/ /\ bid = ASK /\ owner[bc][t] = user /\ GiveToken(bc, t, Nobody)
            /\ UNCHANGED balance
         \/ /\ bid = BID /\ CanPay(balance, user, qc, q) /\ UNCHANGED owner
            /\ balance' = Paid(balance, user, qc, q)
  BY DEF CreateOrder, Verified, Signs
<1>3. order'[o] = new
  BY <1>1, <1>2 DEF L2TypeOK
<1>4. PutsUp(user, o)
  <2>1. OrderInputs(o, new) = <<o, bid, bc, t, qc, q>>
    BY DEF OrderInputs
  <2> QED
    BY <1>2, <1>3, <2>1 DEF PutsUp
<1>5. OrderConsent
  <2>1. \A p \in OrderId \ {o} : order'[p] = order[p]
    BY <1>1, <1>2 DEF L2TypeOK
  <2> QED
    BY <1>1, <1>2, <2>1, OrderConsentKept
<1>6. ASSUME NEW u \in Key, NEW d \in Contract, balance[u][d] - balance'[u][d] > 0
      PROVE  /\ PutsUp(u, o) /\ order'[o].bid = BID
             /\ order'[o].quote_contract = d
             /\ order'[o].quote_amount = balance[u][d] - balance'[u][d]
  <2>1. balance' # balance
    BY <1>1, <1>6, FieldAssumption DEF L2TypeOK, Felt
  <2>2. bid = BID /\ CanPay(balance, user, qc, q)
        /\ balance' = Paid(balance, user, qc, q)
    BY <1>2, <2>1
  <2>3. u = user /\ d = qc /\ balance[u][d] - balance'[u][d] = q
    BY <1>1, <1>2, <1>6, <2>2, PaymentMoves
  <2> QED
    BY <1>3, <1>4, <2>2, <2>3
<1>7. ASSUME NEW d \in Contract, NEW s \in Felt,
             owner[d][s] \notin {Nobody, owner'[d][s]}
      PROVE  PutsUp(owner[d][s], o) /\ AskFor(o, d, s)'
  <2>1. bid = ASK /\ owner[bc][t] = user /\ GiveToken(bc, t, Nobody)
    BY <1>2, <1>7
  <2>2. d = bc /\ s = t
    BY <1>1, <1>7, <2>1, TokenLeaves
  <2> QED
    BY <1>1, <1>3, <1>4, <2>1, <2>2 DEF AskFor, Open
<1> QED
  BY <1>5, <1>6, <1>7 DEF MoneyConsent, TokenConsent

\* What a taker gives up, it has signed for an order whose terms its user signed.
LEMMA FulfillConsent ==
  ASSUME BoundedInv, OrdersSigned, NEW sig \in User, NEW o \in OrderId,
         NEW user \in User, FulfillOrder(sig, o, user)
  PROVE  MoneyConsent /\ TokenConsent /\ OrderConsent
<1> DEFINE ord == order[o]
           qc == ord.quote_contract
           q == ord.quote_amount
           bc == ord.base_contract
           t == ord.base_token_id
<1>1. /\ ord.user \in Key /\ user \in Key /\ bc \in Contract /\ t \in Felt
      /\ qc \in Contract /\ q \in Felt /\ AssertNN(q) /\ L2TypeOK
      /\ user # Nobody
  BY KeyTyping, L2Assumption DEF BoundedInv, L2TypeOK, LimitOrder, OrdersInRange
<1>2. /\ Signs(user, <<o>>) /\ Open(ord) /\ Close(o, STATE_FULFILLED)
      /\ \/ /\ ord.bid = ASK /\ CanPay(balance, user, qc, q)
            /\ balance' = Received(Paid(balance, user, qc, q), ord.user, qc, q)
            /\ owner[bc][t] = Nobody /\ GiveToken(bc, t, user)
         \/ /\ ord.bid = BID /\ owner[bc][t] = user
            /\ GiveToken(bc, t, ord.user)
            /\ balance' = Received(balance, user, qc, q)
  BY DEF FulfillOrder, Verified, Signs
<1>3. Settles(user, o)
  <2>1. order'[o].state = STATE_FULFILLED
    BY <1>1, <1>2 DEF Close, L2TypeOK, LimitOrder
  <2> QED
    BY <1>2, <2>1 DEF Settles, OrdersSigned, Open
<1>4. OrderConsent
  BY <1>1, <1>2, <1>3, OrderConsentKept
<1> HIDE DEF ord, qc, q, bc, t
<1>5. ASSUME NEW u \in Key, NEW d \in Contract, balance[u][d] - balance'[u][d] > 0
      PROVE  /\ Settles(u, o) /\ ord.bid = ASK /\ qc = d
             /\ q = balance[u][d] - balance'[u][d] /\ owner'[bc][t] = u
  <2>1. balance' # Received(balance, user, qc, q)
    BY <1>1, <1>5, ReceiptMoves
  <2>2. /\ ord.bid = ASK /\ CanPay(balance, user, qc, q)
        /\ balance' = Received(Paid(balance, user, qc, q), ord.user, qc, q)
        /\ GiveToken(bc, t, user)
    BY <1>2, <2>1
  <2>3. u = user /\ d = qc /\ balance[u][d] - balance'[u][d] = q
    BY <1>1, <1>5, <2>2, PaymentMoves
  <2>4. owner'[bc][t] = user
    BY <1>1, <2>2, OwnerWrite
  <2> QED
    BY <1>3, <2>2, <2>3, <2>4
<1>6. ASSUME NEW d \in Contract, NEW s \in Felt,
             owner[d][s] \notin {Nobody, owner'[d][s]}
      PROVE  /\ Settles(owner[d][s], o) /\ ord.bid = BID /\ bc = d /\ t = s
             /\ owner'[d][s] = ord.user
  <2>1. PICK w \in Key : GiveToken(bc, t, w)
    BY <1>1, <1>2
  <2>2. d = bc /\ s = t
    BY <1>1, <1>6, <2>1, TokenLeaves
  <2>3. ord.bid = BID /\ owner[bc][t] = user /\ GiveToken(bc, t, ord.user)
    BY <1>2, <1>6, <2>2
  <2>4. owner'[d][s] = ord.user
    BY <1>1, <1>6, <2>3, TokenLeaves
  <2> QED
    BY <1>3, <2>2, <2>3, <2>4
<1> QED
  BY <1>4, <1>5, <1>6 DEF MoneyConsent, TokenConsent, ord, qc, q, bc, t

\* A cancellation gives back what the order holds.
LEMMA CancelConsent ==
  ASSUME BoundedInv, NEW sig \in User, NEW o \in OrderId, CancelOrder(sig, o)
  PROVE  MoneyConsent /\ TokenConsent /\ OrderConsent
<1> DEFINE ord == order[o]
           qc == ord.quote_contract
           q == ord.quote_amount
           bc == ord.base_contract
           t == ord.base_token_id
<1>1. /\ ord.user \in Key /\ bc \in Contract /\ t \in Felt
      /\ qc \in Contract /\ q \in Felt /\ AssertNN(q) /\ L2TypeOK
  BY KeyTyping, L2Assumption DEF BoundedInv, L2TypeOK, LimitOrder, OrdersInRange
<1>2. /\ Signs(ord.user, <<o>>) /\ Close(o, STATE_CANCELLED)
      /\ \/ /\ owner[bc][t] = Nobody /\ GiveToken(bc, t, ord.user)
            /\ UNCHANGED balance
         \/ /\ balance' = Received(balance, ord.user, qc, q)
            /\ UNCHANGED owner
  BY DEF CancelOrder, Verified, Signs
<1>3. OrderConsent
  BY <1>1, <1>2, OrderConsentKept
<1> HIDE DEF ord, qc, q, bc, t
<1>4. ASSUME NEW u \in Key, NEW d \in Contract
      PROVE  ~(balance[u][d] - balance'[u][d] > 0)
  <2>1. CASE UNCHANGED balance
    BY <1>1, <2>1, FieldAssumption DEF L2TypeOK, Felt
  <2> QED
    BY <1>1, <1>2, <2>1, ReceiptMoves
<1>5. \A d \in Contract, s \in Felt : owner[d][s] \in {Nobody, owner'[d][s]}
  BY <1>1, <1>2, TokenLeaves
<1> QED
  BY <1>3, <1>4, <1>5 DEF MoneyConsent, TokenConsent

\* A deposit takes nothing, and a mint makes what nobody had.
LEMMA IntroductionConsent ==
  ASSUME BoundedInv,
         \/ \E m \in DOMAIN toL2 : m.type = "deposit" /\ Deposit(m)
         \/ \E c \in Contract : \E v \in Inputs[c], user \in Recipient, sig \in User :
              Mint(sig, user, v, c)
  PROVE  MoneyConsent /\ TokenConsent /\ OrderConsent
<1>1. L2TypeOK
  BY DEF BoundedInv
<1>2. UNCHANGED balance => MoneyConsent
  BY <1>1, FieldAssumption DEF MoneyConsent, L2TypeOK, Felt
<1>3. ASSUME NEW c \in Contract, NEW t \in Felt, NEW u \in Key,
             GiveToken(c, t, u), owner[c][t] = Nobody
      PROVE  TokenConsent
  <2>1. \A d \in Contract, s \in Felt : owner[d][s] \in {Nobody, owner'[d][s]}
    BY <1>1, <1>3, TokenLeaves
  <2> QED
    BY <2>1 DEF TokenConsent
<1>4. ASSUME NEW m \in DOMAIN toL2, m.type = "deposit", Deposit(m)
      PROVE  MoneyConsent /\ TokenConsent /\ OrderConsent
  <2>1. m \in DepositMessage
    BY <1>1, <1>4 DEF L2TypeOK, Message, RegisterMessage
  <2>2. m.user \in Key /\ m.contract \in Contract /\ m.value \in Felt
    BY <2>1 DEF DepositMessage
  <2>3. m \in DepositsInFlight(m.contract)
    BY <1>4 DEF DepositsInFlight, Deposit
  <2>4. AssertNN(m.value)
    <3>1. /\ balance[m.user][m.contract] \in Nat /\ m.value \in Nat
          /\ balance[m.user][m.contract] + m.value < RangeCheckBound
      BY <2>2, <2>3, WithinSupply, FieldAssumption DEF Felt
    <3> QED
      BY <3>1, FieldAssumption DEF AssertNN
  <2>5. OrderConsent
    BY <1>1, <1>4, OrderConsentKept DEF Deposit
  <2>6. MoneyConsent
    <3>1. CASE balance' = Received(balance, m.user, m.contract, m.value)
      <4>1. \A u \in Key, d \in Contract : ~(balance[u][d] - balance'[u][d] > 0)
        BY <2>2, <2>4, <3>1, ReceiptMoves
      <4> QED
        BY <4>1 DEF MoneyConsent
    <3> QED
      BY <1>2, <1>4, <3>1 DEF Deposit
  <2>7. TokenConsent
    <3>1. CASE UNCHANGED owner
      BY <3>1 DEF TokenConsent
    <3> QED
      BY <1>3, <1>4, <2>2, <3>1 DEF Deposit
  <2> QED
    BY <2>5, <2>6, <2>7
<1>5. ASSUME NEW c \in Contract, NEW v \in Inputs[c], NEW user \in Recipient,
             NEW sig \in User, Mint(sig, user, v, c)
      PROVE  MoneyConsent /\ TokenConsent /\ OrderConsent
  <2>1. v \in Felt /\ user \in Key
    BY InputsAreFelts, L2Assumption
  <2>2. /\ GiveToken(c, v, user) /\ owner[c][v] = Nobody
        /\ UNCHANGED <<balance, order>>
    BY <1>5 DEF Mint
  <2>3. OrderConsent
    BY <1>1, <2>2, OrderConsentKept
  <2> QED
    BY <1>2, <1>3, <2>1, <2>2, <2>3
<1> QED
  BY <1>4, <1>5

\* Nothing leaves a user who never signed that it go there: under a bounded
\* supply, for any number of users, contracts and orders, and whatever each has
\* signed, a balance falls, a token leaves its owner and an order is closed
\* only as somebody's signed inputs say: what, how much and to whom; the
\* user of a fulfilled order has signed its terms.  How often one signature is
\* used is not bounded.  Without the bound on the supply a receipt can wrap
\* around and empty a balance.
THEOREM HoldersConsent == BoundedSpec => HolderConsents
<1> DEFINE Consent == MoneyConsent /\ TokenConsent /\ OrderConsent
<1>1. L2Init => OrdersSigned
  BY DEF L2Init, StorageInit, NoOrder, OrdersSigned
<1>2. BoundedInv /\ OrdersSigned /\ [BoundedNext]_l2vars => OrdersSigned'
  BY OrdersSignedStep DEF BoundedInv, BoundedNext
<1>3. ASSUME BoundedInv, UNCHANGED <<balance, owner, order>> PROVE Consent
  <2>1. L2TypeOK
    BY <1>3 DEF BoundedInv
  <2>2. MoneyConsent
    BY <1>3, <2>1, FieldAssumption DEF MoneyConsent, L2TypeOK, Felt
  <2>3. TokenConsent
    BY <1>3 DEF TokenConsent
  <2> QED
    BY <1>3, <2>1, <2>2, <2>3, OrderConsentKept
<1>4. ASSUME BoundedInv, OrdersSigned, [L2Next]_l2vars PROVE Consent
  <2>1. CASE UNCHANGED l2vars \/ L1Step
    BY <1>3, <1>4, <2>1 DEF l2vars, storage, L1Step, L1Sends, L1Consumes
  <2>2. CASE L1Handler
    <3>1. ASSUME NEW m, RegisterContract(m) PROVE Consent
      BY <1>3, <1>4, <3>1 DEF RegisterContract
    <3>2. ASSUME NEW m \in DOMAIN toL2, m.type = "deposit", Deposit(m)
          PROVE  Consent
      BY <1>4, <3>2, IntroductionConsent
    <3> HIDE DEF Consent
    <3> QED
      BY <2>2, <3>1, <3>2 DEF L1Handler
  <2>3. ASSUME NEW sig \in User, Minting(sig) PROVE Consent
    BY <1>4, <2>3, IntroductionConsent DEF Minting
  <2>4. ASSUME NEW sig \in User, Transaction(sig) PROVE Consent
    <3>1. ASSUME NEW paus, SetPause(sig, paus) PROVE Consent
      BY <1>3, <1>4, <3>1 DEF SetPause
    <3>2. ASSUME NEW user, NEW a, RegisterClient(sig, user, a) PROVE Consent
      BY <1>3, <1>4, <3>2 DEF RegisterClient
    <3> HIDE DEF Consent
    <3>3. ASSUME NEW c \in Contract, NEW v \in Inputs[c], NEW user \in User,
                 NEW a \in Address, Withdraw(sig, user, v, c, a)
          PROVE  Consent
      BY <1>4, <3>3, WithdrawConsent DEF Consent
    <3>4. ASSUME NEW c \in Contract, NEW v \in Inputs[c], NEW from \in User,
                 NEW to \in Recipient, Transfer(sig, from, to, v, c)
          PROVE  Consent
      BY <1>4, <3>4, TransferConsent DEF Consent
    <3>5. ASSUME NEW o \in OrderId, NEW user \in User, NEW bid \in {ASK, BID},
                 NEW bc \in Contract, NEW qc \in Contract, NEW t \in Inputs[bc],
                 NEW q \in Inputs[qc],
                 CreateOrder(sig, o, user, bid, bc, t, qc, q)
          PROVE  Consent
      BY <1>4, <3>5, CreateOrderConsent DEF Consent
    <3>6. ASSUME NEW o \in OrderId, NEW user \in User, FulfillOrder(sig, o, user)
          PROVE  Consent
      BY <1>4, <3>6, FulfillConsent DEF Consent
    <3>7. ASSUME NEW o \in OrderId, CancelOrder(sig, o) PROVE Consent
      BY <1>4, <3>7, CancelConsent DEF Consent
    <3> QED
      BY <2>4, <3>1, <3>2, <3>3, <3>4, <3>5, <3>6, <3>7 DEF Transaction
  <2> HIDE DEF Consent
  <2> QED
    BY <1>4, <2>1, <2>2, <2>3, <2>4 DEF L2Next
<1>5. BoundedInv /\ OrdersSigned /\ [BoundedNext]_l2vars
        => [MoneyConsent /\ TokenConsent /\ OrderConsent]_l2vars
  BY <1>4 DEF BoundedNext
<1> QED
  BY <1>1, <1>2, <1>5, BoundedInvariant, PTL DEF BoundedSpec, HolderConsents

-----------------------------------------------------------------------------
(***************************************************************************)
(* Accounting: what a step does to the sums.                               *)
(***************************************************************************)

\* What order o holds back from u's balance in c.
Hold(o, u, c) == IF o \in OpenBids(u, c) THEN order[o].quote_amount ELSE 0

\* A step that touches one order changes what is reserved by that order's share.
LEMMA ReservedChange ==
  ASSUME L2TypeOK, L2TypeOK', NEW o \in OrderId,
         \A p \in OrderId \ {o} : order'[p] = order[p],
         NEW u \in Key, NEW c \in Contract
  PROVE  Reserved(u, c)' = Reserved(u, c) - Hold(o, u, c) + Hold(o, u, c)'
<1> DEFINE S == OpenBids(u, c)
           T == OpenBids(u, c)'
           f == [p \in S |-> order[p].quote_amount]
           g == [p \in T |-> order'[p].quote_amount]
<1>1. /\ f \in [S -> Nat] /\ SumFunction(f) \in Nat
      /\ Reserved(u, c) = SumFunction(f)
  BY ReservedNat DEF Reserved
<1>2. /\ g \in [T -> Nat] /\ Reserved(u, c)' = SumFunction(g)
  <2>1. \A p \in T : order'[p].quote_amount \in Nat
    BY FieldAssumption DEF OpenBids, L2TypeOK, LimitOrder, Felt
  <2> QED
    BY <2>1 DEF Reserved
<1>3. IsFiniteSet(S) /\ IsFiniteSet(T)
  <2>1. S \subseteq OrderId /\ T \subseteq OrderId
    BY DEF OpenBids
  <2> QED
    BY <2>1, L2Assumption, FS_Subset
<1>4. S \ {o} = T \ {o}
  BY DEF OpenBids, Open
<1>5. \A p \in S \ {o} : f[p] = g[p]
  BY <1>4 DEF OpenBids
<1>6. /\ Hold(o, u, c) = IF o \in S THEN f[o] ELSE 0
      /\ Hold(o, u, c)' = IF o \in T THEN g[o] ELSE 0
  BY DEF Hold
<1>7. f \in [S -> Int] /\ g \in [T -> Int]
  BY <1>1, <1>2
<1>8. \A p \in S \ {o} : g[p] = f[p]
  BY <1>5
<1> HIDE DEF S, T, f, g
<1>9. SumFunction(g) = SumFunction(f) - (IF o \in S THEN f[o] ELSE 0)
                                      + (IF o \in T THEN g[o] ELSE 0)
  BY <1>3, <1>4, <1>7, <1>8, SumFunctionChange
<1> QED
  BY <1>1, <1>2, <1>6, <1>9

\* A step that touches no order changes nothing that is reserved.
LEMMA ReservedSame ==
  ASSUME UNCHANGED order, NEW u, NEW c
  PROVE  Reserved(u, c)' = Reserved(u, c)
BY DEF Reserved, OpenBids, Open

\* What is owed follows the wealth of the one or two users that a step touches.
LEMMA OwedChange ==
  ASSUME L2TypeOK, L2TypeOK', NEW c \in Contract,
         NEW x \in Key, NEW y \in Key,
         \A u \in Key \ {x, y} : Wealth(u, c)' = Wealth(u, c)
  PROVE  Owed(c)' = Owed(c) + (Wealth(x, c)' - Wealth(x, c))
             + (IF x = y THEN 0 ELSE Wealth(y, c)' - Wealth(y, c))
<1> DEFINE f == [u \in Key |-> Wealth(u, c)]
           g == [u \in Key |-> Wealth(u, c)']
<1>1. f \in [Key -> Nat] /\ Owed(c) = SumFunction(f)
  BY WealthNat DEF Owed
<1>2. ASSUME NEW u \in Key PROVE Wealth(u, c)' \in Nat
  <2>1. Reserved(u, c)' \in Nat
    <3> DEFINE h == [p \in OpenBids(u, c)' |-> order'[p].quote_amount]
    <3>1. h \in [OpenBids(u, c)' -> Nat]
      BY FieldAssumption DEF OpenBids, L2TypeOK, LimitOrder, Felt
    <3>2. OpenBids(u, c)' \subseteq OrderId
      BY DEF OpenBids
    <3>3. IsFiniteSet(OpenBids(u, c)')
      BY <3>2, L2Assumption, FS_Subset
    <3>4. Reserved(u, c)' = SumFunction(h)
      BY DEF Reserved
    <3> HIDE DEF h
    <3> QED
      BY <3>1, <3>3, <3>4, SumFunctionNat
  <2>2. balance'[u][c] \in Nat
    BY FieldAssumption DEF L2TypeOK, Felt
  <2> QED
    BY <2>1, <2>2 DEF Wealth
<1>3. g \in [Key -> Nat] /\ Owed(c)' = SumFunction(g)
  BY <1>2 DEF Owed
<1>4. \A u \in Key : f[u] = Wealth(u, c) /\ g[u] = Wealth(u, c)'
  OBVIOUS
<1> HIDE DEF f, g
<1>5. CASE x = y
  <2>1. \A u \in Key \ {x} : g[u] = f[u]
    BY <1>4, <1>5
  <2>2. SumFunction(g) = SumFunction(f) - f[x] + g[x] /\ SumFunction(f) \in Int
    BY <1>1, <1>3, <2>1, FiniteKeys, SumFunctionUpdate
  <2> QED
    BY <1>1, <1>3, <1>4, <1>5, <2>2
<1>6. CASE x # y
  <2>1. \A u \in Key \ {x, y} : g[u] = f[u]
    BY <1>4
  <2>2. /\ SumFunction(g) = SumFunction(f) - f[x] - f[y] + g[x] + g[y]
        /\ SumFunction(f) \in Int
    BY <1>1, <1>3, <1>6, <2>1, FiniteKeys, SumFunctionUpdateTwo
  <2> QED
    BY <1>1, <1>3, <1>4, <1>6, <2>2
<1> QED
  BY <1>5, <1>6

\* A message that comes or goes carries its amount with it.
LEMMA CarriedRemove ==
  ASSUME NEW B, IsABag(B), NEW M, M \subseteq DOMAIN B, IsFiniteSet(M),
         \A n \in M : n.value \in Nat, NEW m \in DOMAIN B,
         NEW N, N = M \cap DOMAIN BagRemove(B, m)
  PROVE  Carried(BagRemove(B, m), N)
           = Carried(B, M) - (IF m \in M THEN m.value ELSE 0)
<1> DEFINE R == BagRemove(B, m)
           f == [n \in M |-> B[n] * n.value]
           g == [n \in N |-> R[n] * n.value]
<1>1. f \in [M -> Nat] /\ Carried(B, M) = SumFunction(f) /\ Carried(B, M) \in Nat
  BY CarriedNat DEF Carried
<1>2. \A n \in DOMAIN B : B[n] \in Nat \ {0}
  BY DEF IsABag
<1>3. /\ B[m] = 1 => DOMAIN R = DOMAIN B \ {m}
      /\ B[m] # 1 => DOMAIN R = DOMAIN B /\ R[m] = B[m] - 1
      /\ \A n \in DOMAIN R \ {m} : R[n] = B[n]
  BY DEF BagRemove, IsABag
<1>4. Carried(R, N) = SumFunction(g)
  BY DEF Carried
<1>5. \A n \in N : R[n] \in Nat
  BY <1>2, <1>3
<1>6. g \in [N -> Nat]
  <2>1. \A n \in N : R[n] * n.value \in Nat
    BY <1>5
  <2> QED
    BY <2>1
<1>7. \A n \in N \ {m} : g[n] = f[n]
  BY <1>3
<1>8. f \in [M -> Int] /\ g \in [N -> Int] /\ M \ {m} = N \ {m}
  BY <1>1, <1>3, <1>6
<1>9. IsFiniteSet(N)
  BY FS_Subset
<1>10. SumFunction(g) = SumFunction(f) - (IF m \in M THEN f[m] ELSE 0)
                                       + (IF m \in N THEN g[m] ELSE 0)
  <2> HIDE DEF f, g
  <2> QED
    BY <1>7, <1>8, <1>9, SumFunctionChange
<1>11. CASE m \notin M
  BY <1>1, <1>4, <1>10, <1>11
<1>12. CASE m \in M /\ B[m] = 1
  <2>1. m \notin N /\ f[m] = m.value
    BY <1>3, <1>12
  <2> HIDE DEF f, g
  <2> QED
    BY <1>1, <1>4, <1>10, <1>12, <2>1
<1>13. CASE m \in M /\ B[m] # 1
  <2>1. m \in N
    BY <1>3, <1>13
  <2>2. f[m] = B[m] * m.value /\ g[m] = (B[m] - 1) * m.value
    BY <1>3, <1>13, <2>1
  <2>3. g[m] = f[m] - m.value
    <3> DEFINE b == B[m]
               v == m.value
    <3>1. b \in Nat /\ v \in Nat /\ f[m] = b * v /\ g[m] = (b - 1) * v
      BY <1>2, <1>13, <2>2
    <3> HIDE DEF b, v, f, g
    <3>2. (b - 1) * v = b * v - v
      BY <3>1
    <3> QED
      BY <3>1, <3>2 DEF v
  <2>4. f[m] \in Int /\ m.value \in Int
    BY <1>1, <1>13
  <2> HIDE DEF f, g
  <2> QED
    BY <1>1, <1>4, <1>10, <1>13, <2>1, <2>3, <2>4
<1> QED
  BY <1>11, <1>12, <1>13

\* The same for a message that comes: removing it again changes nothing else.
LEMMA CarriedAdd ==
  ASSUME NEW B, IsABag(B), NEW m, NEW N, N \subseteq DOMAIN B \cup {m},
         IsFiniteSet(N), \A n \in N : n.value \in Nat,
         NEW M, M = N \cap DOMAIN B
  PROVE  Carried(BagAdd(B, m), N)
           = Carried(B, M) + (IF m \in N THEN m.value ELSE 0)
<1> DEFINE A == BagAdd(B, m)
<1>1. IsABag(A) /\ DOMAIN A = DOMAIN B \cup {m}
  BY BagDomains, BagTyping
<1>2. BagRemove(A, m) = B
  <2>1. B \in [DOMAIN B -> {n \in Nat : n > 0}]
    BY DEF IsABag
  <2>2. CASE m \in DOMAIN B
    <3>1. A = [B EXCEPT ![m] = B[m] + 1]
      BY <2>2 DEF BagAdd
    <3>2. B[m] \in Nat /\ B[m] > 0
      BY <2>1, <2>2
    <3>3. DOMAIN A = DOMAIN B /\ A[m] = B[m] + 1 /\ A[m] # 1
          /\ \A n \in DOMAIN B \ {m} : A[n] = B[n]
      BY <2>1, <2>2, <3>1, <3>2
    <3>4. BagRemove(A, m) = [A EXCEPT ![m] = A[m] - 1]
      BY <2>2, <3>3 DEF BagRemove
    <3>5. A[m] - 1 = B[m]
      BY <3>2, <3>3
    <3>6. BagRemove(A, m) = [A EXCEPT ![m] = B[m]]
      BY <3>4, <3>5
    <3>7. [[B EXCEPT ![m] = B[m] + 1] EXCEPT ![m] = B[m]] = B
      BY <2>1, <2>2
    <3> QED
      BY <3>1, <3>6, <3>7
  <2>3. CASE m \notin DOMAIN B
    BY <2>1, <2>3 DEF BagAdd, BagRemove
  <2> QED
    BY <2>2, <2>3
<1> HIDE DEF A
<1>3. Carried(B, M) = Carried(A, N) - (IF m \in N THEN m.value ELSE 0)
  BY <1>1, <1>2, CarriedRemove
<1>4. Carried(A, N) \in Nat
  BY <1>1, CarriedNat
<1> QED
  BY <1>3, <1>4 DEF A

\* Taking the prime away is invisible modulo the prime.
LEMMA ModuloPrime ==
  ASSUME NEW a \in Int, NEW b \in Int, a = b \/ a = b - P
  PROVE  a % P = b % P
<1>1. P \in Nat \ {0}
  BY FieldAssumption
<1> DEFINE q == b \div P
           r == b % P
<1>2. q \in Int /\ r \in Int /\ 0 <= r /\ r < P
  BY <1>1
<1>3. b = P * q + r
  BY <1>1
<1> HIDE DEF q, r
<1>4. b - P = P * (q - 1) + r
  BY <1>1, <1>2, <1>3
<1>5. \A k \in Int : (P * k + r) % P = r
  BY <1>1, <1>2
<1>6. (b - P) % P = r
  BY <1>2, <1>4, <1>5
<1> QED
  BY <1>6 DEF r

\* What is on the way in shrinks by a deposit that the handler accepts.
LEMMA IncomingHandled ==
  ASSUME L2TypeOK, FiniteBags, NEW m, HandleMessageFromL1(m),
         NEW c \in Contract
  PROVE  Incoming(c)' = Incoming(c)
                          - (IF m \in DepositsInFlight(c) THEN m.value ELSE 0)
<1> DEFINE M == DepositsInFlight(c)
           N == DepositsInFlight(c)'
<1>1. IsABag(toL2) /\ m \in DOMAIN toL2 /\ toL2' = BagRemove(toL2, m)
  BY DEF HandleMessageFromL1, L2TypeOK
<1>2. M \subseteq DOMAIN toL2 /\ N = M \cap DOMAIN BagRemove(toL2, m)
  BY <1>1, BagDomains DEF DepositsInFlight
<1>3. IsFiniteSet(M)
  BY <1>2, FS_Subset DEF FiniteBags
<1>4. \A n \in M : n.value \in Nat
  BY FieldAssumption
  DEF DepositsInFlight, L2TypeOK, Message, RegisterMessage, DepositMessage, Felt
<1>5. Incoming(c) = Carried(toL2, M) /\ Incoming(c)' = Carried(toL2', N)
  BY DEF Incoming, Carried
<1> HIDE DEF M, N
<1>6. Carried(BagRemove(toL2, m), N)
        = Carried(toL2, M) - (IF m \in M THEN m.value ELSE 0)
  BY <1>1, <1>2, <1>3, <1>4, CarriedRemove
<1> QED
  BY <1>1, <1>5, <1>6 DEF M

\* What is on the way out grows by a withdrawal.
LEMMA OutgoingSent ==
  ASSUME L2TypeOK, FiniteBags, NEW m \in WithdrawMessage, SendMessageToL1(m),
         NEW c \in Contract
  PROVE  Outgoing(c)' = Outgoing(c) + (IF m.contract = c THEN m.value ELSE 0)
<1> DEFINE M == WithdrawalsInFlight(c)
           N == WithdrawalsInFlight(c)'
<1>1. IsABag(toL1) /\ toL1' = BagAdd(toL1, m) /\ DOMAIN toL1' = DOMAIN toL1 \cup {m}
  BY BagDomains DEF SendMessageToL1, L2TypeOK
<1>2. /\ N \subseteq DOMAIN toL1 \cup {m} /\ M = N \cap DOMAIN toL1
      /\ m \in N <=> m.contract = c
  BY <1>1 DEF WithdrawalsInFlight
<1>3. IsFiniteSet(N)
  <2> DEFINE D == DOMAIN toL1 \cup {m}
  <2>1. IsFiniteSet(D)
    BY FS_AddElement DEF FiniteBags
  <2>2. N \subseteq D
    BY <1>2
  <2> HIDE DEF M, N, D
  <2> QED
    BY <2>1, <2>2, FS_Subset
<1>4. \A n \in N : n.value \in Nat
  <2>1. N \subseteq WithdrawMessage
    BY <1>2 DEF L2TypeOK
  <2>2. \A n \in WithdrawMessage : n.value \in Nat
    BY FieldAssumption DEF WithdrawMessage, Felt
  <2> QED
    BY <2>1, <2>2
<1>5. Outgoing(c) = Carried(toL1, M) /\ Outgoing(c)' = Carried(toL1', N)
  BY DEF Outgoing, Carried
<1> HIDE DEF M, N
<1>6. Carried(BagAdd(toL1, m), N)
        = Carried(toL1, M) + (IF m \in N THEN m.value ELSE 0)
  BY <1>1, <1>2, <1>3, <1>4, CarriedAdd
<1> QED
  BY <1>1, <1>2, <1>5, <1>6

-----------------------------------------------------------------------------
(***************************************************************************)
(* What each entry point does to wealth.                                   *)
(***************************************************************************)

\* What the receiver of v gains: v, unless the balance wraps.
Gain(b, u, c, v) == FeltAdd(b[u][c], v) - b[u][c]

\* v for user x and contract d, nothing for the others.
At(u, c, x, d, v) == IF u = x /\ c = d THEN v ELSE 0

\* A wrapping receipt loses the prime, and one in range loses nothing.
LEMMA GainIsExact ==
  ASSUME NEW b \in [Key -> [Contract -> Felt]], NEW u \in Key,
         NEW c \in Contract, NEW v \in Felt
  PROVE  /\ Gain(b, u, c, v) \in {v, v - P}
         /\ (b[u][c] < RangeCheckBound /\ v < RangeCheckBound)
               => Gain(b, u, c, v) = v
BY FieldAssumption DEF Gain, FeltAdd, Felt

\* A payment that assert_nn accepts takes v from one balance.
LEMMA PaidMoves ==
  ASSUME NEW b \in [Key -> [Contract -> Felt]], NEW u \in Key,
         NEW c \in Contract, NEW v \in Felt, AssertNN(v), CanPay(b, u, c, v)
  PROVE  \A w \in Key, d \in Contract :
           /\ Paid(b, u, c, v)[w][d] = b[w][d] - At(w, d, u, c, v)
           /\ b[w][d] \in Nat
<1> TAKE w \in Key, d \in Contract
<1>1. b[w][d] \in Felt /\ b[u][c] \in Felt
  OBVIOUS
<1>2. b[w][d] \in Nat /\ b[u][c] \in Nat /\ v \in Nat
  BY <1>1, FieldAssumption DEF Felt
<1>3. FeltSub(b[u][c], v) = b[u][c] - v
  BY <1>1, PaymentExact DEF CanPay
<1>4. Paid(b, u, c, v)[w][d]
        = IF w = u /\ d = c THEN FeltSub(b[u][c], v) ELSE b[w][d]
  BY PaidOnly
<1> QED
  BY <1>2, <1>3, <1>4 DEF At

\* A receipt adds the gain to one balance.
LEMMA ReceivedMoves ==
  ASSUME NEW b \in [Key -> [Contract -> Felt]], NEW u \in Key,
         NEW c \in Contract, NEW v \in Felt
  PROVE  \A w \in Key, d \in Contract :
           /\ Received(b, u, c, v)[w][d]
                = b[w][d] + At(w, d, u, c, Gain(b, u, c, v))
           /\ b[w][d] \in Nat
<1> TAKE w \in Key, d \in Contract
<1>1. b[w][d] \in Felt /\ b[u][c] \in Felt
  OBVIOUS
<1>2. FeltAdd(b[u][c], v) \in Felt
  BY <1>1, FeltClosed
<1>3. /\ b[w][d] \in Nat /\ b[u][c] \in Nat /\ v \in Nat
      /\ FeltAdd(b[u][c], v) \in Nat
  BY <1>1, <1>2, FieldAssumption DEF Felt
<1>4. Received(b, u, c, v)[w][d]
        = IF w = u /\ d = c THEN FeltAdd(b[u][c], v) ELSE b[w][d]
  BY PaidOnly
<1> QED
  BY <1>3, <1>4 DEF At, Gain

\* Wealth moves as balances do when no order changes.
LEMMA WealthOfDeposit ==
  ASSUME L2TypeOK, NEW m \in DepositMessage, Deposit(m), Fungible(m.contract),
         NEW u \in Key, NEW c \in Contract
  PROVE  Wealth(u, c)' = Wealth(u, c)
           + At(u, c, m.user, m.contract,
                  Gain(balance, m.user, m.contract, m.value))
<1>1. /\ balance' = Received(balance, m.user, m.contract, m.value)
      /\ UNCHANGED order
  BY DEF Deposit
<1>2. m.user \in Key /\ m.contract \in Contract /\ m.value \in Felt
  BY DEF DepositMessage
<1>3. balance \in [Key -> [Contract -> Felt]]
  BY DEF L2TypeOK
<1>4. Reserved(u, c)' = Reserved(u, c) /\ Reserved(u, c) \in Nat
  BY <1>1, ReservedSame, ReservedNat
<1> DEFINE g == Gain(balance, m.user, m.contract, m.value)
<1>5. g \in Int
  BY <1>2, <1>3, GainIsExact, FieldAssumption DEF Felt
<1>6. /\ Received(balance, m.user, m.contract, m.value)[u][c]
           = balance[u][c] + At(u, c, m.user, m.contract, g)
      /\ balance[u][c] \in Nat
  <2> DEFINE x == m.user  d == m.contract  v == m.value
  <2>1. x \in Key /\ d \in Contract /\ v \in Felt
    BY <1>2
  <2> HIDE DEF x, d, v
  <2>2. /\ Received(balance, x, d, v)[u][c]
             = balance[u][c] + At(u, c, x, d, Gain(balance, x, d, v))
        /\ balance[u][c] \in Nat
    BY <1>3, <2>1, ReceivedMoves
  <2> QED
    BY <2>2 DEF x, d, v
<1> HIDE DEF g
<1> QED
  BY <1>1, <1>4, <1>5, <1>6 DEF Wealth, g, At

\* withdraw takes its amount from one user.
LEMMA WealthOfWithdraw ==
  ASSUME L2TypeOK, NEW sig, NEW user \in Key, NEW v \in Felt,
         NEW d \in Contract, NEW a, Withdraw(sig, user, v, d, a), Fungible(d),
         NEW u \in Key, NEW c \in Contract
  PROVE  Wealth(u, c)' = Wealth(u, c) - At(u, c, user, d, v)
<1>1. /\ AssertNN(v) /\ CanPay(balance, user, d, v)
      /\ balance' = Paid(balance, user, d, v) /\ UNCHANGED order
  BY DEF Withdraw
<1>2. balance \in [Key -> [Contract -> Felt]] /\ v \in Nat
  BY FieldAssumption DEF L2TypeOK, Felt
<1>3. Reserved(u, c)' = Reserved(u, c) /\ Reserved(u, c) \in Nat
  BY <1>1, ReservedSame, ReservedNat
<1>4. balance'[u][c] = balance[u][c] - At(u, c, user, d, v)
      /\ balance[u][c] \in Nat
  <2>1. /\ Paid(balance, user, d, v)[u][c]
             = balance[u][c] - At(u, c, user, d, v)
        /\ balance[u][c] \in Nat
    BY <1>1, <1>2, PaidMoves
  <2> QED
    BY <1>1, <2>1
<1> QED
  BY <1>2, <1>3, <1>4 DEF Wealth, At

\* A payment from one balance to another: what transfer and fulfill_order do.
LEMMA BalanceOfPayment ==
  ASSUME L2TypeOK, NEW from \in Key, NEW to \in Key, NEW d \in Contract,
         NEW v \in Felt, AssertNN(v), CanPay(balance, from, d, v),
         balance' = Received(Paid(balance, from, d, v), to, d, v),
         NEW u \in Key, NEW c \in Contract
  PROVE  /\ balance'[u][c] = balance[u][c] - At(u, c, from, d, v)
                + At(u, c, to, d, Gain(Paid(balance, from, d, v), to, d, v))
         /\ Gain(Paid(balance, from, d, v), to, d, v) \in {v, v - P}
         /\ balance[u][c] \in Nat
<1>1. balance \in [Key -> [Contract -> Felt]]
  BY DEF L2TypeOK
<1>2. Paid(balance, from, d, v) \in [Key -> [Contract -> Felt]]
  BY <1>1, CustodyTyping
<1>3. PICK p \in [Key -> [Contract -> Felt]] : p = Paid(balance, from, d, v)
  BY <1>2
<1>4. /\ Paid(balance, from, d, v)[u][c] = balance[u][c] - At(u, c, from, d, v)
      /\ balance[u][c] \in Nat
  BY <1>1, PaidMoves
<1>5. Received(p, to, d, v)[u][c] = p[u][c] + At(u, c, to, d, Gain(p, to, d, v))
  BY ReceivedMoves
<1>6. Gain(p, to, d, v) \in {v, v - P}
  BY GainIsExact
<1> QED
  BY <1>3, <1>4, <1>5, <1>6

\* transfer takes from one user what it gives to the other, or to the same.
LEMMA WealthOfTransfer ==
  ASSUME L2TypeOK, NEW sig, NEW from \in Key, NEW to \in Key, NEW v \in Felt,
         NEW d \in Contract, Transfer(sig, from, to, v, d), Fungible(d),
         NEW u \in Key, NEW c \in Contract
  PROVE  Wealth(u, c)' = Wealth(u, c) - At(u, c, from, d, v)
           + At(u, c, to, d, Gain(Paid(balance, from, d, v), to, d, v))
<1> DEFINE g == Gain(Paid(balance, from, d, v), to, d, v)
<1>1. /\ AssertNN(v) /\ CanPay(balance, from, d, v) /\ UNCHANGED order
      /\ balance' = Received(Paid(balance, from, d, v), to, d, v)
  BY DEF Transfer
<1>2. Reserved(u, c)' = Reserved(u, c) /\ Reserved(u, c) \in Nat
  BY <1>1, ReservedSame, ReservedNat
<1>3. /\ balance'[u][c] = balance[u][c] - At(u, c, from, d, v)
                             + At(u, c, to, d, g)
      /\ g \in {v, v - P} /\ balance[u][c] \in Nat
  BY <1>1, BalanceOfPayment
<1>4. v \in Int /\ g \in Int
  BY <1>3, FieldAssumption DEF Felt
<1> HIDE DEF g
<1> QED
  BY <1>2, <1>3, <1>4 DEF Wealth, At, g

\* A new order moves nothing: what a bid takes from the balance it holds.
LEMMA WealthOfCreateOrder ==
  ASSUME L2TypeOK, L2TypeOK', NEW sig, NEW o \in OrderId, NEW user \in Key,
         NEW bid \in {ASK, BID}, NEW bc, NEW t, NEW qc \in Contract,
         NEW q \in Felt, user # Nobody,
         CreateOrder(sig, o, user, bid, bc, t, qc, q),
         NEW u \in Key, NEW c \in Contract
  PROVE  Wealth(u, c)' = Wealth(u, c)
<1>1. \A p \in OrderId \ {o} : order'[p] = order[p]
  BY DEF CreateOrder, L2TypeOK
<1>2. order'[o] = [user |-> user, bid |-> bid, base_contract |-> bc,
                   base_token_id |-> t, quote_contract |-> qc,
                   quote_amount |-> q, state |-> STATE_NEW]
  BY DEF CreateOrder, L2TypeOK
<1>3. Hold(o, u, c) = 0
  BY DEF CreateOrder, Hold, OpenBids, Open
<1>4. Hold(o, u, c)' = (IF bid = BID THEN At(u, c, user, qc, q) ELSE 0)
  BY <1>2 DEF Hold, OpenBids, Open, At
<1>5. Reserved(u, c)' = Reserved(u, c) - Hold(o, u, c) + Hold(o, u, c)'
  BY <1>1, ReservedChange
<1>6. Reserved(u, c) \in Nat /\ q \in Nat
  BY ReservedNat, FieldAssumption DEF Felt
<1>7. balance'[u][c] = balance[u][c] - (IF bid = BID THEN At(u, c, user, qc, q) ELSE 0)
      /\ balance[u][c] \in Nat
  <2>0. balance \in [Key -> [Contract -> Felt]]
    BY DEF L2TypeOK
  <2>1. CASE bid = ASK
    BY <2>0, <2>1, FieldAssumption DEF CreateOrder, At, ASK, BID, Felt
  <2>2. CASE bid = BID
    <3>1. /\ AssertNN(q) /\ CanPay(balance, user, qc, q)
          /\ balance' = Paid(balance, user, qc, q)
      BY <2>2 DEF CreateOrder, ASK, BID
    <3> QED
      BY <2>0, <2>2, <3>1, PaidMoves DEF At
  <2> QED
    BY <2>1, <2>2
<1> QED
  BY <1>3, <1>4, <1>5, <1>6, <1>7 DEF Wealth, At

\* What closing an order frees.
LEMMA ReservedOfClose ==
  ASSUME L2TypeOK, L2TypeOK', NEW o \in OrderId, Open(order[o]),
         NEW s \in {STATE_FULFILLED, STATE_CANCELLED}, Close(o, s),
         NEW u \in Key, NEW c \in Contract
  PROVE  /\ Reserved(u, c)' = Reserved(u, c)
              - (IF order[o].bid = BID
                 THEN At(u, c, order[o].user, order[o].quote_contract,
                         order[o].quote_amount)
                 ELSE 0)
         /\ Reserved(u, c) \in Nat
<1>1. /\ \A p \in OrderId \ {o} : order'[p] = order[p]
      /\ order'[o].state = s
  BY DEF Close, L2TypeOK, LimitOrder
<1>2. Hold(o, u, c)' = 0
  BY <1>1 DEF Hold, OpenBids, Open, STATE_NEW, STATE_FULFILLED, STATE_CANCELLED
<1>3. Hold(o, u, c) = (IF order[o].bid = BID
                 THEN At(u, c, order[o].user, order[o].quote_contract,
                         order[o].quote_amount)
                 ELSE 0)
  BY DEF Hold, OpenBids, At
<1>4. Reserved(u, c)' = Reserved(u, c) - Hold(o, u, c) + Hold(o, u, c)'
  BY <1>1, ReservedChange
<1>5. Reserved(u, c) \in Nat /\ order[o].quote_amount \in Nat
  <2>1. order[o].quote_amount \in Felt
    BY DEF L2TypeOK, LimitOrder
  <2> QED
    BY <2>1, ReservedNat, FieldAssumption DEF Felt
<1> QED
  BY <1>2, <1>3, <1>4, <1>5 DEF At

\* A trade moves the amount from the buyer to the seller: out of the balance of
\* whoever takes an ask, out of the hold of a bid.
LEMMA WealthOfFulfillOrder ==
  ASSUME L2TypeOK, L2TypeOK', OrdersInRange, NEW sig, NEW o \in OrderId,
         NEW user \in Key, FulfillOrder(sig, o, user),
         NEW ord, ord = order[o], NEW qc, qc = ord.quote_contract,
         NEW q, q = ord.quote_amount,
         NEW u \in Key, NEW c \in Contract
  PROVE  /\ ord.bid = ASK =>
              Wealth(u, c)' = Wealth(u, c) - At(u, c, user, qc, q)
                + At(u, c, ord.user, qc,
                       Gain(Paid(balance, user, qc, q), ord.user, qc, q))
         /\ ord.bid = BID =>
              Wealth(u, c)' = Wealth(u, c) - At(u, c, ord.user, qc, q)
                + At(u, c, user, qc, Gain(balance, user, qc, q))
<1>1. /\ ord.user \in Key /\ qc \in Contract /\ q \in Felt /\ AssertNN(q)
      /\ q \in Nat
  <2>1. ord \in LimitOrder
    BY DEF L2TypeOK
  <2>2. ord.user \in Key /\ qc \in Contract /\ q \in Felt
    BY <2>1 DEF LimitOrder
  <2>3. AssertNN(q)
    BY DEF OrdersInRange
  <2> QED
    BY <2>2, <2>3, FieldAssumption DEF Felt
<1>2. Open(ord) /\ Close(o, STATE_FULFILLED)
  BY DEF FulfillOrder
<1>3. /\ Reserved(u, c)' = Reserved(u, c)
            - (IF ord.bid = BID THEN At(u, c, ord.user, qc, q) ELSE 0)
      /\ Reserved(u, c) \in Nat
  BY <1>2, ReservedOfClose
<1>4. ASSUME ord.bid = ASK
      PROVE  Wealth(u, c)' = Wealth(u, c) - At(u, c, user, qc, q)
                + At(u, c, ord.user, qc,
                       Gain(Paid(balance, user, qc, q), ord.user, qc, q))
  <2> DEFINE g == Gain(Paid(balance, user, qc, q), ord.user, qc, q)
  <2>1. /\ CanPay(balance, user, qc, q)
        /\ balance' = Received(Paid(balance, user, qc, q), ord.user, qc, q)
    BY <1>4 DEF FulfillOrder, ASK, BID
  <2>2. /\ balance'[u][c] = balance[u][c] - At(u, c, user, qc, q)
                               + At(u, c, ord.user, qc, g)
        /\ g \in {q, q - P} /\ balance[u][c] \in Nat
    BY <1>1, <2>1, BalanceOfPayment
  <2>3. g \in Int
    BY <1>1, <2>2, FieldAssumption
  <2>4. Reserved(u, c)' = Reserved(u, c)
    BY <1>3, <1>4 DEF At, ASK, BID
  <2> HIDE DEF g
  <2> QED
    BY <1>1, <1>3, <2>2, <2>3, <2>4 DEF Wealth, At, g
<1>5. ASSUME ord.bid = BID
      PROVE  Wealth(u, c)' = Wealth(u, c) - At(u, c, ord.user, qc, q)
                + At(u, c, user, qc, Gain(balance, user, qc, q))
  <2> DEFINE g == Gain(balance, user, qc, q)
  <2>1. balance' = Received(balance, user, qc, q)
    BY <1>5 DEF FulfillOrder, ASK, BID
  <2>2. balance \in [Key -> [Contract -> Felt]]
    BY DEF L2TypeOK
  <2>3. /\ balance'[u][c] = balance[u][c] + At(u, c, user, qc, g)
        /\ balance[u][c] \in Nat
    BY <1>1, <2>1, <2>2, ReceivedMoves
  <2>4. g \in Int
    BY <1>1, <2>2, GainIsExact, FieldAssumption
  <2> HIDE DEF g
  <2> QED
    BY <1>1, <1>3, <1>5, <2>3, <2>4 DEF Wealth, At, g
<1> QED
  BY <1>4, <1>5

\* A refund moves the amount from the hold of the bid to the balance.
LEMMA WealthOfCancelOrder ==
  ASSUME L2TypeOK, L2TypeOK', NEW sig, NEW o \in OrderId, CancelOrder(sig, o),
         NEW ord, ord = order[o], NEW qc, qc = ord.quote_contract,
         NEW q, q = ord.quote_amount,
         NEW u \in Key, NEW c \in Contract
  PROVE  /\ ord.bid = ASK => Wealth(u, c)' = Wealth(u, c)
         /\ ord.bid = BID =>
              Wealth(u, c)' = Wealth(u, c) - At(u, c, ord.user, qc, q)
                + At(u, c, ord.user, qc, Gain(balance, ord.user, qc, q))
<1>1. ord.user \in Key /\ qc \in Contract /\ q \in Felt /\ q \in Nat
  <2>1. ord \in LimitOrder
    BY DEF L2TypeOK
  <2>2. ord.user \in Key /\ qc \in Contract /\ q \in Felt
    BY <2>1 DEF LimitOrder
  <2> QED
    BY <2>2, FieldAssumption DEF Felt
<1>2. Open(ord) /\ Close(o, STATE_CANCELLED)
  BY DEF CancelOrder
<1>3. /\ Reserved(u, c)' = Reserved(u, c)
            - (IF ord.bid = BID THEN At(u, c, ord.user, qc, q) ELSE 0)
      /\ Reserved(u, c) \in Nat
  BY <1>2, ReservedOfClose
<1>4. balance \in [Key -> [Contract -> Felt]]
  BY DEF L2TypeOK
<1>5. ASSUME ord.bid = ASK PROVE Wealth(u, c)' = Wealth(u, c)
  <2>1. balance' = balance
    BY <1>5 DEF CancelOrder, ASK, BID
  <2>2. balance[u][c] \in Nat
    BY <1>4, FieldAssumption DEF Felt
  <2> QED
    BY <1>3, <1>5, <2>1, <2>2 DEF Wealth, At, ASK, BID
<1>6. ASSUME ord.bid = BID
      PROVE  Wealth(u, c)' = Wealth(u, c) - At(u, c, ord.user, qc, q)
                + At(u, c, ord.user, qc, Gain(balance, ord.user, qc, q))
  <2> DEFINE g == Gain(balance, ord.user, qc, q)
  <2>1. balance' = Received(balance, ord.user, qc, q)
    BY <1>6 DEF CancelOrder, ASK, BID
  <2>2. /\ balance'[u][c] = balance[u][c] + At(u, c, ord.user, qc, g)
        /\ balance[u][c] \in Nat
    BY <1>1, <1>4, <2>1, ReceivedMoves
  <2>3. g \in Int
    BY <1>1, <1>4, GainIsExact, FieldAssumption
  <2> HIDE DEF g
  <2> QED
    BY <1>1, <1>3, <1>6, <2>2, <2>3 DEF Wealth, At, g
<1> QED
  BY <1>5, <1>6
-----------------------------------------------------------------------------
(***************************************************************************)
(* Conservation of value.                                                  *)
(***************************************************************************)
\* The wealth in c moves by a payment of v in d by x, of which y gains g.
Flows(c, x, y, d, v, g) ==
  \A u \in Key : Wealth(u, c)' = Wealth(u, c) - At(u, c, x, d, v)
                                             + At(u, c, y, d, g)

\* What is owed follows the two sides of a payment.
LEMMA OwedMoved ==
  ASSUME L2TypeOK, L2TypeOK', NEW c \in Contract, NEW d \in Contract,
         NEW x \in Key, NEW y \in Key, NEW v \in Int, NEW g \in Int,
         Flows(c, x, y, d, v, g)
  PROVE  Owed(c)' = Owed(c) + (IF c = d THEN g - v ELSE 0) /\ Owed(c) \in Nat
<1>1. /\ Owed(c) \in Nat
      /\ Wealth(x, c) \in Int /\ Wealth(y, c) \in Int
  <2>1. Owed(c) \in Nat /\ [u \in Key |-> Wealth(u, c)] \in [Key -> Nat]
    BY WealthNat
  <2> QED
    BY <2>1
<1>2. \A u \in Key \ {x, y} : Wealth(u, c)' = Wealth(u, c)
  <2> TAKE u \in Key \ {x, y}
  <2>1. Wealth(u, c) \in Int
    <3>1. [w \in Key |-> Wealth(w, c)] \in [Key -> Nat]
      BY WealthNat
    <3> QED
      BY <3>1
  <2>2. At(u, c, x, d, v) = 0 /\ At(u, c, y, d, g) = 0
    BY DEF At
  <2> QED
    BY <2>1, <2>2 DEF Flows
<1>3. Owed(c)' = Owed(c) + (Wealth(x, c)' - Wealth(x, c))
                   + (IF x = y THEN 0 ELSE Wealth(y, c)' - Wealth(y, c))
  BY <1>2, OwedChange
<1>4. /\ Wealth(x, c)' = Wealth(x, c) - At(x, c, x, d, v) + At(x, c, y, d, g)
      /\ Wealth(y, c)' = Wealth(y, c) - At(y, c, x, d, v) + At(y, c, y, d, g)
  BY DEF Flows
<1>5. CASE c = d
  BY <1>1, <1>3, <1>4, <1>5 DEF At
<1>6. CASE c # d
  BY <1>1, <1>3, <1>4, <1>6 DEF At
<1> QED
  BY <1>5, <1>6

\* What the contract owes of c is kept, or falls by P because a balance wrapped.
Kept(c) == InSystem(c)' \in {InSystem(c), InSystem(c) - P}

\* A step that sends and handles no message and moves wealth by a payment.
LEMMA PaymentConserves ==
  ASSUME L2TypeOK, FiniteBags, L2TypeOK', UNCHANGED <<toL2, toL1>>,
         NEW x \in Key, NEW y \in Key, NEW d \in Contract,
         NEW v \in Int, NEW g \in Int, g \in {v, v - P}, NEW c \in Contract,
         Flows(c, x, y, d, v, g)
  PROVE  Kept(c)
<1>1. P \in Nat
  BY FieldAssumption
<1>2. Owed(c)' = Owed(c) + (IF c = d THEN g - v ELSE 0) /\ Owed(c) \in Nat
  BY OwedMoved
<1>3. Incoming(c)' = Incoming(c) /\ Outgoing(c)' = Outgoing(c)
  BY DEF Incoming, Outgoing, Carried, DepositsInFlight, WithdrawalsInFlight
<1>4. Incoming(c) \in Nat /\ Outgoing(c) \in Nat
  BY InFlightNat
<1> QED
  BY <1>1, <1>2, <1>3, <1>4 DEF InSystem, Kept

\* A step that moves no wealth and no message of c.
LEMMA NothingMoves ==
  ASSUME UNCHANGED <<balance, order, toL2, toL1>>, NEW c
  PROVE  InSystem(c)' = InSystem(c)
BY DEF InSystem, Owed, Wealth, Reserved, OpenBids, Open, Incoming, Outgoing,
       Carried, DepositsInFlight, WithdrawalsInFlight

\* A deposit moves its amount from the message to the user.
LEMMA DepositConserves ==
  ASSUME L2TypeOK, FiniteBags, L2TypeOK', NEW m \in DOMAIN toL2, Deposit(m),
         NEW c \in Contract, description[c].kind # KIND_ERC721
  PROVE  Kept(c)
<1>1. m \in DepositMessage
  BY DEF L2TypeOK, Message, RegisterMessage, DepositMessage, Deposit
<1> DEFINE x == m.user  d == m.contract  v == m.value
<1>2. x \in Key /\ d \in Contract /\ v \in Felt
  BY <1>1 DEF DepositMessage
<1>3. P \in Nat /\ v \in Nat
  BY <1>2, FieldAssumption DEF Felt
<1>4. m \in DepositsInFlight(c) <=> d = c
  BY DEF DepositsInFlight, Deposit
<1>5. Incoming(c)' = Incoming(c) - (IF d = c THEN v ELSE 0)
  <2>1. HandleMessageFromL1(m)
    BY DEF Deposit
  <2> QED
    BY <1>4, <2>1, IncomingHandled
<1>6. Outgoing(c)' = Outgoing(c)
  BY DEF Outgoing, Carried, WithdrawalsInFlight, Deposit
<1>7. Incoming(c) \in Nat /\ Outgoing(c) \in Nat
  BY InFlightNat
<1>8. CASE Fungible(d)
  <2> DEFINE g == Gain(balance, x, d, v)
  <2>1. g \in {v, v - P}
    <3>1. balance \in [Key -> [Contract -> Felt]]
      BY DEF L2TypeOK
    <3> QED
      BY <1>2, <3>1, GainIsExact
  <2>2. \A u \in Key : Wealth(u, c)' = Wealth(u, c) + At(u, c, x, d, g)
    BY <1>1, <1>8, WealthOfDeposit
  <2>3. \A u \in Key : At(u, c, x, d, 0) = 0
    BY DEF At
  <2>4. g \in Int
    BY <1>3, <2>1
  <2> HIDE DEF g, x, d, v
  <2>5. \A u \in Key : Wealth(u, c) \in Int
    <3>1. [u \in Key |-> Wealth(u, c)] \in [Key -> Nat]
      BY WealthNat
    <3> QED
      BY <3>1
  <2>6. Flows(c, x, x, d, 0, g)
    BY <2>2, <2>3, <2>5 DEF Flows
  <2>7. Owed(c)' = Owed(c) + (IF c = d THEN g - 0 ELSE 0) /\ Owed(c) \in Nat
    BY <1>2, <2>4, <2>6, OwedMoved
  <2> QED
    BY <1>3, <1>5, <1>6, <1>7, <2>1, <2>7 DEF InSystem, Kept
<1>9. CASE ~Fungible(d)
  <2>1. d # c /\ balance' = balance /\ order' = order
    BY <1>9 DEF Deposit, Fungible, Kind
  <2>2. Owed(c)' = Owed(c)
    BY <2>1 DEF Owed, Wealth, Reserved, OpenBids, Open
  <2>3. Owed(c) \in Nat
    BY WealthNat
  <2> QED
    BY <1>5, <1>6, <1>7, <2>1, <2>2, <2>3 DEF InSystem, Kept
<1> QED
  BY <1>8, <1>9

\* A withdrawal moves its amount from the user to the message.
LEMMA WithdrawConserves ==
  ASSUME L2TypeOK, FiniteBags, L2TypeOK', NEW sig, NEW user \in Key,
         NEW v \in Felt, NEW d \in Contract, NEW a \in Address,
         Withdraw(sig, user, v, d, a), NEW c \in Contract,
         description[c].kind # KIND_ERC721
  PROVE  InSystem(c)' = InSystem(c)
<1> DEFINE m == [address |-> a, value |-> v, contract |-> d, org |-> origin[d][v]]
<1>1. m \in WithdrawMessage /\ SendMessageToL1(m) /\ UNCHANGED toL2
  BY DEF WithdrawMessage, Withdraw, L2TypeOK
<1>2. v \in Nat
  BY FieldAssumption DEF Felt
<1>3. Outgoing(c)' = Outgoing(c) + (IF d = c THEN v ELSE 0)
  <2>1. m.contract = d /\ m.value = v
    OBVIOUS
  <2> HIDE DEF m
  <2> QED
    BY <1>1, <2>1, OutgoingSent
<1>4. Incoming(c)' = Incoming(c)
  BY <1>1 DEF Incoming, Carried, DepositsInFlight
<1>5. Incoming(c) \in Nat /\ Outgoing(c) \in Nat
  BY InFlightNat
<1> HIDE DEF m
<1>6. CASE Fungible(d)
  <2>1. \A u \in Key : Wealth(u, c)' = Wealth(u, c) - At(u, c, user, d, v)
    BY <1>6, WealthOfWithdraw
  <2>2. \A u \in Key : At(u, c, user, d, 0) = 0 /\ At(u, c, user, d, v) \in Int
    BY <1>2 DEF At
  <2>3. \A u \in Key : Wealth(u, c) \in Int
    <3>1. [u \in Key |-> Wealth(u, c)] \in [Key -> Nat]
      BY WealthNat
    <3> QED
      BY <3>1
  <2>4. Flows(c, user, user, d, v, 0)
    BY <2>1, <2>2, <2>3 DEF Flows
  <2>5. Owed(c)' = Owed(c) + (IF c = d THEN 0 - v ELSE 0) /\ Owed(c) \in Nat
    BY <1>2, <2>4, OwedMoved
  <2> QED
    BY <1>2, <1>3, <1>4, <1>5, <2>5 DEF InSystem
<1>7. CASE ~Fungible(d)
  <2>1. d # c /\ balance' = balance /\ order' = order
    BY <1>7 DEF Withdraw, Fungible, Kind
  <2>2. Owed(c)' = Owed(c)
    BY <2>1 DEF Owed, Wealth, Reserved, OpenBids, Open
  <2>3. Owed(c) \in Nat
    BY WealthNat
  <2> QED
    BY <1>3, <1>4, <1>5, <2>1, <2>2, <2>3 DEF InSystem
<1> QED
  BY <1>6, <1>7

\* A transfer moves its amount between users.
LEMMA TransferConserves ==
  ASSUME L2TypeOK, FiniteBags, L2TypeOK', NEW sig, NEW from \in Key,
         NEW to \in Key, NEW v \in Felt, NEW d \in Contract,
         Transfer(sig, from, to, v, d), NEW c \in Contract
  PROVE  Kept(c)
<1>1. UNCHANGED <<toL2, toL1>>
  BY DEF Transfer
<1>2. CASE Fungible(d)
  <2> DEFINE g == Gain(Paid(balance, from, d, v), to, d, v)
  <2>1. Flows(c, from, to, d, v, g)
    BY <1>2, WealthOfTransfer DEF Flows
  <2>2. g \in {v, v - P}
    <3>1. Paid(balance, from, d, v) \in [Key -> [Contract -> Felt]]
      BY CustodyTyping DEF L2TypeOK
    <3> QED
      BY <3>1, GainIsExact
  <2>3. v \in Int /\ g \in Int
    <3>1. v \in Int /\ P \in Int
      BY FieldAssumption DEF Felt
    <3> HIDE DEF g
    <3> QED
      BY <2>2, <3>1
  <2> HIDE DEF g
  <2> QED
    BY <1>1, <2>1, <2>2, <2>3, PaymentConserves
<1>3. CASE ~Fungible(d)
  <2>1. UNCHANGED <<balance, order, toL2, toL1>>
    BY <1>3 DEF Transfer
  <2> QED
    BY <2>1, NothingMoves DEF Kept
<1> QED
  BY <1>2, <1>3

\* A bid moves its amount from the balance to the order.
LEMMA CreateOrderConserves ==
  ASSUME L2TypeOK, FiniteBags, L2TypeOK', NEW sig, NEW o \in OrderId,
         NEW user \in Key, NEW bid \in {ASK, BID}, NEW bc, NEW t,
         NEW qc \in Contract, NEW q \in Felt, user # Nobody,
         CreateOrder(sig, o, user, bid, bc, t, qc, q), NEW c \in Contract
  PROVE  InSystem(c)' = InSystem(c)
<1>1. \A u \in Key : Wealth(u, c)' = Wealth(u, c)
  BY WealthOfCreateOrder
<1>2. Owed(c)' = Owed(c)
  BY <1>1 DEF Owed
<1>3. UNCHANGED <<toL2, toL1>>
  BY DEF CreateOrder
<1> QED
  BY <1>2, <1>3 DEF InSystem, Incoming, Outgoing, Carried, DepositsInFlight,
                    WithdrawalsInFlight

\* A trade moves its amount from the taker, or the bid, to the other side.
LEMMA FulfillOrderConserves ==
  ASSUME L2TypeOK, FiniteBags, OrdersInRange, L2TypeOK', NEW sig,
         NEW o \in OrderId, NEW user \in Key, FulfillOrder(sig, o, user),
         NEW c \in Contract
  PROVE  Kept(c)
<1> DEFINE ord == order[o]  qc == ord.quote_contract  q == ord.quote_amount
           holder == ord.user
<1>1. UNCHANGED <<toL2, toL1>>
  BY DEF FulfillOrder
<1>2. holder \in Key /\ qc \in Contract /\ q \in Felt /\ ord.bid \in {ASK, BID}
  <2>1. ord \in LimitOrder
    BY DEF L2TypeOK
  <2> QED
    BY <2>1 DEF LimitOrder
<1>3. q \in Int
  BY <1>2, FieldAssumption DEF Felt
<1>4. balance \in [Key -> [Contract -> Felt]]
  BY DEF L2TypeOK
<1>5. CASE ord.bid = ASK
  <2> DEFINE g == Gain(Paid(balance, user, qc, q), holder, qc, q)
  <2>1. Flows(c, user, holder, qc, q, g)
    BY <1>5, WealthOfFulfillOrder DEF Flows
  <2>2. g \in {q, q - P}
    <3> HIDE DEF qc, q, holder
    <3>1. Paid(balance, user, qc, q) \in [Key -> [Contract -> Felt]]
      BY <1>2, <1>4, CustodyTyping
    <3> QED
      BY <1>2, <3>1, GainIsExact
  <2> HIDE DEF g, qc, q, holder, ord
  <2>3. g \in Int
    BY <1>3, <2>2, FieldAssumption
  <2> QED
    BY <1>1, <1>2, <1>3, <2>1, <2>2, <2>3, PaymentConserves
<1>6. CASE ord.bid = BID
  <2> DEFINE g == Gain(balance, user, qc, q)
  <2>1. Flows(c, holder, user, qc, q, g)
    BY <1>6, WealthOfFulfillOrder DEF Flows
  <2>2. g \in {q, q - P}
    <3> HIDE DEF qc, q, holder
    <3> QED
      BY <1>2, <1>4, GainIsExact
  <2> HIDE DEF g, qc, q, holder, ord
  <2>3. g \in Int
    BY <1>3, <2>2, FieldAssumption
  <2> QED
    BY <1>1, <1>2, <1>3, <2>1, <2>2, <2>3, PaymentConserves
<1> QED
  BY <1>2, <1>5, <1>6

\* A refund moves its amount from the order to the balance.
LEMMA CancelOrderConserves ==
  ASSUME L2TypeOK, FiniteBags, L2TypeOK', NEW sig,
         NEW o \in OrderId, CancelOrder(sig, o), NEW c \in Contract
  PROVE  Kept(c)
<1> DEFINE ord == order[o]  qc == ord.quote_contract  q == ord.quote_amount
           holder == ord.user
<1>1. UNCHANGED <<toL2, toL1>>
  BY DEF CancelOrder
<1>2. holder \in Key /\ qc \in Contract /\ q \in Felt /\ ord.bid \in {ASK, BID}
  <2>1. ord \in LimitOrder
    BY DEF L2TypeOK
  <2> QED
    BY <2>1 DEF LimitOrder
<1>3. q \in Int
  BY <1>2, FieldAssumption DEF Felt
<1>4. balance \in [Key -> [Contract -> Felt]]
  BY DEF L2TypeOK
<1>5. CASE ord.bid = ASK
  <2>1. \A u \in Key : Wealth(u, c)' = Wealth(u, c)
    BY <1>5, WealthOfCancelOrder
  <2>2. Owed(c)' = Owed(c)
    BY <2>1 DEF Owed
  <2>3. InSystem(c)' = InSystem(c)
    BY <1>1, <2>2 DEF InSystem, Incoming, Outgoing, Carried, DepositsInFlight,
                      WithdrawalsInFlight
  <2> QED
    BY <2>3 DEF Kept
<1>6. CASE ord.bid = BID
  <2> DEFINE g == Gain(balance, holder, qc, q)
  <2>1. Flows(c, holder, holder, qc, q, g)
    BY <1>6, WealthOfCancelOrder DEF Flows
  <2>2. g \in {q, q - P}
    <3> HIDE DEF qc, q, holder
    <3> QED
      BY <1>2, <1>4, GainIsExact
  <2> HIDE DEF g, qc, q, holder, ord
  <2>3. g \in Int
    BY <1>3, <2>2, FieldAssumption
  <2> QED
    BY <1>1, <1>2, <1>3, <2>1, <2>2, <2>3, PaymentConserves
<1> QED
  BY <1>2, <1>5, <1>6

\* Every step keeps the types.
LEMMA TypeStep ==
  ASSUME L2TypeOK, [L2Next]_l2vars PROVE L2TypeOK'
<1>1. CASE UNCHANGED l2vars
  BY <1>1 DEF L2TypeOK, l2vars, storage
<1> QED
  BY <1>1, TypeL1, TypeTransaction DEF L2Next

\* The inductive invariant of the exchange without a bound on the supply.
AccountInv == L2TypeOK /\ FiniteBags /\ OrdersInRange

\* It holds without any assumption on the supply.
LEMMA AccountInvariant == L2Spec => []AccountInv
<1>1. L2Init => AccountInv
  BY BoundedInit DEF BoundedInv, AccountInv
<1>2. AccountInv /\ [L2Next]_l2vars => AccountInv'
  BY TypeStep, FiniteBagsStep, OrdersInRangeStep DEF AccountInv
<1> QED
  BY <1>1, <1>2, PTL DEF L2Spec

\* No step but L1's changes what the contract owes and has in flight, but for
\* the P that a wrapping balance loses: of no contract but a collection, which
\* has no amounts.
LEMMA ValueKept ==
  ASSUME AccountInv, NEW c \in Contract, description[c].kind # KIND_ERC721,
         L1Handler \/ \E sig \in User : Minting(sig) \/ Transaction(sig)
  PROVE  Kept(c)
<1>1. L2TypeOK /\ FiniteBags /\ OrdersInRange /\ L2TypeOK'
  BY TypeStep DEF AccountInv, L2Next
<1>2. CASE L1Handler
  <2> PICK m \in DOMAIN toL2 : RegisterContract(m) \/ Deposit(m)
    BY <1>2 DEF L1Handler
  <2>1. CASE Deposit(m)
    BY <1>1, <2>1, DepositConserves
  <2>2. CASE RegisterContract(m)
    <3>1. m.type = "register_contract" /\ HandleMessageFromL1(m)
          /\ UNCHANGED <<balance, order, toL1>>
      BY <2>2 DEF RegisterContract
    <3>2. m \notin DepositsInFlight(c)
      BY <3>1 DEF DepositsInFlight
    <3>3. Incoming(c)' = Incoming(c) - 0 /\ Incoming(c) \in Nat
      BY <1>1, <3>1, <3>2, IncomingHandled, InFlightNat
    <3>4. Owed(c)' = Owed(c) /\ Outgoing(c)' = Outgoing(c)
      BY <3>1 DEF Owed, Wealth, Reserved, OpenBids, Open, Outgoing, Carried,
                  WithdrawalsInFlight
    <3>5. Incoming(c)' = Incoming(c)
      BY <3>3
    <3> QED
      BY <3>4, <3>5 DEF InSystem, Kept
  <2> QED
    BY <2>1, <2>2
<1>3. ASSUME NEW sig \in User, Minting(sig)
      PROVE  Kept(c)
  <2>1. UNCHANGED <<balance, order, toL2, toL1>>
    BY <1>3 DEF Minting, Mint
  <2> QED
    BY <2>1, NothingMoves DEF Kept
<1>4. ASSUME NEW sig \in User, Transaction(sig)
      PROVE  Kept(c)
  <2>1. CASE \/ \E paus \in PauseInput : SetPause(sig, paus)
             \/ \E user \in Registrant, a \in Address :
                  RegisterClient(sig, user, a)
    <3>1. UNCHANGED <<balance, order, toL2, toL1>>
      BY <2>1 DEF SetPause, RegisterClient
    <3>2. InSystem(c)' = InSystem(c)
      BY <3>1, NothingMoves
    <3> QED
      BY <3>2 DEF Kept
  <2>2. ASSUME NEW d \in Contract, NEW v \in Inputs[d],
               NEW user \in User, NEW a \in Address,
               Withdraw(sig, user, v, d, a)
        PROVE  Kept(c)
    <3>1. v \in Felt /\ user \in Key
      BY InputsAreFelts, KeyTyping
    <3>2. InSystem(c)' = InSystem(c)
      BY <1>1, <2>2, <3>1, WithdrawConserves
    <3> QED
      BY <3>2 DEF Kept
  <2>3. ASSUME NEW d \in Contract, NEW v \in Inputs[d],
               NEW from \in User, NEW to \in Recipient,
               Transfer(sig, from, to, v, d)
        PROVE  Kept(c)
    <3>1. v \in Felt /\ from \in Key /\ to \in Key
      BY InputsAreFelts, KeyTyping, L2Assumption
    <3> QED
      BY <1>1, <2>3, <3>1, TransferConserves
  <2>4. ASSUME NEW o \in OrderId, NEW user \in User, NEW bid \in {ASK, BID},
               NEW bc \in Contract, NEW qc \in Contract,
               NEW t \in Inputs[bc], NEW q \in Inputs[qc],
               CreateOrder(sig, o, user, bid, bc, t, qc, q)
        PROVE  Kept(c)
    <3>1. q \in Felt /\ user \in Key /\ user # Nobody
      BY InputsAreFelts, KeyTyping, L2Assumption
    <3>2. InSystem(c)' = InSystem(c)
      BY <1>1, <2>4, <3>1, CreateOrderConserves
    <3> QED
      BY <3>2 DEF Kept
  <2>5. ASSUME NEW o \in OrderId, NEW user \in User,
               FulfillOrder(sig, o, user)
        PROVE  Kept(c)
    BY <1>1, <2>5, KeyTyping, FulfillOrderConserves
  <2>6. ASSUME NEW o \in OrderId, CancelOrder(sig, o)
        PROVE  Kept(c)
    BY <1>1, <2>6, CancelOrderConserves
  <2> QED
    BY <1>4, <2>1, <2>2, <2>3, <2>4, <2>5, <2>6 DEF Transaction
<1> QED
  BY <1>1, <1>2, <1>3, <1>4

\* No step but L1's changes what the contract owes and has in flight, modulo
\* the prime, for any number of users, contracts, orders and messages and for
\* amounts that no bound keeps from wrapping.
THEOREM ConservesValue == L2Spec => ValueConserved
<1> DEFINE Conserved ==
             \/ \A c \in Contract :
                  Fungible(c) => InSystem(c)' % P = InSystem(c) % P
             \/ L1Step
<1>1. ASSUME AccountInv, L2Next PROVE Conserved
  <2> SUFFICES ASSUME ~L1Step, NEW c \in Contract, Fungible(c)
               PROVE  InSystem(c)' % P = InSystem(c) % P
    OBVIOUS
  <2>1. Kept(c)
    BY <1>1, ValueKept DEF L2Next, Fungible, KIND_ERC20, KIND_ERC721
  <2>2. InSystem(c) \in Int
    BY <1>1, WealthNat, InFlightNat DEF AccountInv, InSystem
  <2>3. InSystem(c)' \in Int
    BY <2>1, <2>2, FieldAssumption DEF Kept
  <2> QED
    BY <2>1, <2>2, <2>3, ModuloPrime DEF Kept
<1>2. AccountInv /\ [L2Next]_l2vars => [Conserved]_l2vars
  BY <1>1
<1> QED
  BY <1>2, AccountInvariant, PTL DEF L2Spec, ValueConserved

-----------------------------------------------------------------------------
(***************************************************************************)
(* The exchange implements Wallets: every entry point of the contract is   *)
(* one action of the abstract specification under the mapping of Custody.  *)
(***************************************************************************)

\* The refinement mapping, a function for each variable of Wallets.
WealthMap == [u \in Key |-> [c \in Contract |-> Wealth(u, c)]]
TitleMap == [c \in Contract |-> [t \in Felt |-> Title(c, t)]]
OfferMap == [o \in OrderId |-> Terms(order[o])]
StatusMap == [o \in OrderId |-> Status(order[o])]

CustodyInv == BoundedInv /\ EscrowBacked

-----------------------------------------------------------------------------
\* The terms of an order, and its status, field by field.
LEMMA TermsOf ==
  ASSUME NEW ord \in LimitOrder
  PROVE  /\ Terms(ord).user = ord.user
         /\ Terms(ord).bid = ord.bid
         /\ Terms(ord).base_contract = ord.base_contract
         /\ Terms(ord).base_token_id = ord.base_token_id
         /\ Terms(ord).quote_contract = ord.quote_contract
         /\ Terms(ord).quote_amount = ord.quote_amount
<1>1. DOMAIN ord = {"user", "bid", "base_contract", "base_token_id",
                    "quote_contract", "quote_amount", "state"}
  BY DEF LimitOrder
<1> QED
  BY <1>1 DEF Terms

\* The status is what Open and the state say of an order that is in use.
LEMMA StatusOf ==
  ASSUME NEW ord \in LimitOrder
  PROVE  /\ Status(ord) = "open" <=> Open(ord)
         /\ Status(ord) = "unused" <=> ord.user = Nobody
         /\ ord.user # Nobody /\ ord.state = STATE_FULFILLED =>
              Status(ord) = "settled"
         /\ ord.user # Nobody /\ ord.state = STATE_CANCELLED =>
              Status(ord) = "cancelled"
<1>1. ord.state \in {0, 1, 2}
  BY DEF LimitOrder, STATE_NEW, STATE_FULFILLED, STATE_CANCELLED
<1>2. CASE ord.user = Nobody
  <2>1. Status(ord) = "unused"
    BY <1>2 DEF Status, Open
  <2> QED
    BY <1>2, <2>1 DEF Open
<1>3. CASE ord.user # Nobody /\ ord.state = STATE_NEW
  <2>1. Status(ord) = "open"
    BY <1>3 DEF Status, Open, STATE_NEW, STATE_FULFILLED, STATE_CANCELLED
  <2> QED
    BY <1>3, <2>1 DEF Open, STATE_NEW, STATE_FULFILLED, STATE_CANCELLED
<1>4. CASE ord.user # Nobody /\ ord.state = STATE_FULFILLED
  <2>1. Status(ord) = "settled"
    BY <1>4 DEF Status, Open, STATE_NEW, STATE_FULFILLED, STATE_CANCELLED
  <2> QED
    BY <1>4, <2>1 DEF Open, STATE_NEW, STATE_FULFILLED, STATE_CANCELLED
<1>5. CASE ord.user # Nobody /\ ord.state = STATE_CANCELLED
  <2>1. Status(ord) = "cancelled"
    BY <1>5 DEF Status, Open, STATE_NEW, STATE_FULFILLED, STATE_CANCELLED
  <2> QED
    BY <1>5, <2>1 DEF Open, STATE_NEW, STATE_FULFILLED, STATE_CANCELLED
<1> QED
  BY <1>1, <1>2, <1>3, <1>4, <1>5 DEF STATE_NEW, STATE_FULFILLED, STATE_CANCELLED

\* Wallets sums with the same operator.
LEMMA SameSum == \A f : Abstract!SumFunction(f) = SumFunction(f)
BY DEF Abstract!SumFunction, Abstract!SumFunctionOnSet, Abstract!FoldFunctionOnSet,
       Abstract!MapThenFoldSet,
       SumFunction, SumFunctionOnSet, FoldFunctionOnSet, MapThenFoldSet

\* What is free to spend is the balance.
LEMMA FreeIsBalance ==
  ASSUME L2TypeOK, NEW u \in Key, NEW c \in Contract
  PROVE  Abstract!Free(u, c) = balance[u][c]
<1>1. Abstract!OpenBids(u, c) = OpenBids(u, c)
  <2>1. \A o \in OrderId : order[o] \in LimitOrder
    BY DEF L2TypeOK
  <2> QED
    BY <2>1, TermsOf, StatusOf DEF Abstract!OpenBids, OpenBids
<1> DEFINE f == [o \in OpenBids(u, c) |-> Terms(order[o]).quote_amount]
           g == [o \in OpenBids(u, c) |-> order[o].quote_amount]
<1>2. f = g
  <2>1. \A o \in OpenBids(u, c) : order[o] \in LimitOrder
    BY DEF L2TypeOK, OpenBids
  <2> QED
    BY <2>1, TermsOf
<1>3. Abstract!Free(u, c) = Wealth(u, c) - SumFunction(f)
  <2> DEFINE h == [o \in Abstract!OpenBids(u, c) |-> OfferMap[o].quote_amount]
  <2>1. Abstract!Free(u, c) = WealthMap[u][c] - SumFunction(h)
    BY SameSum DEF Abstract!Free, WealthMap, OfferMap
  <2>2. h = f
    BY <1>1 DEF OfferMap, OpenBids
  <2>3. WealthMap[u][c] = Wealth(u, c)
    BY DEF WealthMap
  <2> HIDE DEF h
  <2> QED
    BY <2>1, <2>2, <2>3
<1>4. SumFunction(f) = Reserved(u, c)
  BY <1>2 DEF Reserved
<1>5. balance[u][c] \in Nat /\ Reserved(u, c) \in Nat
  BY ReservedNat, FieldAssumption DEF L2TypeOK, Felt
<1> HIDE DEF f
<1> QED
  BY <1>3, <1>4, <1>5 DEF Wealth

\* A token is offered when an open ask holds it in escrow.
LEMMA OfferedIsEscrow ==
  ASSUME L2TypeOK, NEW c \in Contract, NEW t \in Felt
  PROVE  Abstract!Offered(c, t) <=> InEscrow(c, t)
<1>1. \A o \in OrderId : order[o] \in LimitOrder
  BY DEF L2TypeOK
<1> QED
  BY <1>1, TermsOf, StatusOf DEF Abstract!Offered, InEscrow, AskFor

\* Who owns a token: the user of the one ask that offers it, or its owner.
LEMMA TitleOf ==
  ASSUME L2TypeOK, EscrowBacked, NEW c \in Contract, NEW t \in Felt
  PROVE  /\ \A o \in OrderId : AskFor(o, c, t) => Title(c, t) = order[o].user
         /\ ~InEscrow(c, t) => Title(c, t) = owner[c][t]
         /\ owner[c][t] # Nobody => ~InEscrow(c, t)
<1>1. owner[c][t] # Nobody => ~InEscrow(c, t)
  BY OwnedNotEscrowed
<1>2. ASSUME NEW o \in OrderId, AskFor(o, c, t)
      PROVE  Title(c, t) = order[o].user
  <2>1. owner[c][t] = Nobody /\ \A p \in OrderId : AskFor(p, c, t) => p = o
    BY <1>2 DEF EscrowBacked
  <2>2. (CHOOSE p \in OrderId : AskFor(p, c, t)) = o
    BY <1>2, <2>1
  <2> QED
    BY <1>2, <2>1, <2>2 DEF Title, InEscrow
<1> QED
  BY <1>1, <1>2 DEF Title

\* The same after a step.
LEMMA TitleOfNext ==
  ASSUME L2TypeOK', EscrowBacked', NEW c \in Contract, NEW t \in Felt
  PROVE  /\ \A o \in OrderId : AskFor(o, c, t)' => Title(c, t)' = order'[o].user
         /\ ~InEscrow(c, t)' => Title(c, t)' = owner'[c][t]
<1>2. ASSUME NEW o \in OrderId, AskFor(o, c, t)'
      PROVE  Title(c, t)' = order'[o].user
  <2>1. owner'[c][t] = Nobody /\ \A p \in OrderId : AskFor(p, c, t)' => p = o
    BY <1>2 DEF EscrowBacked
  <2>2. (CHOOSE p \in OrderId : AskFor(p, c, t)') = o
    BY <1>2, <2>1
  <2> QED
    BY <1>2, <2>1, <2>2 DEF Title, InEscrow
<1> QED
  BY <1>2 DEF Title

-----------------------------------------------------------------------------
\* What leaves the maps alone.
LEMMA OrdersSame ==
  ASSUME UNCHANGED order PROVE UNCHANGED <<OfferMap, StatusMap>>
BY DEF OfferMap, StatusMap

\* Wealth depends on balances and orders only.
LEMMA MoneySame ==
  ASSUME UNCHANGED <<balance, order>> PROVE UNCHANGED WealthMap
BY DEF WealthMap, Wealth, Reserved, OpenBids, Open

\* Titles depend on owners and orders only.
LEMMA TitlesSame ==
  ASSUME UNCHANGED <<owner, order>> PROVE UNCHANGED TitleMap
BY DEF TitleMap, Title, InEscrow, AskFor, Open

\* A payment between two wallets.
LEMMA WealthMoved ==
  ASSUME NEW from \in Key, NEW to \in Key, NEW d \in Contract, NEW v \in Int,
         \A u \in Key, c \in Contract : Wealth(u, c) \in Int,
         \A u \in Key, c \in Contract :
           Wealth(u, c)' = Wealth(u, c) - At(u, c, from, d, v)
                                        + At(u, c, to, d, v)
  PROVE  WealthMap' = Abstract!Moved(WealthMap, from, to, d, v)
<1> DEFINE paid == [WealthMap EXCEPT ![from][d] = @ - v]
           moved == [paid EXCEPT ![to][d] = @ + v]
<1>1. /\ WealthMap \in [Key -> [Contract -> Int]]
      /\ \A u \in Key, c \in Contract : WealthMap[u][c] = Wealth(u, c)
  BY DEF WealthMap
<1>2. /\ paid \in [Key -> [Contract -> Int]]
      /\ \A u \in Key, c \in Contract : paid[u][c] = Wealth(u, c) - At(u, c, from, d, v)
  BY <1>1 DEF At
<1> HIDE DEF paid
<1>3. /\ moved \in [Key -> [Contract -> Int]]
      /\ \A u \in Key, c \in Contract :
           moved[u][c] = Wealth(u, c) - At(u, c, from, d, v) + At(u, c, to, d, v)
  BY <1>2 DEF At
<1> HIDE DEF moved
<1>4. \A u \in Key, c \in Contract : moved[u][c] = Wealth(u, c)'
  BY <1>3
<1>5. moved = WealthMap'
  BY <1>3, <1>4 DEF WealthMap
<1> QED
  BY <1>5 DEF moved, paid, Abstract!Moved

\* A receipt (g = v) or a payment (g = -v) changes one wallet.
LEMMA WealthChanged ==
  ASSUME NEW x \in Key, NEW d \in Contract, NEW g \in Int,
         \A u \in Key, c \in Contract : Wealth(u, c) \in Int,
         \A u \in Key, c \in Contract :
           Wealth(u, c)' = Wealth(u, c) + At(u, c, x, d, g)
  PROVE  WealthMap' = [WealthMap EXCEPT ![x][d] = @ + g]
<1> DEFINE m == [WealthMap EXCEPT ![x][d] = @ + g]
<1>1. /\ WealthMap \in [Key -> [Contract -> Int]]
      /\ \A u \in Key, c \in Contract : WealthMap[u][c] = Wealth(u, c)
  BY DEF WealthMap
<1>2. /\ m \in [Key -> [Contract -> Int]]
      /\ \A u \in Key, c \in Contract : m[u][c] = Wealth(u, c) + At(u, c, x, d, g)
  BY <1>1 DEF At
<1> HIDE DEF m
<1>3. m = WealthMap'
  BY <1>2 DEF WealthMap
<1> QED
  BY <1>3 DEF m

\* A token that is not in escrow gets another owner.
LEMMA TitleGiven ==
  ASSUME L2TypeOK, EscrowBacked, L2TypeOK', EscrowBacked', UNCHANGED order,
         NEW c \in Contract, NEW t \in Felt, NEW u \in Key,
         ~InEscrow(c, t), GiveToken(c, t, u)
  PROVE  TitleMap' = [TitleMap EXCEPT ![c][t] = u]
<1>1. ASSUME NEW d \in Contract, NEW s \in Felt
      PROVE  Title(d, s)' = IF d = c /\ s = t THEN u ELSE Title(d, s)
  <2>1. owner'[d][s] = IF d = c /\ s = t THEN u ELSE owner[d][s]
    BY OwnerWrite
  <2>2. \A o \in OrderId : AskFor(o, d, s)' <=> AskFor(o, d, s)
    BY DEF AskFor, Open
  <2>3. InEscrow(d, s)' <=> InEscrow(d, s)
    BY <2>2 DEF InEscrow
  <2>4. CASE InEscrow(d, s)
    <3>1. PICK o \in OrderId : AskFor(o, d, s)
      BY <2>4 DEF InEscrow
    <3>2. Title(d, s) = order[o].user
      BY <3>1, TitleOf
    <3>3. Title(d, s)' = order'[o].user
      BY <2>2, <3>1, TitleOfNext
    <3> QED
      BY <2>4, <3>2, <3>3
  <2>5. CASE ~InEscrow(d, s)
    <3>1. Title(d, s) = owner[d][s]
      BY <2>5, TitleOf
    <3>2. Title(d, s)' = owner'[d][s]
      BY <2>3, <2>5, TitleOfNext
    <3> QED
      BY <2>1, <3>1, <3>2
  <2> QED
    BY <2>4, <2>5
<1> DEFINE m == [TitleMap EXCEPT ![c][t] = u]
<1>2. \A d \in Contract, s \in Felt :
        m[d][s] = IF d = c /\ s = t THEN u ELSE Title(d, s)
  BY DEF TitleMap
<1>3. m = [d \in Contract |-> [s \in Felt |-> m[d][s]]]
  BY DEF TitleMap
<1> HIDE DEF m
<1>4. m = [d \in Contract |-> [s \in Felt |-> Title(d, s)']]
  BY <1>1, <1>2, <1>3
<1> QED
  BY <1>4 DEF m, TitleMap

\* Closing an order changes its status and none of the terms.
LEMMA OrderClosed ==
  ASSUME L2TypeOK, L2TypeOK', NEW o \in OrderId, Open(order[o]),
         NEW s \in {STATE_FULFILLED, STATE_CANCELLED}, Close(o, s)
  PROVE  /\ UNCHANGED OfferMap
         /\ StatusMap[o] = "open"
         /\ StatusMap' = [StatusMap EXCEPT ![o] =
                            IF s = STATE_FULFILLED THEN "settled" ELSE "cancelled"]
<1>1. order[o] \in LimitOrder /\ order'[o] \in LimitOrder
  BY DEF L2TypeOK
<1>2. /\ \A p \in OrderId \ {o} : order'[p] = order[p]
      /\ order'[o] = [order[o] EXCEPT !.state = s]
  BY DEF Close, L2TypeOK
<1>3. Terms(order'[o]) = Terms(order[o])
  <2>1. DOMAIN order'[o] = DOMAIN order[o]
    BY <1>1, <1>2
  <2>2. \A f \in DOMAIN order[o] \ {"state"} : order'[o][f] = order[o][f]
    BY <1>1, <1>2
  <2> QED
    BY <2>1, <2>2 DEF Terms
<1>4. order'[o].user = order[o].user /\ order'[o].state = s
  BY <1>1, <1>2 DEF LimitOrder
<1>5. Status(order'[o]) = IF s = STATE_FULFILLED THEN "settled" ELSE "cancelled"
  BY <1>1, <1>4, StatusOf DEF Open, STATE_FULFILLED, STATE_CANCELLED
<1>6. Status(order[o]) = "open"
  BY <1>1, StatusOf
<1>7. OfferMap' = OfferMap
  BY <1>2, <1>3 DEF OfferMap
<1>8. \A p \in OrderId :
        Status(order'[p])
          = IF p = o
            THEN IF s = STATE_FULFILLED THEN "settled" ELSE "cancelled"
            ELSE Status(order[p])
  BY <1>2, <1>5
<1> QED
  BY <1>6, <1>7, <1>8 DEF StatusMap

-----------------------------------------------------------------------------
\* Amounts that stay below the bound: a receipt gains all that was paid.
LEMMA WealthInt ==
  ASSUME L2TypeOK PROVE \A u \in Key, c \in Contract : Wealth(u, c) \in Int
<1> TAKE u \in Key, c \in Contract
<1>1. [w \in Key |-> Wealth(w, c)] \in [Key -> Nat]
  BY WealthNat
<1> QED
  BY <1>1

\* A deposit credits a wallet or introduces a token.
LEMMA DepositStep ==
  ASSUME CustodyInv, CustodyInv', NEW m \in DOMAIN toL2, Deposit(m),
         ~InEscrow(m.contract, m.value)
  PROVE  Abstract!Money \/ Abstract!Titles
<1>1. m \in DepositMessage
  BY DEF CustodyInv, BoundedInv, L2TypeOK, Message, RegisterMessage,
         DepositMessage, Deposit
<1>2. m.user \in Key /\ m.contract \in Contract /\ m.value \in Felt
  BY <1>1 DEF DepositMessage
<1>3. L2TypeOK /\ L2TypeOK' /\ EscrowBacked /\ EscrowBacked'
  BY DEF CustodyInv, BoundedInv
<1>4. UNCHANGED order /\ signer' = Nobody /\ Nobody \in Key
  BY KeyTyping DEF Deposit
<1>5. UNCHANGED <<OfferMap, StatusMap>>
  BY <1>4, OrdersSame
<1> DEFINE x == m.user  d == m.contract  v == m.value
<1>6. CASE Fungible(d)
  <2>1. /\ balance[x][d] \in Nat /\ v \in Nat
        /\ balance[x][d] + v < RangeCheckBound
    <3>1. m \in DepositsInFlight(d)
      BY DEF DepositsInFlight, Deposit
    <3>2. v \in Nat
      BY <1>2, FieldAssumption DEF Felt
    <3> QED
      BY <1>2, <3>1, <3>2, WithinSupply DEF CustodyInv
  <2>2. Gain(balance, x, d, v) = v
    BY <1>2, <2>1, FieldAssumption DEF Gain, FeltAdd
  <2>3. \A u \in Key, c \in Contract :
          Wealth(u, c)' = Wealth(u, c) + At(u, c, x, d, v)
    <3>1. \A u \in Key, c \in Contract :
            Wealth(u, c)' = Wealth(u, c) + At(u, c, x, d, Gain(balance, x, d, v))
      BY <1>1, <1>3, <1>6, WealthOfDeposit
    <3> QED
      BY <2>2, <3>1
  <2>4. v \in 0 .. RangeCheckBound - 1 /\ v \in Int
    BY <2>1, FieldAssumption
  <2>5. UNCHANGED TitleMap
    <3>1. UNCHANGED owner
      BY <1>6 DEF Deposit
    <3> QED
      BY <1>4, <3>1, TitlesSame
  <2> HIDE DEF x, d, v
  <2>6. WealthMap' = [WealthMap EXCEPT ![x][d] = @ + v]
    BY <1>2, <1>3, <2>3, <2>4, WealthInt, WealthChanged DEF x, d
  <2>7. Abstract!Credit(x, d, v)
    BY <1>4, <2>6 DEF Abstract!Credit, WealthMap
  <2>8. Abstract!Money
    BY <1>2, <1>5, <2>4, <2>5, <2>7
    DEF Abstract!Money, TitleMap, OfferMap, StatusMap, x, d
  <2> QED
    BY <2>8
<1>7. CASE ~Fungible(d)
  <2>1. /\ owner[d][v] = Nobody /\ GiveToken(d, v, x)
        /\ UNCHANGED balance
    BY <1>7 DEF Deposit
  <2> HIDE DEF x, d, v
  <2>2. TitleMap' = [TitleMap EXCEPT ![d][v] = x]
    BY <1>2, <1>3, <1>4, <2>1, TitleGiven DEF x, d, v
  <2>3. UNCHANGED WealthMap
    BY <1>4, <2>1, MoneySame
  <2>4. TitleMap[d][v] = Nobody
    <3>1. Title(d, v) = owner[d][v]
      BY <1>2, <1>3, TitleOf DEF d, v
    <3> QED
      BY <1>2, <2>1, <3>1 DEF TitleMap, d, v
  <2>5. Abstract!Introduce(x, d, v)
    BY <1>4, <2>2, <2>4 DEF Abstract!Introduce, TitleMap
  <2>6. Abstract!Titles
    BY <1>2, <1>5, <2>3, <2>5
    DEF Abstract!Titles, WealthMap, OfferMap, StatusMap, x, d, v
  <2> QED
    BY <2>6
<1> QED
  BY <1>6, <1>7

\* The exchange takes a payment when the payer's balance covers it.
LEMMA PaymentCovered ==
  ASSUME L2TypeOK, NEW u \in Key, NEW c \in Contract, NEW v \in Felt,
         AssertNN(v), CanPay(balance, u, c, v)
  PROVE  /\ v \in 0 .. RangeCheckBound - 1
         /\ v <= Abstract!Free(u, c)
<1>1. v \in Nat /\ v < RangeCheckBound
  BY FieldAssumption DEF Felt, AssertNN
<1>2. balance[u][c] \in Felt
  BY DEF L2TypeOK
<1>3. v <= balance[u][c]
  BY <1>2, PaymentExact DEF CanPay
<1> QED
  BY <1>1, <1>3, FreeIsBalance, FieldAssumption

\* A payment from one user to another gains the receiver what was paid.
LEMMA PaymentGain ==
  ASSUME BoundedInv, NEW from \in Key, NEW to \in Key, NEW c \in Contract,
         NEW v \in Felt, AssertNN(v), CanPay(balance, from, c, v)
  PROVE  Gain(Paid(balance, from, c, v), to, c, v) = v
<1>1. /\ balance[to][c] \in Nat /\ balance[to][c] < RangeCheckBound
      /\ v \in Nat /\ v < RangeCheckBound
  <2>1. /\ balance[to][c] \in Nat /\ Reserved(to, c) \in Nat
        /\ balance[to][c] + Reserved(to, c) < RangeCheckBound
    BY WithinSupply
  <2>2. v \in Nat /\ RangeCheckBound \in Nat
    BY FieldAssumption DEF Felt
  <2> QED
    BY <2>1, <2>2 DEF AssertNN
<1>2. balance \in [Key -> [Contract -> Felt]]
  BY DEF BoundedInv, L2TypeOK
<1>3. PICK p \in [Key -> [Contract -> Felt]] : p = Paid(balance, from, c, v)
  BY <1>2, CustodyTyping DEF BoundedInv
<1>4. Paid(balance, from, c, v)[to][c] = balance[to][c] - At(to, c, from, c, v)
  BY <1>2, PaidMoves
<1>5. p[to][c] < RangeCheckBound
  <2>1. RangeCheckBound \in Nat
    BY FieldAssumption
  <2> QED
    BY <1>1, <1>3, <1>4, <2>1 DEF At
<1>6. Gain(p, to, c, v) = v
  BY <1>1, <1>5, GainIsExact
<1> QED
  BY <1>3, <1>6

\* A withdrawal debits the wallet of its signer, or ends a title of theirs.
LEMMA WithdrawStep ==
  ASSUME CustodyInv, CustodyInv', NEW sig, NEW user \in User, NEW v \in Felt,
         NEW d \in Contract, NEW a \in Address, Withdraw(sig, user, v, d, a)
  PROVE  Abstract!Money \/ Abstract!Titles
<1>1. L2TypeOK /\ L2TypeOK' /\ EscrowBacked /\ EscrowBacked'
  BY DEF CustodyInv, BoundedInv
<1>2. user \in Key /\ user # Nobody /\ Nobody \in Key
  BY KeyTyping, L2Assumption
<1>3. UNCHANGED order /\ signer' = user
  BY DEF Withdraw, Verified
<1>4. UNCHANGED <<OfferMap, StatusMap>>
  BY <1>3, OrdersSame
<1>5. CASE Fungible(d)
  <2>1. /\ AssertNN(v) /\ CanPay(balance, user, d, v) /\ UNCHANGED owner
    BY <1>5 DEF Withdraw
  <2>2. v \in 0 .. RangeCheckBound - 1 /\ v <= Abstract!Free(user, d)
    BY <1>1, <1>2, <2>1, PaymentCovered
  <2>3. v \in Int /\ 0 - v \in Int
    BY <2>2, FieldAssumption
  <2>4. \A u \in Key, c \in Contract :
          Wealth(u, c)' = Wealth(u, c) - At(u, c, user, d, v)
    BY <1>1, <1>2, <1>5, WealthOfWithdraw
  <2>5. \A u \in Key, c \in Contract :
          Wealth(u, c)' = Wealth(u, c) + At(u, c, user, d, 0 - v)
    BY <1>1, <2>3, <2>4, WealthInt DEF At
  <2>6. WealthMap' = [WealthMap EXCEPT ![user][d] = @ + (0 - v)]
    BY <1>1, <1>2, <2>3, <2>5, WealthInt, WealthChanged
  <2>7. WealthMap' = [WealthMap EXCEPT ![user][d] = @ - v]
    <3>1. WealthMap[user][d] \in Int
      BY <1>1, <1>2, WealthInt DEF WealthMap
    <3>2. WealthMap[user][d] + (0 - v) = WealthMap[user][d] - v
      BY <2>3, <3>1
    <3> QED
      BY <2>6, <3>2
  <2>8. Abstract!Debit(user, d, v)
    BY <1>3, <2>2, <2>7 DEF Abstract!Debit, WealthMap
  <2>9. UNCHANGED TitleMap
    BY <1>3, <2>1, TitlesSame
  <2>10. Abstract!Money
    BY <1>2, <1>4, <2>2, <2>8, <2>9
    DEF Abstract!Money, TitleMap, OfferMap, StatusMap
  <2> QED
    BY <2>10
<1>6. CASE ~Fungible(d)
  <2>1. owner[d][v] = user /\ GiveToken(d, v, Nobody) /\ UNCHANGED balance
    BY <1>6 DEF Withdraw
  <2>2. Title(d, v) = user /\ ~InEscrow(d, v)
    BY <1>1, <1>2, <2>1, TitleOf
  <2>3. TitleMap' = [TitleMap EXCEPT ![d][v] = Nobody]
    BY <1>1, <1>2, <1>3, <2>1, <2>2, TitleGiven
  <2>4. Abstract!Disposable(user, d, v)
    BY <1>1, <2>2, OfferedIsEscrow DEF Abstract!Disposable, TitleMap
  <2>5. Abstract!Give(user, Nobody, d, v)
    BY <1>3, <2>3, <2>4 DEF Abstract!Give, TitleMap
  <2>6. UNCHANGED WealthMap
    BY <1>3, <2>1, MoneySame
  <2>7. Abstract!Titles
    BY <1>2, <1>4, <2>5, <2>6
    DEF Abstract!Titles, WealthMap, OfferMap, StatusMap
  <2> QED
    BY <2>7
<1> QED
  BY <1>5, <1>6

\* A transfer is a payment or a gift by its signer.
LEMMA TransferStep ==
  ASSUME CustodyInv, CustodyInv', NEW sig, NEW from \in User, NEW to \in Key,
         NEW v \in Felt, NEW d \in Contract, Transfer(sig, from, to, v, d)
  PROVE  Abstract!Money \/ Abstract!Titles
<1>1. /\ L2TypeOK /\ L2TypeOK' /\ EscrowBacked /\ EscrowBacked'
      /\ BoundedInv
  BY DEF CustodyInv, BoundedInv
<1>2. from \in Key /\ from # Nobody
  BY KeyTyping, L2Assumption
<1>3. UNCHANGED order /\ signer' = from
  BY DEF Transfer, Verified
<1>4. UNCHANGED <<OfferMap, StatusMap>>
  BY <1>3, OrdersSame
<1>5. CASE Fungible(d)
  <2>1. AssertNN(v) /\ CanPay(balance, from, d, v) /\ UNCHANGED owner
    BY <1>5 DEF Transfer
  <2>2. v \in 0 .. RangeCheckBound - 1 /\ v <= Abstract!Free(from, d)
    BY <1>1, <1>2, <2>1, PaymentCovered
  <2>3. v \in Int
    BY <2>2, FieldAssumption
  <2>4. Gain(Paid(balance, from, d, v), to, d, v) = v
    BY <1>1, <1>2, <2>1, PaymentGain
  <2>5. \A u \in Key, c \in Contract :
          Wealth(u, c)' = Wealth(u, c) - At(u, c, from, d, v)
            + At(u, c, to, d, Gain(Paid(balance, from, d, v), to, d, v))
    BY <1>1, <1>2, <1>5, WealthOfTransfer
  <2>6. WealthMap' = Abstract!Moved(WealthMap, from, to, d, v)
    BY <1>1, <1>2, <2>3, <2>4, <2>5, WealthInt, WealthMoved
  <2>7. Abstract!Pay(from, to, d, v)
    BY <1>3, <2>2, <2>6 DEF Abstract!Pay, WealthMap
  <2>8. UNCHANGED TitleMap
    BY <1>3, <2>1, TitlesSame
  <2>9. Abstract!Money
    BY <1>2, <1>4, <2>2, <2>7, <2>8
    DEF Abstract!Money, TitleMap, OfferMap, StatusMap
  <2> QED
    BY <2>9
<1>6. CASE ~Fungible(d)
  <2>1. owner[d][v] = from /\ GiveToken(d, v, to) /\ UNCHANGED balance
    BY <1>6 DEF Transfer
  <2>2. Title(d, v) = from /\ ~InEscrow(d, v)
    BY <1>1, <1>2, <2>1, TitleOf
  <2>3. TitleMap' = [TitleMap EXCEPT ![d][v] = to]
    BY <1>1, <1>3, <2>1, <2>2, TitleGiven
  <2>4. Abstract!Disposable(from, d, v)
    BY <1>1, <2>2, OfferedIsEscrow DEF Abstract!Disposable, TitleMap
  <2>5. Abstract!Give(from, to, d, v)
    BY <1>3, <2>3, <2>4 DEF Abstract!Give, TitleMap
  <2>6. UNCHANGED WealthMap
    BY <1>3, <2>1, MoneySame
  <2>7. Abstract!Titles
    BY <1>2, <1>4, <2>5, <2>6
    DEF Abstract!Titles, WealthMap, OfferMap, StatusMap
  <2> QED
    BY <2>7
<1> QED
  BY <1>5, <1>6

\* Minting introduces a token.
LEMMA MintStep ==
  ASSUME CustodyInv, CustodyInv', NEW sig, NEW user \in Key, NEW t \in Felt,
         NEW c \in Contract, Mint(sig, user, t, c), ~InEscrow(c, t)
  PROVE  Abstract!Titles
<1>1. L2TypeOK /\ L2TypeOK' /\ EscrowBacked /\ EscrowBacked' /\ signer' \in Key
  BY DEF CustodyInv, BoundedInv, L2TypeOK
<1>2. /\ owner[c][t] = Nobody /\ GiveToken(c, t, user)
      /\ UNCHANGED <<balance, order>>
  BY DEF Mint
<1>3. TitleMap' = [TitleMap EXCEPT ![c][t] = user]
  BY <1>1, <1>2, TitleGiven
<1>4. TitleMap[c][t] = Nobody
  <2>1. Title(c, t) = owner[c][t]
    BY <1>1, TitleOf
  <2> QED
    BY <1>2, <2>1 DEF TitleMap
<1>5. Abstract!Introduce(user, c, t)
  BY <1>1, <1>3, <1>4 DEF Abstract!Introduce, TitleMap
<1>6. UNCHANGED <<OfferMap, StatusMap, WealthMap>>
  BY <1>2, OrdersSame, MoneySame
<1> QED
  BY <1>5, <1>6 DEF Abstract!Titles, WealthMap, OfferMap, StatusMap

\* A step of order o leaves alone the title of a token that o does not offer.
LEMMA TitleKept ==
  ASSUME L2TypeOK, L2TypeOK', EscrowBacked, EscrowBacked', NEW o \in OrderId,
         \A p \in OrderId \ {o} : order'[p] = order[p],
         NEW c \in Contract, NEW s \in Felt, ~AskFor(o, c, s), ~AskFor(o, c, s)',
         owner'[c][s] = owner[c][s]
  PROVE  Title(c, s)' = Title(c, s)
<1>1. \A p \in OrderId \ {o} : AskFor(p, c, s)' <=> AskFor(p, c, s)
  BY DEF AskFor, Open
<1>2. InEscrow(c, s)' <=> InEscrow(c, s)
  BY <1>1 DEF InEscrow
<1>3. CASE InEscrow(c, s)
  <2>1. PICK p \in OrderId \ {o} : AskFor(p, c, s)
    BY <1>3 DEF InEscrow
  <2>2. Title(c, s) = order[p].user /\ order'[p] = order[p]
    BY <2>1, TitleOf
  <2>3. Title(c, s)' = order'[p].user
    BY <1>1, <2>1, TitleOfNext
  <2> QED
    BY <2>2, <2>3
<1>4. CASE ~InEscrow(c, s)
  BY <1>2, <1>4, TitleOf, TitleOfNext
<1> QED
  BY <1>3, <1>4

\* Cancelling gives back what the order held, so no wallet and no title changes.
LEMMA CancelStep ==
  ASSUME CustodyInv, CustodyInv', NEW sig, NEW o \in OrderId, CancelOrder(sig, o)
  PROVE  Abstract!Cancel(o)
<1>1. /\ L2TypeOK /\ L2TypeOK' /\ EscrowBacked /\ EscrowBacked'
      /\ BoundedInv
  BY DEF CustodyInv, BoundedInv
<1> DEFINE ord == order[o]  qc == ord.quote_contract  q == ord.quote_amount
           holder == ord.user  bc == ord.base_contract  t == ord.base_token_id
<1>2. /\ holder \in Key /\ qc \in Contract /\ q \in Felt
      /\ bc \in Contract /\ t \in Felt /\ ord.bid \in {ASK, BID}
      /\ ord \in LimitOrder
  <2>1. ord \in LimitOrder
    BY <1>1 DEF L2TypeOK
  <2> QED
    BY <2>1 DEF LimitOrder
<1>3. Open(ord) /\ Close(o, STATE_CANCELLED) /\ signer' = holder
  BY DEF CancelOrder, Verified
<1>4. /\ UNCHANGED OfferMap /\ StatusMap[o] = "open"
      /\ StatusMap' = [StatusMap EXCEPT ![o] = "cancelled"]
  <2>1. STATE_CANCELLED # STATE_FULFILLED
    BY DEF STATE_CANCELLED, STATE_FULFILLED
  <2> QED
    BY <1>1, <1>3, <2>1, OrderClosed
<1>5. OfferMap[o].user = holder
  BY <1>2, TermsOf DEF OfferMap
<1>6. UNCHANGED WealthMap
  <2>1. CASE ord.bid = ASK
    <3>1. \A u \in Key, c \in Contract : Wealth(u, c)' = Wealth(u, c)
      BY <1>1, <2>1, WealthOfCancelOrder
    <3> QED
      BY <3>1 DEF WealthMap
  <2>2. CASE ord.bid = BID
    <3>1. o \in OpenBids(holder, qc)
      BY <1>3, <2>2 DEF OpenBids
    <3>2. /\ balance[holder][qc] \in Nat /\ q \in Nat
          /\ balance[holder][qc] + q < RangeCheckBound
      <4>1. q <= Reserved(holder, qc)
        BY <1>1, <1>2, <3>1, ReservedNat
      <4>2. /\ balance[holder][qc] \in Nat /\ Reserved(holder, qc) \in Nat
            /\ balance[holder][qc] + Reserved(holder, qc) < RangeCheckBound
        BY <1>1, <1>2, WithinSupply
      <4>3. q \in Nat /\ RangeCheckBound \in Nat
        BY <1>2, FieldAssumption DEF Felt
      <4> HIDE DEF q, qc, holder
      <4> QED
        BY <4>1, <4>2, <4>3
    <3>3. Gain(balance, holder, qc, q) = q
      BY <3>2, FieldAssumption DEF Gain, FeltAdd
    <3>4. \A u \in Key, c \in Contract :
            Wealth(u, c)' = Wealth(u, c) - At(u, c, holder, qc, q)
                + At(u, c, holder, qc, Gain(balance, holder, qc, q))
      BY <1>1, <2>2, WealthOfCancelOrder
    <3> HIDE DEF q, qc, holder
    <3>5. \A u \in Key, c \in Contract : Wealth(u, c)' = Wealth(u, c)
      BY <1>1, <3>2, <3>3, <3>4, WealthInt DEF At
    <3> QED
      BY <3>5 DEF WealthMap
  <2> QED
    BY <1>2, <2>1, <2>2
<1>7. UNCHANGED TitleMap
  <2>1. ASSUME NEW c \in Contract, NEW s \in Felt PROVE Title(c, s)' = Title(c, s)
    <3>1. \A p \in OrderId \ {o} : AskFor(p, c, s)' <=> AskFor(p, c, s)
      BY <1>1, <1>3 DEF Close, L2TypeOK, AskFor, Open
    <3>2. ~AskFor(o, c, s)'
      BY <1>1, <1>3 DEF Close, L2TypeOK, LimitOrder, AskFor, Open, STATE_NEW,
                        STATE_CANCELLED
    <3>3. CASE AskFor(o, c, s)
      <4>1. Title(c, s) = holder
        BY <1>1, <3>3, TitleOf
      <4>2. ~InEscrow(c, s)'
        BY <1>1, <3>1, <3>2, <3>3 DEF EscrowBacked, InEscrow
      <4>3. owner'[c][s] = holder
        <5>1. ord.bid = ASK /\ bc = c /\ t = s
          BY <3>3 DEF AskFor
        <5>2. GiveToken(bc, t, holder)
          BY <5>1 DEF CancelOrder, ASK, BID
        <5> QED
          BY <1>1, <1>2, <5>1, <5>2, OwnerWrite
      <4> QED
        BY <1>1, <4>1, <4>2, <4>3, TitleOfNext
    <3>4. CASE ~AskFor(o, c, s)
      <4>1. owner'[c][s] = owner[c][s]
        <5>1. CASE ord.bid = ASK
          <6>1. GiveToken(bc, t, holder)
            BY <5>1 DEF CancelOrder, ASK, BID
          <6>2. ~(bc = c /\ t = s)
            BY <1>3, <3>4, <5>1 DEF AskFor
          <6> QED
            BY <1>1, <1>2, <6>1, <6>2, OwnerWrite
        <5>2. CASE ord.bid = BID
          BY <5>2 DEF CancelOrder, ASK, BID
        <5> QED
          BY <1>2, <5>1, <5>2
      <4>2. \A p \in OrderId \ {o} : order'[p] = order[p]
        BY <1>1, <1>3 DEF Close, L2TypeOK
      <4> QED
        BY <1>1, <3>2, <3>4, <4>1, <4>2, TitleKept
    <3> QED
      BY <3>3, <3>4
  <2> QED
    BY <2>1 DEF TitleMap
<1> HIDE DEF holder
<1> QED
  BY <1>3, <1>4, <1>5, <1>6, <1>7
  DEF Abstract!Cancel, WealthMap, TitleMap, OfferMap, StatusMap

\* An order is an offer: the escrow it fills changes no wallet and no title.
LEMMA CreateOrderStep ==
  ASSUME CustodyInv, CustodyInv', NEW sig, NEW o \in OrderId, NEW user \in User,
         NEW bid \in {ASK, BID}, NEW bc \in Contract, NEW t \in Felt,
         NEW qc \in Contract, NEW q \in Felt,
         CreateOrder(sig, o, user, bid, bc, t, qc, q)
  PROVE  Abstract!Offer(user, o)
<1>1. L2TypeOK /\ L2TypeOK' /\ EscrowBacked /\ EscrowBacked'
  BY DEF CustodyInv, BoundedInv
<1>2. user \in Key /\ user # Nobody /\ Nobody \in Key
  BY KeyTyping, L2Assumption
<1>3. signer' = user /\ order[o].user = Nobody
  BY DEF CreateOrder, Verified
<1>4. /\ \A p \in OrderId \ {o} : order'[p] = order[p]
      /\ order'[o] = [user |-> user, bid |-> bid, base_contract |-> bc,
                      base_token_id |-> t, quote_contract |-> qc,
                      quote_amount |-> q, state |-> STATE_NEW]
  BY <1>1 DEF CreateOrder, L2TypeOK
<1>5. order[o] \in LimitOrder /\ order'[o] \in LimitOrder
  BY <1>1 DEF L2TypeOK
<1>6. /\ StatusMap[o] = "unused"
      /\ StatusMap' = [StatusMap EXCEPT ![o] = "open"]
  <2>1. Status(order[o]) = "unused" /\ Status(order'[o]) = "open"
    BY <1>2, <1>3, <1>4, <1>5, StatusOf DEF Open
  <2> QED
    BY <1>4, <2>1 DEF StatusMap
<1>7. /\ \A p \in OrderId \ {o} : OfferMap'[p] = OfferMap[p]
      /\ OfferMap'[o] = Terms(order'[o])
  BY <1>4 DEF OfferMap
<1>8. /\ OfferMap'[o].user = user /\ OfferMap'[o].bid = bid
      /\ OfferMap'[o].base_contract = bc /\ OfferMap'[o].base_token_id = t
      /\ OfferMap'[o].quote_contract = qc /\ OfferMap'[o].quote_amount = q
  <2> DEFINE ord == order'[o]
  <2>1. /\ ord.user = user /\ ord.bid = bid /\ ord.base_contract = bc
        /\ ord.base_token_id = t /\ ord.quote_contract = qc
        /\ ord.quote_amount = q
    BY <1>4
  <2>2. /\ Terms(ord).user = ord.user /\ Terms(ord).bid = ord.bid
        /\ Terms(ord).base_contract = ord.base_contract
        /\ Terms(ord).base_token_id = ord.base_token_id
        /\ Terms(ord).quote_contract = ord.quote_contract
        /\ Terms(ord).quote_amount = ord.quote_amount
    BY <1>5, TermsOf
  <2> HIDE DEF ord
  <2> QED
    BY <1>7, <2>1, <2>2 DEF ord
<1>9. UNCHANGED WealthMap
  <2>1. \A u \in Key, c \in Contract : Wealth(u, c)' = Wealth(u, c)
    BY <1>1, <1>2, WealthOfCreateOrder
  <2> QED
    BY <2>1 DEF WealthMap
<1>10. \A c \in Contract, s \in Felt :
         /\ ~AskFor(o, c, s)
         /\ AskFor(o, c, s)' <=> bid = ASK /\ c = bc /\ s = t
  BY <1>2, <1>3, <1>4 DEF AskFor, Open
<1>11. CASE bid = ASK
  <2>1. owner[bc][t] = user /\ GiveToken(bc, t, Nobody)
    BY <1>11 DEF CreateOrder, ASK, BID
  <2>2. Title(bc, t) = user /\ ~InEscrow(bc, t)
    BY <1>1, <1>2, <2>1, TitleOf
  <2>3. ASSUME NEW c \in Contract, NEW s \in Felt
        PROVE  Title(c, s)' = Title(c, s)
    <3>1. CASE c = bc /\ s = t
      <4>1. Title(c, s)' = order'[o].user
        BY <1>1, <1>10, <1>11, <3>1, TitleOfNext
      <4> QED
        BY <1>4, <2>2, <3>1, <4>1
    <3>2. CASE ~(c = bc /\ s = t)
      <4>1. owner'[c][s] = owner[c][s]
        BY <1>1, <1>2, <2>1, <3>2, OwnerWrite
      <4> QED
        BY <1>1, <1>4, <1>10, <3>2, <4>1, TitleKept
    <3> QED
      BY <3>1, <3>2
  <2>4. UNCHANGED TitleMap
    BY <2>3 DEF TitleMap
  <2>5. Abstract!Disposable(user, bc, t)
    BY <1>1, <2>2, OfferedIsEscrow DEF Abstract!Disposable, TitleMap
  <2> QED
    BY <1>3, <1>6, <1>7, <1>8, <1>9, <1>11, <2>4, <2>5
    DEF Abstract!Offer, WealthMap, TitleMap, OfferMap, StatusMap
<1>12. CASE bid = BID
  <2>1. AssertNN(q) /\ CanPay(balance, user, qc, q) /\ UNCHANGED owner
    BY <1>12 DEF CreateOrder, ASK, BID
  <2>2. q <= Abstract!Free(user, qc)
    BY <1>1, <1>2, <2>1, PaymentCovered
  <2>3. \A c \in Contract, s \in Felt : Title(c, s)' = Title(c, s)
    BY <1>1, <1>4, <1>10, <1>12, <2>1, TitleKept DEF ASK, BID
  <2>4. UNCHANGED TitleMap
    BY <2>3 DEF TitleMap
  <2> QED
    BY <1>3, <1>6, <1>7, <1>8, <1>9, <1>12, <2>2, <2>4
    DEF Abstract!Offer, WealthMap, TitleMap, OfferMap, StatusMap
<1> QED
  BY <1>11, <1>12

\* A fulfilled order swaps the money and the title at the agreed price.
LEMMA FulfillStep ==
  ASSUME CustodyInv, CustodyInv', NEW sig, NEW o \in OrderId, NEW user \in User,
         FulfillOrder(sig, o, user)
  PROVE  Abstract!Settle(user, o)
<1>1. /\ L2TypeOK /\ L2TypeOK' /\ EscrowBacked /\ EscrowBacked'
      /\ BoundedInv /\ OrdersInRange
  BY DEF CustodyInv, BoundedInv
<1>2. user \in Key /\ user # Nobody
  BY KeyTyping, L2Assumption
<1> DEFINE ord == order[o]  qc == ord.quote_contract  q == ord.quote_amount
           holder == ord.user  bc == ord.base_contract  t == ord.base_token_id
<1>3. /\ holder \in Key /\ qc \in Contract /\ q \in Felt
      /\ bc \in Contract /\ t \in Felt /\ ord.bid \in {ASK, BID}
      /\ ord \in LimitOrder
  <2>1. ord \in LimitOrder
    BY <1>1 DEF L2TypeOK
  <2> QED
    BY <2>1 DEF LimitOrder
<1>4. Open(ord) /\ Close(o, STATE_FULFILLED) /\ signer' = user
  BY DEF FulfillOrder, Verified
<1>5. /\ UNCHANGED OfferMap /\ StatusMap[o] = "open"
      /\ StatusMap' = [StatusMap EXCEPT ![o] = "settled"]
  BY <1>1, <1>4, OrderClosed
<1>6. /\ OfferMap[o].user = holder /\ OfferMap[o].bid = ord.bid
      /\ OfferMap[o].base_contract = bc /\ OfferMap[o].base_token_id = t
      /\ OfferMap[o].quote_contract = qc /\ OfferMap[o].quote_amount = q
  <2>1. OfferMap[o] = Terms(ord)
    BY DEF OfferMap
  <2> QED
    BY <1>3, <2>1, TermsOf
<1>7. \A p \in OrderId \ {o} : order'[p] = order[p]
  BY <1>1, <1>4 DEF Close, L2TypeOK
<1>8. AssertNN(q)
  BY <1>1 DEF OrdersInRange
<1>9. q \in Int
  BY <1>3, FieldAssumption DEF Felt
\* The title goes from whoever holds it to the buyer w.
<1>10. ASSUME NEW w \in Key, w # Nobody, GiveToken(bc, t, w),
              \A c \in Contract, s \in Felt : AskFor(o, c, s) => c = bc /\ s = t,
              InEscrow(bc, t) => AskFor(o, bc, t)
       PROVE  TitleMap' = [TitleMap EXCEPT ![bc][t] = w]
  <2>1. ASSUME NEW c \in Contract, NEW s \in Felt
        PROVE  Title(c, s)' = IF c = bc /\ s = t THEN w ELSE Title(c, s)
    <3>1. owner'[c][s] = IF c = bc /\ s = t THEN w ELSE owner[c][s]
      BY <1>1, <1>3, <1>10, OwnerWrite
    <3>2. ~AskFor(o, c, s)'
      BY <1>1, <1>4 DEF Close, L2TypeOK, LimitOrder, AskFor, Open, STATE_NEW,
                        STATE_FULFILLED
    <3>3. CASE c = bc /\ s = t
      <4>1. ~InEscrow(c, s)'
        BY <1>10, <3>1, <3>3 DEF EscrowBacked, InEscrow, CustodyInv
      <4> QED
        BY <1>1, <3>1, <3>3, <4>1, TitleOfNext
    <3>4. CASE ~(c = bc /\ s = t)
      BY <1>1, <1>7, <1>10, <3>1, <3>2, <3>4, TitleKept
    <3> QED
      BY <3>3, <3>4
  <2> DEFINE m == [TitleMap EXCEPT ![bc][t] = w]
  <2>2. \A c \in Contract, s \in Felt :
          m[c][s] = IF c = bc /\ s = t THEN w ELSE Title(c, s)
    BY DEF TitleMap
  <2>3. m = [c \in Contract |-> [s \in Felt |-> m[c][s]]]
    BY DEF TitleMap
  <2> HIDE DEF m, bc, t
  <2>4. m = [c \in Contract |-> [s \in Felt |-> Title(c, s)']]
    BY <2>1, <2>2, <2>3
  <2> QED
    BY <2>4 DEF m, TitleMap
<1>11. CASE ord.bid = ASK
  <2>1. AskFor(o, bc, t)
    BY <1>4, <1>11 DEF AskFor
  <2>2. /\ CanPay(balance, user, qc, q) /\ GiveToken(bc, t, user)
    BY <1>11 DEF FulfillOrder, ASK, BID
  <2>3. TitleMap' = [TitleMap EXCEPT ![bc][t] = user]
    BY <1>2, <1>10, <2>1, <2>2 DEF AskFor
  <2> HIDE DEF qc, q, holder, bc, t
  <2>4. q <= Abstract!Free(user, qc)
    BY <1>1, <1>2, <1>3, <1>8, <2>2, PaymentCovered
  <2>5. Gain(Paid(balance, user, qc, q), holder, qc, q) = q
    BY <1>1, <1>2, <1>3, <1>8, <2>2, PaymentGain
  <2>6. \A u \in Key, c \in Contract :
          Wealth(u, c)' = Wealth(u, c) - At(u, c, user, qc, q)
            + At(u, c, holder, qc, Gain(Paid(balance, user, qc, q), holder, qc, q))
    BY <1>1, <1>2, <1>11, WealthOfFulfillOrder DEF qc, q, holder
  <2>7. WealthMap' = Abstract!Moved(WealthMap, user, holder, qc, q)
    BY <1>1, <1>2, <1>3, <1>9, <2>5, <2>6, WealthInt, WealthMoved
  <2> HIDE DEF ord
  <2> QED
    BY <1>4, <1>5, <1>6, <1>11, <2>3, <2>4, <2>7
    DEF Abstract!Settle, WealthMap, TitleMap, OfferMap, StatusMap
<1>12. CASE ord.bid = BID
  <2>1. owner[bc][t] = user /\ GiveToken(bc, t, holder)
        /\ balance' = Received(balance, user, qc, q)
    BY <1>12 DEF FulfillOrder, ASK, BID
  <2>2. Title(bc, t) = user /\ ~InEscrow(bc, t)
    BY <1>1, <1>2, <1>3, <2>1, TitleOf
  <2>3. holder # Nobody
    BY <1>4 DEF Open
  <2>4. \A c \in Contract, s \in Felt : ~AskFor(o, c, s)
    BY <1>12 DEF AskFor, ASK, BID
  <2>5. TitleMap' = [TitleMap EXCEPT ![bc][t] = holder]
    BY <1>3, <1>10, <2>1, <2>2, <2>3, <2>4
  <2>6. Gain(balance, user, qc, q) = q
    <3>1. balance \in [Key -> [Contract -> Felt]] /\ RangeCheckBound \in Nat
      BY <1>1, FieldAssumption DEF L2TypeOK
    <3>2. /\ balance[user][qc] \in Nat /\ Reserved(user, qc) \in Nat
          /\ balance[user][qc] + Reserved(user, qc) < RangeCheckBound
      BY <1>1, <1>2, <1>3, WithinSupply
    <3> HIDE DEF q, qc
    <3> QED
      BY <1>2, <1>3, <1>8, <3>1, <3>2, GainIsExact DEF AssertNN
  <2>7. Abstract!Disposable(user, bc, t)
    BY <1>1, <1>3, <2>2, OfferedIsEscrow DEF Abstract!Disposable, TitleMap
  <2>8. \A u \in Key, c \in Contract :
          Wealth(u, c)' = Wealth(u, c) - At(u, c, holder, qc, q)
            + At(u, c, user, qc, Gain(balance, user, qc, q))
    BY <1>1, <1>2, <1>12, WealthOfFulfillOrder
  <2> HIDE DEF qc, q, holder, bc, t
  <2>9. WealthMap' = Abstract!Moved(WealthMap, holder, user, qc, q)
    BY <1>1, <1>2, <1>3, <1>9, <2>6, <2>8, WealthInt, WealthMoved
  <2> HIDE DEF ord
  <2> QED
    BY <1>4, <1>5, <1>6, <1>12, <2>5, <2>7, <2>9
    DEF Abstract!Settle, WealthMap, TitleMap, OfferMap, StatusMap
<1> QED
  BY <1>3, <1>11, <1>12

-----------------------------------------------------------------------------
\* Empty storage maps to empty wallets.
LEMMA WalletsStart == L2Init => Abstract!WalletsInit
<1> SUFFICES ASSUME L2Init PROVE Abstract!WalletsInit
  OBVIOUS
<1>1. L2TypeOK
  BY TypeInit
<1>2. /\ order = [o \in OrderId |-> NoOrder] /\ signer = Nobody
      /\ owner = [c \in Contract |-> [t \in Felt |-> Nobody]]
      /\ balance = [u \in Key |-> [c \in Contract |-> 0]]
  BY DEF L2Init, StorageInit
<1>3. \A o \in OrderId : order[o] \in LimitOrder /\ order[o].user = Nobody
  BY <1>1, <1>2 DEF L2TypeOK, NoOrder
<1>4. WealthMap = [u \in Key |-> [c \in Contract |-> 0]]
  <2>1. ASSUME NEW u \in Key, NEW c \in Contract PROVE Wealth(u, c) = 0
    <3> DEFINE f == [o \in OpenBids(u, c) |-> order[o].quote_amount]
    <3>1. OpenBids(u, c) = {}
      BY <1>3 DEF OpenBids, Open
    <3>2. f \in [OpenBids(u, c) -> {0}]
      BY <3>1
    <3> HIDE DEF f
    <3>3. SumFunction(f) = 0
      BY <3>2, FiniteKeys, SumFunctionZero
    <3> QED
      BY <1>2, <3>3 DEF f, Wealth, Reserved
  <2> QED
    BY <2>1 DEF WealthMap
<1>5. TitleMap = [c \in Contract |-> [t \in Felt |-> Nobody]]
  <2>1. \A c \in Contract, t \in Felt : ~InEscrow(c, t)
    BY <1>3 DEF InEscrow, AskFor, Open
  <2> QED
    BY <1>2, <2>1 DEF TitleMap, Title
<1>6. StatusMap = [o \in OrderId |-> "unused"]
  BY <1>3, StatusOf DEF StatusMap
<1>7. \A o \in OrderId : OfferMap[o].user = Nobody
  BY <1>3, TermsOf DEF OfferMap
<1> QED
  BY <1>2, <1>4, <1>5, <1>6, <1>7
  DEF Abstract!WalletsInit, WealthMap, TitleMap, OfferMap, StatusMap

\* Every step of the exchange maps to a step of Wallets or to a stutter.
LEMMA WalletsStep ==
  ASSUME FreshOnly, CustodyInv, CustodyInv', [L2Next]_l2vars
  PROVE  [Abstract!WalletsNext]_(Abstract!wvars)
<1>1. L2TypeOK /\ L2TypeOK' /\ signer' \in Key
  BY DEF CustodyInv, BoundedInv, L2TypeOK
<1>2. ASSUME UNCHANGED <<balance, owner, order>>
      PROVE  UNCHANGED <<WealthMap, TitleMap, OfferMap, StatusMap>>
  BY <1>2, MoneySame, TitlesSame, OrdersSame
<1>3. CASE UNCHANGED l2vars \/ L1Step
  <2>1. UNCHANGED <<balance, owner, order, signer>>
    BY <1>3 DEF l2vars, storage, L1Step, L1Sends, L1Consumes
  <2> QED
    BY <1>2, <2>1 DEF Abstract!wvars, WealthMap, TitleMap, OfferMap, StatusMap
<1>4. ASSUME UNCHANGED <<balance, owner, order>>
      PROVE  Abstract!WalletsNext
  BY <1>1, <1>2, <1>4 DEF Abstract!WalletsNext, Abstract!Idle,
                          WealthMap, TitleMap, OfferMap, StatusMap
<1>5. CASE L1Handler
  <2> PICK m \in DOMAIN toL2 :
        \/ RegisterContract(m)
        \/ MayIntroduce(m.contract, m.value) /\ Deposit(m)
    BY <1>5 DEF L1Handler
  <2>1. CASE RegisterContract(m)
    BY <1>4, <2>1 DEF RegisterContract
  <2>2. CASE MayIntroduce(m.contract, m.value) /\ Deposit(m)
    BY <2>2, DepositStep DEF MayIntroduce, Abstract!WalletsNext
  <2> QED
    BY <2>1, <2>2
<1>6. ASSUME NEW sig \in User, Minting(sig)
      PROVE  Abstract!WalletsNext
  <2> PICK c \in Contract : \E v \in Inputs[c], user \in Recipient :
        MayIntroduce(c, v) /\ Mint(sig, user, v, c)
    BY <1>6 DEF Minting
  <2> PICK v \in Inputs[c], user \in Recipient :
        MayIntroduce(c, v) /\ Mint(sig, user, v, c)
    OBVIOUS
  <2>1. v \in Felt /\ user \in Key
    BY InputsAreFelts, L2Assumption
  <2> QED
    BY <2>1, MintStep DEF MayIntroduce, Abstract!WalletsNext
<1>7. ASSUME NEW sig \in User, Transaction(sig)
      PROVE  Abstract!WalletsNext
  <2>1. CASE \/ \E paus \in PauseInput : SetPause(sig, paus)
             \/ \E user \in Registrant, a \in Address :
                  RegisterClient(sig, user, a)
    BY <1>4, <2>1 DEF SetPause, RegisterClient
  <2>2. ASSUME NEW d \in Contract, NEW v \in Inputs[d],
               NEW user \in User, NEW a \in Address,
               Withdraw(sig, user, v, d, a)
        PROVE  Abstract!WalletsNext
    <3>1. v \in Felt
      BY InputsAreFelts
    <3> QED
      BY <2>2, <3>1, WithdrawStep DEF Abstract!WalletsNext
  <2>3. ASSUME NEW d \in Contract, NEW v \in Inputs[d],
               NEW from \in User, NEW to \in Recipient,
               Transfer(sig, from, to, v, d)
        PROVE  Abstract!WalletsNext
    <3>1. v \in Felt /\ to \in Key
      BY InputsAreFelts, L2Assumption
    <3> QED
      BY <2>3, <3>1, TransferStep DEF Abstract!WalletsNext
  <2>4. ASSUME NEW o \in OrderId, NEW user \in User, NEW bid \in {ASK, BID},
               NEW bc \in Contract, NEW qc \in Contract,
               NEW t \in Inputs[bc], NEW q \in Inputs[qc],
               CreateOrder(sig, o, user, bid, bc, t, qc, q)
        PROVE  Abstract!WalletsNext
    <3>1. q \in Felt /\ t \in Felt /\ user \in Key
      BY InputsAreFelts, KeyTyping
    <3>2. Abstract!Offer(user, o)
      BY <2>4, <3>1, CreateOrderStep
    <3> QED
      BY <3>1, <3>2 DEF Abstract!WalletsNext
  <2>5. ASSUME NEW o \in OrderId, NEW user \in User,
               FulfillOrder(sig, o, user)
        PROVE  Abstract!WalletsNext
    <3>1. user \in Key
      BY KeyTyping
    <3>2. Abstract!Settle(user, o)
      BY <2>5, FulfillStep
    <3> QED
      BY <3>1, <3>2 DEF Abstract!WalletsNext
  <2>6. ASSUME NEW o \in OrderId, CancelOrder(sig, o)
        PROVE  Abstract!WalletsNext
    BY <2>6, CancelStep DEF Abstract!WalletsNext
  <2> QED
    BY <1>7, <2>1, <2>2, <2>3, <2>4, <2>5, <2>6 DEF Transaction
<1> QED
  BY <1>3, <1>5, <1>6, <1>7 DEF L2Next

\* Under a bounded supply and with fresh tokens the exchange implements Wallets:
\* escrow, modular arithmetic and the bridge are invisible to its users, for any
\* number of users, contracts, tokens and orders.
THEOREM WalletsImplemented == FreshOnly /\ BoundedSpec => ImplementsWallets
<1> SUFFICES ASSUME FreshOnly PROVE BoundedSpec => ImplementsWallets
  OBVIOUS
<1>1. BoundedSpec => L2Spec
  <2>1. [BoundedNext]_l2vars => [L2Next]_l2vars
    BY DEF BoundedNext
  <2> QED
    BY <2>1, PTL DEF BoundedSpec, L2Spec
<1>2. BoundedSpec => []CustodyInv
  BY <1>1, BoundedInvariant, EscrowSound, PTL DEF CustodyInv
<1>3. CustodyInv /\ CustodyInv' /\ [BoundedNext]_l2vars
        => [Abstract!WalletsNext]_(Abstract!wvars)
  BY WalletsStep DEF BoundedNext
<1>4. L2Init => Abstract!WalletsInit
  BY WalletsStart
<1> QED
  BY <1>2, <1>3, <1>4, PTL
  DEF BoundedSpec, ImplementsWallets, Abstract!WalletsSpec
=============================================================================
