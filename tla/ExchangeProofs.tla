--------------------------- MODULE ExchangeProofs ---------------------------
(***************************************************************************)
(* What the contract on L2 guarantees together with each of the two        *)
(* parties that depend on it, for every set of users, contracts, tokens    *)
(* and orders.                                                             *)
(*                                                                         *)
(*   I.  L1, for any supply and any number of messages under way: the      *)
(*       vault covers what L2 owes, a token has one home, and L1 behaves   *)
(*       as the exchange was told it would.                                *)
(*   II. The tables of the interpreter, for any number of crashes and of   *)
(*       transactions that it is behind: what it does not skip it follows. *)
(***************************************************************************)
EXTENDS Bridge, Mirror, StarkRichmetasProofs, SequenceTheorems

-----------------------------------------------------------------------------
(***************************************************************************)
(* I. The two contracts and the bridge between them.                       *)
(***************************************************************************)

-----------------------------------------------------------------------------
(***************************************************************************)
(* Copies of messages.                                                     *)
(***************************************************************************)

\* Copies are counted in natural numbers, and a message counts at least once.
LEMMA CopiesNat ==
  ASSUME NEW B, IsABag(B), NEW M, M \subseteq DOMAIN B, IsFiniteSet(M)
  PROVE  /\ [m \in M |-> B[m]] \in [M -> Nat]
         /\ Copies(B, M) \in Nat
         /\ Copies(B, M) = 0 <=> M = {}
<1> DEFINE f == [m \in M |-> B[m]]
<1>1. \A m \in M : B[m] \in Nat \ {0}
  BY DEF IsABag
<1>2. f \in [M -> Nat] /\ \A m \in M : f[m] >= 1
  BY <1>1
<1>3. SumFunction(f) \in Nat /\ \A m \in M : f[m] <= SumFunction(f)
  <2> HIDE DEF f
  <2> QED
    BY <1>2, SumFunctionNat
<1>4. ASSUME M = {} PROVE SumFunction(f) = 0
  <2>1. f \in [M -> {0}]
    BY <1>4
  <2> HIDE DEF f
  <2> QED
    BY <2>1, SumFunctionZero
<1>5. Copies(B, M) = SumFunction(f)
  BY DEF Copies
<1> HIDE DEF f
<1>6. \A m \in M : SumFunction(f) # 0
  BY <1>2, <1>3
<1> QED
  BY <1>2, <1>3, <1>4, <1>5, <1>6 DEF f

\* A message that goes leaves one copy less.
LEMMA CopiesRemove ==
  ASSUME NEW B, IsABag(B), NEW M, M \subseteq DOMAIN B, IsFiniteSet(M),
         NEW m \in DOMAIN B, NEW N, N = M \cap DOMAIN BagRemove(B, m)
  PROVE  Copies(BagRemove(B, m), N)
           = Copies(B, M) - (IF m \in M THEN 1 ELSE 0)
<1> DEFINE R == BagRemove(B, m)
           f == [n \in M |-> B[n]]
           g == [n \in N |-> R[n]]
<1>1. f \in [M -> Nat] /\ Copies(B, M) = SumFunction(f) /\ Copies(B, M) \in Nat
  BY CopiesNat DEF Copies
<1>2. \A n \in DOMAIN B : B[n] \in Nat \ {0}
  BY DEF IsABag
<1>3. /\ B[m] = 1 => DOMAIN R = DOMAIN B \ {m}
      /\ B[m] # 1 => DOMAIN R = DOMAIN B /\ R[m] = B[m] - 1
      /\ \A n \in DOMAIN R \ {m} : R[n] = B[n]
  BY DEF BagRemove, IsABag
<1>4. Copies(R, N) = SumFunction(g)
  BY DEF Copies
<1>5. \A n \in N : R[n] \in Nat
  BY <1>2, <1>3
<1>6. g \in [N -> Int] /\ f \in [M -> Int]
  BY <1>1, <1>5
<1>7. M \ {m} = N \ {m} /\ \A n \in M \ {m} : g[n] = f[n]
  BY <1>3
<1>8. IsFiniteSet(N)
  BY FS_Subset
<1>9. /\ m \in M => f[m] = B[m]
      /\ m \in N => g[m] = B[m] - 1 /\ B[m] # 1
      /\ m \in M \ N => B[m] = 1
  BY <1>3
<1> HIDE DEF f, g, R
<1>10. SumFunction(g) = SumFunction(f) - (IF m \in M THEN f[m] ELSE 0)
                                       + (IF m \in N THEN g[m] ELSE 0)
  BY <1>6, <1>7, <1>8, SumFunctionChange
<1>11. B[m] \in Nat
  BY <1>2
<1> QED
  BY <1>1, <1>4, <1>9, <1>10, <1>11 DEF R

\* A message that comes adds one copy.
LEMMA CopiesAdd ==
  ASSUME NEW B, IsABag(B), NEW m, NEW N, N \subseteq DOMAIN B \cup {m},
         IsFiniteSet(N), NEW M, M = N \cap DOMAIN B
  PROVE  Copies(BagAdd(B, m), N) = Copies(B, M) + (IF m \in N THEN 1 ELSE 0)
<1> DEFINE A == BagAdd(B, m)
           f == [n \in M |-> B[n]]
           g == [n \in N |-> A[n]]
<1>1. IsFiniteSet(M)
  BY FS_Subset
<1>2. f \in [M -> Nat] /\ Copies(B, M) = SumFunction(f) /\ Copies(B, M) \in Nat
  BY <1>1, CopiesNat DEF Copies
<1>3. \A n \in DOMAIN B : B[n] \in Nat
  BY DEF IsABag
<1>4. /\ DOMAIN A = DOMAIN B \cup {m}
      /\ \A n \in DOMAIN B \ {m} : A[n] = B[n]
      /\ A[m] = IF m \in DOMAIN B THEN B[m] + 1 ELSE 1
  BY DEF BagAdd, IsABag
<1>5. g \in [N -> Int] /\ f \in [M -> Int]
  BY <1>2, <1>3, <1>4
<1>6. M \ {m} = N \ {m} /\ \A n \in M \ {m} : g[n] = f[n]
  BY <1>4
<1>7. Copies(A, N) = SumFunction(g)
  BY DEF Copies
<1>8. /\ m \in M <=> m \in N /\ m \in DOMAIN B
      /\ m \in M => f[m] = B[m]
      /\ m \in N => g[m] = IF m \in DOMAIN B THEN B[m] + 1 ELSE 1
      /\ m \in DOMAIN B => B[m] \in Nat
  BY <1>3, <1>4
<1> HIDE DEF A, f, g
<1>9. SumFunction(g) = SumFunction(f) - (IF m \in M THEN f[m] ELSE 0)
                                      + (IF m \in N THEN g[m] ELSE 0)
  BY <1>1, <1>5, <1>6, SumFunctionChange
<1> QED
  BY <1>2, <1>7, <1>8, <1>9 DEF A

\* Is m the deposit of token t of c?  A withdrawal of it that carries org?
IsArrival(m, c, t) == m.type = "deposit" /\ m.contract = c /\ m.value = t
IsDeparture(m, c, t, org) == m.contract = c /\ m.value = t /\ m.org = org

\* The messages about a token are finitely many of those in a bag.
LEMMA TokenMessages ==
  ASSUME L2TypeOK, FiniteBags, NEW c, NEW t, NEW org
  PROVE  /\ Arrivals(c, t) \subseteq DOMAIN toL2 /\ IsFiniteSet(Arrivals(c, t))
         /\ Departures(c, t, org) \subseteq DOMAIN toL1
         /\ IsFiniteSet(Departures(c, t, org))
         /\ Arriving(c, t) \in Nat /\ Leaving(c, t, org) \in Nat
         /\ Arriving(c, t) = 0 <=> Arrivals(c, t) = {}
         /\ Leaving(c, t, org) = 0 <=> Departures(c, t, org) = {}
<1>1. /\ Arrivals(c, t) \subseteq DOMAIN toL2
      /\ Departures(c, t, org) \subseteq DOMAIN toL1
  BY DEF Arrivals, Departures
<1>2. IsFiniteSet(Arrivals(c, t)) /\ IsFiniteSet(Departures(c, t, org))
  BY <1>1, FS_Subset DEF FiniteBags
<1>3. IsABag(toL2) /\ IsABag(toL1)
  BY DEF L2TypeOK
<1> QED
  BY <1>1, <1>2, <1>3, CopiesNat DEF Arriving, Leaving

\* L1 sends a message.
LEMMA ArrivalSent ==
  ASSUME L2TypeOK, FiniteBags, NEW m, SendMessageToL2(m)
  PROVE  \A c, t : Arriving(c, t)'
                     = Arriving(c, t) + (IF IsArrival(m, c, t) THEN 1 ELSE 0)
<1> TAKE c, t
<1>1. toL2' = BagAdd(toL2, m) /\ IsABag(toL2)
  BY DEF SendMessageToL2, L2TypeOK
<1>2. DOMAIN toL2' = DOMAIN toL2 \cup {m}
  BY <1>1, BagDomains
<1> DEFINE M == Arrivals(c, t)
           N == Arrivals(c, t)'
<1>3. /\ M = N \cap DOMAIN toL2 /\ N \subseteq DOMAIN toL2 \cup {m}
      /\ m \in N <=> IsArrival(m, c, t)
  BY <1>2 DEF Arrivals, IsArrival
<1>4. IsFiniteSet(N)
  <2>1. IsFiniteSet(DOMAIN toL2 \cup {m})
    BY FS_AddElement DEF FiniteBags
  <2> QED
    BY <1>3, <2>1, FS_Subset
<1>5. Arriving(c, t)' = Copies(toL2', N) /\ Arriving(c, t) = Copies(toL2, M)
  BY DEF Arriving, Copies
<1> HIDE DEF M, N
<1> QED
  BY <1>1, <1>3, <1>4, <1>5, CopiesAdd

\* A handler of L2 accepts a message.
LEMMA ArrivalHandled ==
  ASSUME L2TypeOK, FiniteBags, NEW m, HandleMessageFromL1(m)
  PROVE  \A c, t : Arriving(c, t)'
                     = Arriving(c, t) - (IF IsArrival(m, c, t) THEN 1 ELSE 0)
<1> TAKE c, t
<1>1. toL2' = BagRemove(toL2, m) /\ IsABag(toL2) /\ m \in DOMAIN toL2
  BY DEF HandleMessageFromL1, L2TypeOK
<1>2. DOMAIN toL2' \subseteq DOMAIN toL2
  BY <1>1, BagDomains
<1> DEFINE M == Arrivals(c, t)
           N == Arrivals(c, t)'
<1>3. N = M \cap DOMAIN toL2' /\ (m \in M <=> IsArrival(m, c, t))
  BY <1>1, <1>2 DEF Arrivals, IsArrival
<1>4. IsFiniteSet(M) /\ M \subseteq DOMAIN toL2
  BY TokenMessages
<1>5. Arriving(c, t)' = Copies(toL2', N) /\ Arriving(c, t) = Copies(toL2, M)
  BY DEF Arriving, Copies
<1> HIDE DEF M, N
<1> QED
  BY <1>1, <1>3, <1>4, <1>5, CopiesRemove

\* withdraw of L2 sends a message.
LEMMA DepartureSent ==
  ASSUME L2TypeOK, FiniteBags, NEW m, SendMessageToL1(m)
  PROVE  \A c, t, org : Leaving(c, t, org)'
           = Leaving(c, t, org) + (IF IsDeparture(m, c, t, org) THEN 1 ELSE 0)
<1> TAKE c, t, org
<1>1. toL1' = BagAdd(toL1, m) /\ IsABag(toL1)
  BY DEF SendMessageToL1, L2TypeOK
<1>2. DOMAIN toL1' = DOMAIN toL1 \cup {m}
  BY <1>1, BagDomains
<1> DEFINE M == Departures(c, t, org)
           N == Departures(c, t, org)'
<1>3. /\ M = N \cap DOMAIN toL1 /\ N \subseteq DOMAIN toL1 \cup {m}
      /\ m \in N <=> IsDeparture(m, c, t, org)
  BY <1>2 DEF Departures, IsDeparture
<1>4. IsFiniteSet(N)
  <2>1. IsFiniteSet(DOMAIN toL1 \cup {m})
    BY FS_AddElement DEF FiniteBags
  <2> QED
    BY <1>3, <2>1, FS_Subset
<1>5. /\ Leaving(c, t, org)' = Copies(toL1', N)
      /\ Leaving(c, t, org) = Copies(toL1, M)
  BY DEF Leaving, Copies
<1> HIDE DEF M, N
<1> QED
  BY <1>1, <1>3, <1>4, <1>5, CopiesAdd

\* withdraw of L1 consumes a message.
LEMMA DepartureConsumed ==
  ASSUME L2TypeOK, FiniteBags, NEW m, ConsumeMessageFromL2(m)
  PROVE  \A c, t, org : Leaving(c, t, org)'
           = Leaving(c, t, org) - (IF IsDeparture(m, c, t, org) THEN 1 ELSE 0)
<1> TAKE c, t, org
<1>1. toL1' = BagRemove(toL1, m) /\ IsABag(toL1) /\ m \in DOMAIN toL1
  BY DEF ConsumeMessageFromL2, L2TypeOK
<1>2. DOMAIN toL1' \subseteq DOMAIN toL1
  BY <1>1, BagDomains
<1> DEFINE M == Departures(c, t, org)
           N == Departures(c, t, org)'
<1>3. N = M \cap DOMAIN toL1' /\ (m \in M <=> IsDeparture(m, c, t, org))
  BY <1>1, <1>2 DEF Departures, IsDeparture
<1>4. IsFiniteSet(M) /\ M \subseteq DOMAIN toL1
  BY TokenMessages
<1>5. /\ Leaving(c, t, org)' = Copies(toL1', N)
      /\ Leaving(c, t, org) = Copies(toL1, M)
  BY DEF Leaving, Copies
<1> HIDE DEF M, N
<1> QED
  BY <1>1, <1>3, <1>4, <1>5, CopiesRemove

-----------------------------------------------------------------------------
(***************************************************************************)
(* The inductive invariant.                                                *)
(***************************************************************************)

\* The types of what L1 keeps.
BridgeTypeOK ==
  /\ contracts \in [Contract -> {L1!Z, L1!ERC20, L1!ERC721}]
  /\ coin \in [Contract -> [L1!Holder -> Nat]]
  /\ holder \in [Contract -> [Felt -> L1!Holder \cup {Nowhere}]]

\* What the exchange takes a contract for, or will be told to, L1 takes it for
\* as well: Ether has no registration, and another contract has one for ever.
KindsMatch ==
  /\ description[Ether].kind = KIND_ERC20
  /\ \A c \in Contract \ {Ether} :
       description[c].kind # 0 => contracts[c] = description[c].kind
  /\ \A m \in DOMAIN toL2 :
       m.type = "register_contract"
         => m.kind \in Kind /\ contracts[m.contract] = m.kind

\* Only tokens of collections are offered.
OffersInCollections ==
  \A o \in OrderId :
    order[o].user # Nobody
      => description[order[o].base_contract].kind = KIND_ERC721

\* Solvency, also of what L1 has not registered yet.
Solvent ==
  \A c \in Contract :
    c = Ether \/ contracts[c] # L1!ERC721 => coin[c][Vault] >= InSystem(c)

\* Where a token may be.  Tokens sent to the key 0 are lost, and may leave a
\* flag behind: the places are exact if there are none.
Home(c, t) ==
  /\ Backed(c, t) + Unbacked(c, t) <= 1
  /\ Backed(c, t) + Unbacked(c, t) = 1 => holder[c][t] \in {Vault, Nowhere}
  /\ Arriving(c, t) = 1 => holder[c][t] = Vault
  /\ Nobody \notin Recipient =>
       /\ Backed(c, t) = 1 => holder[c][t] = Vault
       /\ Unbacked(c, t) = 1 => holder[c][t] = Nowhere

HomeInv ==
  \A c \in Contract \ {Ether}, t \in Felt :
    contracts[c] # L1!ERC20 => Home(c, t)

FlagsLive == Nobody \notin Recipient => OriginLive

BridgeInv ==
  /\ AccountInv /\ EscrowBacked /\ FlagsLive
  /\ BridgeTypeOK /\ KindsMatch /\ OffersInCollections
  /\ Solvent /\ HomeInv

-----------------------------------------------------------------------------
(***************************************************************************)
(* The steps of L1, by what they do.                                       *)
(***************************************************************************)
DepositOf(u, v, c) ==
  [type |-> "deposit", from |-> L1ContractAddress, user |-> u, value |-> v,
   contract |-> c]

RegistrationOf(r) ==
  [type |-> "register_contract", from |-> L1ContractAddress,
   contract |-> r.contract, kind |-> r.kind, mint |-> r.mint]

WithdrawalOf(a, v, c, org) ==
  [address |-> a, value |-> v, contract |-> c, org |-> org]

\* To the exchange, or to another L2 contract.
MaySend(m) == SendMessageToL2(m) \/ UNCHANGED toL2

Registers(r) ==
  /\ r.kind \in Kind /\ contracts[r.contract] = L1!Z
  /\ contracts' = [contracts EXCEPT ![r.contract] = r.kind]
  /\ MaySend(RegistrationOf(r)) /\ UNCHANGED <<coin, holder, toL1>>

DepositsCoin(c, a, u, v) ==
  /\ c = Ether \/ contracts[c] = L1!ERC20
  /\ L1!MoveCoin(c, a, Vault, v)
  /\ MaySend(DepositOf(u, v, c)) /\ UNCHANGED <<contracts, holder, toL1>>

DepositsToken(c, a, u, v) ==
  /\ c # Ether /\ contracts[c] = L1!ERC721
  /\ L1!MoveToken(c, v, a, Vault)
  /\ MaySend(DepositOf(u, v, c)) /\ UNCHANGED <<contracts, coin, toL1>>

WithdrawsCoin(c, a, u, v, org) ==
  /\ c = Ether \/ contracts[c] = L1!ERC20
  /\ L1!MoveCoin(c, Vault, u, v)
  /\ ConsumeMessageFromL2(WithdrawalOf(a, v, c, org))
  /\ UNCHANGED <<contracts, holder, toL2>>

WithdrawsToken(c, a, u, v, org) ==
  /\ c # Ether /\ contracts[c] = L1!ERC721
  /\ L1!MoveToken(c, v, IF org = 1 THEN Nowhere ELSE Vault, u)
  /\ ConsumeMessageFromL2(WithdrawalOf(a, v, c, org))
  /\ UNCHANGED <<contracts, coin, toL2>>

\* A holder or a minter disposes of a token.
Disposes(c, t) ==
  /\ holder[c][t] \in Address \/ Fresh(c, t)
  /\ \E h \in L1!Holder \cup {Nowhere} : holder' = [holder EXCEPT ![c][t] = h]
  /\ UNCHANGED <<contracts, coin, toL2, toL1>>

\* Both contracts use the same message bridge.
LEMMA SameCore ==
  /\ \A f : L1!SumFunction(f) = SumFunction(f)
  /\ \A B, m : L1!BagAdd(B, m) = BagAdd(B, m)
  /\ \A B, m : L1!BagRemove(B, m) = BagRemove(B, m)
<1>1. \A f : L1!SumFunction(f) = SumFunction(f)
  BY DEF L1!SumFunction, L1!SumFunctionOnSet, L1!FoldFunctionOnSet,
         L1!MapThenFoldSet, SumFunction, SumFunctionOnSet, FoldFunctionOnSet,
         MapThenFoldSet
<1>2. \A B, m : L1!BagAdd(B, m) = BagAdd(B, m)
  BY DEF L1!BagAdd, BagAdd
<1>3. \A B, m : L1!BagRemove(B, m) = BagRemove(B, m)
  BY DEF L1!BagRemove, BagRemove
<1> QED
  BY <1>1, <1>2, <1>3

\* Every step of L1 is one of these, and none touches the exchange.
LEMMA StepsOfL1 ==
  ASSUME StepOnL1
  PROVE  /\ UNCHANGED <<storage, signer>>
         /\ \/ UNCHANGED <<contracts, coin, holder, toL2, toL1>>
            \/ \E r \in Registration : Registers(r)
            \/ \E c \in Contract, a \in Address, u \in Recipient :
                 \E v \in Inputs[c] :
                   DepositsCoin(c, a, u, v) \/ DepositsToken(c, a, u, v)
            \/ \E c \in Contract, a \in Address, u \in Address, org \in {0, 1} :
                 \E v \in Inputs[c] :
                   \/ WithdrawsCoin(c, a, u, v, org)
                   \/ WithdrawsToken(c, a, u, v, org)
            \/ \E c \in Contract \ {Ether} : \E t \in Inputs[c] : Disposes(c, t)
<1> USE L2Assumption
<1>1. ASSUME NEW toContract, NEW m, L1!Send(toContract, m) PROVE MaySend(m)
  BY <1>1, SameCore DEF L1!Send, L1!SendMessageToL2, MaySend, SendMessageToL2
<1>2. ASSUME NEW a \in Address, NEW l2, L1!Trust(a, l2)
      PROVE  UNCHANGED <<contracts, coin, holder, toL2, toL1>>
  BY <1>2 DEF L1!Trust
<1>3. ASSUME NEW a \in Address, NEW l2, NEW r \in Registration,
             L1!RegisterContract(a, l2, r.contract, r.kind, r.mint)
      PROVE  Registers(r)
  <2>1. L1!Send(l2, RegistrationOf(r))
    BY <1>3 DEF L1!RegisterContract, RegistrationOf
  <2> QED
    BY <1>1, <1>3, <2>1
    DEF L1!RegisterContract, Registers, L1!ERC20, L1!ERC721, Kind, KIND_ERC20,
        KIND_ERC721
<1>4. ASSUME NEW a \in Address, NEW l2, NEW u \in Recipient,
             NEW v \in Inputs[Ether], L1!DepositEther(a, l2, u, v)
      PROVE  DepositsCoin(Ether, a, u, v)
  <2>1. L1!Send(l2, DepositOf(u, v, Ether))
    BY <1>4 DEF L1!DepositEther, L1!SendDeposit, DepositOf
  <2> QED
    BY <1>1, <1>4, <2>1 DEF L1!DepositEther, DepositsCoin
<1>5. ASSUME NEW a \in Address, NEW l2, NEW u \in Recipient, NEW c \in Contract,
             NEW v \in Inputs[c], L1!DepositToken(a, l2, u, v, c)
      PROVE  DepositsCoin(c, a, u, v) \/ DepositsToken(c, a, u, v)
  <2>1. L1!Send(l2, DepositOf(u, v, c))
    BY <1>5 DEF L1!DepositToken, L1!SendDeposit, DepositOf
  <2> QED
    BY <1>1, <1>5, <2>1 DEF L1!DepositToken, DepositsCoin, DepositsToken
<1>6. ASSUME NEW a \in Address, NEW l2, NEW u \in Address, NEW c \in Contract,
             NEW v \in Inputs[c], NEW org \in {0, 1},
             L1!WithdrawFromL2(a, l2, u, v, c, org)
      PROVE  WithdrawsCoin(c, a, u, v, org) \/ WithdrawsToken(c, a, u, v, org)
  <2>1. ConsumeMessageFromL2(WithdrawalOf(a, v, c, org))
    BY <1>6, SameCore
    DEF L1!WithdrawFromL2, L1!ConsumeMessageFromL2, ConsumeMessageFromL2,
        WithdrawalOf
  <2> QED
    BY <1>6, <2>1 DEF L1!WithdrawFromL2, WithdrawsCoin, WithdrawsToken
<1>7. ASSUME NEW c \in Contract \ {Ether}, NEW a \in Address, NEW t \in Inputs[c],
             \/ Fresh(c, t) /\ L1!MintOnL1(c, t, a)
             \/ \E to \in L1!Holder : L1!PassOn(c, t, a, to)
             \/ L1!Burn(c, t, a)
      PROVE  Disposes(c, t)
  BY <1>7
  DEF L1!MintOnL1, L1!PassOn, L1!Burn, L1!MoveToken, Disposes, L1!Holder
<1> QED
  BY <1>2, <1>3, <1>4, <1>5, <1>6, <1>7
  DEF StepOnL1, AdminCalls, UserCalls, Collections

\* To the exchange, each is a message that comes or goes, or nothing.
LEMMA L1StepsAlone ==
  ASSUME StepOnL1 \/ UNCHANGED bridgevars
  PROVE  L1Step \/ UNCHANGED l2vars
<1> USE L2Assumption
<1>1. CASE UNCHANGED bridgevars
  BY <1>1 DEF bridgevars
<1>2. CASE StepOnL1
  <2>1. UNCHANGED <<storage, signer>>
    BY <1>2, StepsOfL1
  <2>2. CASE UNCHANGED <<toL2, toL1>>
    BY <2>1, <2>2 DEF l2vars
  <2>3. ASSUME NEW r \in Registration, MaySend(RegistrationOf(r)),
               UNCHANGED toL1
        PROVE  L1Step \/ UNCHANGED l2vars
    <3>1. CASE UNCHANGED toL2
      BY <2>2, <2>3, <3>1
    <3>2. CASE SendMessageToL2(RegistrationOf(r))
      BY <2>1, <2>3, <3>2 DEF L1Step, L1Sends, RegistrationOf
    <3> QED
      BY <2>3, <3>1, <3>2 DEF MaySend
  <2>4. ASSUME NEW c \in Contract, NEW u \in Recipient, NEW v \in Inputs[c],
               MaySend(DepositOf(u, v, c)), UNCHANGED toL1
        PROVE  L1Step \/ UNCHANGED l2vars
    <3>1. CASE UNCHANGED toL2
      BY <2>2, <2>4, <3>1
    <3>2. CASE SendMessageToL2(DepositOf(u, v, c))
      BY <2>1, <2>4, <3>2 DEF L1Step, L1Sends, DepositOf
    <3> QED
      BY <2>4, <3>1, <3>2 DEF MaySend
  <2>5. ASSUME NEW m, ConsumeMessageFromL2(m), UNCHANGED toL2
        PROVE  L1Step \/ UNCHANGED l2vars
    BY <2>1, <2>5 DEF L1Step, L1Consumes, ConsumeMessageFromL2
  <2> QED
    BY <1>2, <2>2, <2>3, <2>4, <2>5, StepsOfL1
    DEF Registers, DepositsCoin, DepositsToken, WithdrawsCoin, WithdrawsToken,
        Disposes
<1> QED
  BY <1>1, <1>2

\* Every step of both chains is one of the exchange with any L1 around it.
LEMMA StepsOfExchange ==
  ASSUME [BridgeNext]_bridgevars
  PROVE  [L2Next]_l2vars
<1>1. CASE StepOnL1 \/ UNCHANGED bridgevars
  BY <1>1, L1StepsAlone DEF L2Next
<1>2. CASE StepOnL2
  <2>1. ASSUME NEW sig \in User, FreshMint(sig) PROVE Minting(sig)
    BY <2>1 DEF FreshMint, Minting, MayIntroduce, Fresh, OnL2
  <2> QED
    BY <1>2, <2>1 DEF StepOnL2, L2Next
<1> QED
  BY <1>1, <1>2 DEF BridgeNext

-----------------------------------------------------------------------------
(***************************************************************************)
(* Types and kinds.                                                        *)
(***************************************************************************)

\* What the exchange does leaves L1 alone.
LEMMA StepsOfL2 ==
  ASSUME StepOnL2
  PROVE  /\ UNCHANGED <<contracts, coin, holder>>
         /\ \/ \E m \in DOMAIN toL2 : RegisterContract(m)
            \/ \E m \in DOMAIN toL2 : m.type = "deposit" /\ Deposit(m)
            \/ \E sig \in User :
                 \/ \E c \in Contract : \E v \in Inputs[c], u \in Recipient :
                      Fresh(c, v) /\ Mint(sig, u, v, c)
                 \/ Transaction(sig)
BY DEF StepOnL2, L1Handler, FreshMint

\* L1 keeps its types.
LEMMA BridgeTypeStep ==
  ASSUME BridgeTypeOK, [BridgeNext]_bridgevars
  PROVE  BridgeTypeOK'
<1> USE BridgeAssumption, L2Assumption, FieldAssumption
<1>1. ASSUME UNCHANGED <<contracts, coin, holder>> PROVE BridgeTypeOK'
  BY <1>1 DEF BridgeTypeOK
<1>2. ASSUME NEW c \in Contract, NEW v \in Felt, NEW from \in L1!Holder,
             NEW to \in L1!Holder, from # to, L1!MoveCoin(c, from, to, v)
      PROVE  coin' \in [Contract -> [L1!Holder -> Nat]]
  <2>1. coin[c] \in [L1!Holder -> Nat] /\ coin[c][from] >= v /\ v \in Nat
    BY <1>2 DEF BridgeTypeOK, L1!MoveCoin, Felt
  <2>2. coin[c][from] - v \in Nat /\ coin[c][to] + v \in Nat
    BY <1>2, <2>1
  <2>3. coin \in [Contract -> [L1!Holder -> Nat]]
    BY DEF BridgeTypeOK
  <2>4. \A d \in Contract : coin'[d] \in [L1!Holder -> Nat]
    BY <1>2, <2>1, <2>2, <2>3 DEF L1!MoveCoin
  <2> QED
    BY <1>2, <2>3, <2>4 DEF L1!MoveCoin
<1>3. ASSUME NEW c \in Contract, NEW t \in Felt, NEW from,
             NEW to \in L1!Holder \cup {Nowhere}, L1!MoveToken(c, t, from, to)
      PROVE  holder' \in [Contract -> [Felt -> L1!Holder \cup {Nowhere}]]
  BY <1>3 DEF BridgeTypeOK, L1!MoveToken
<1>4. ASSUME NEW a \in Address
      PROVE  a \in L1!Holder /\ Vault \in L1!Holder /\ a # Vault
  BY DEF L1!Holder
<1>5. CASE StepOnL1
  <2>1. ASSUME NEW r \in Registration, Registers(r) PROVE BridgeTypeOK'
    BY <2>1
    DEF Registers, BridgeTypeOK, Kind, KIND_ERC20, KIND_ERC721, L1!Z, L1!ERC20,
        L1!ERC721
  <2>2. ASSUME NEW c \in Contract, NEW a \in Address, NEW u, NEW v \in Inputs[c],
               DepositsCoin(c, a, u, v) \/ DepositsToken(c, a, u, v)
        PROVE  BridgeTypeOK'
    <3>1. v \in Felt
      BY InputsAreFelts
    <3> QED
      BY <1>2, <1>3, <1>4, <2>2, <3>1 DEF DepositsCoin, DepositsToken, BridgeTypeOK
  <2>3. ASSUME NEW c \in Contract, NEW a, NEW u \in Address, NEW org,
               NEW v \in Inputs[c],
               WithdrawsCoin(c, a, u, v, org) \/ WithdrawsToken(c, a, u, v, org)
        PROVE  BridgeTypeOK'
    <3>1. v \in Felt
      BY InputsAreFelts
    <3> QED
      BY <1>2, <1>3, <1>4, <2>3, <3>1 DEF WithdrawsCoin, WithdrawsToken, BridgeTypeOK
  <2>4. ASSUME NEW c \in Contract \ {Ether}, NEW t \in Inputs[c], Disposes(c, t)
        PROVE  BridgeTypeOK'
    <3>1. t \in Felt
      BY InputsAreFelts
    <3> QED
      BY <2>4, <3>1 DEF Disposes, BridgeTypeOK
  <2> QED
    BY <1>1, <1>5, <2>1, <2>2, <2>3, <2>4, StepsOfL1
<1> QED
  BY <1>1, <1>5, StepsOfL2 DEF BridgeNext, bridgevars

\* What users sign registers no contract and handles no message.
LEMMA TransactionsAlone ==
  ASSUME NEW sig, Transaction(sig)
  PROVE  UNCHANGED <<description, toL2>>
<1>1. ASSUME NEW paus, SetPause(sig, paus) PROVE UNCHANGED <<description, toL2>>
  BY <1>1 DEF SetPause
<1>2. ASSUME NEW u, NEW a, RegisterClient(sig, u, a)
      PROVE  UNCHANGED <<description, toL2>>
  BY <1>2 DEF RegisterClient
<1>3. ASSUME NEW c, NEW v, NEW u, NEW a, Withdraw(sig, u, v, c, a)
      PROVE  UNCHANGED <<description, toL2>>
  BY <1>3 DEF Withdraw
<1>4. ASSUME NEW c, NEW v, NEW from, NEW to, Transfer(sig, from, to, v, c)
      PROVE  UNCHANGED <<description, toL2>>
  BY <1>4 DEF Transfer
<1>5. ASSUME NEW o, NEW u, NEW bid, NEW bc, NEW qc, NEW t, NEW q,
             CreateOrder(sig, o, u, bid, bc, t, qc, q)
      PROVE  UNCHANGED <<description, toL2>>
  BY <1>5 DEF CreateOrder
<1>6. ASSUME NEW o, NEW u, FulfillOrder(sig, o, u)
      PROVE  UNCHANGED <<description, toL2>>
  BY <1>6 DEF FulfillOrder
<1>7. ASSUME NEW o, CancelOrder(sig, o) PROVE UNCHANGED <<description, toL2>>
  BY <1>7 DEF CancelOrder
<1> QED
  BY <1>1, <1>2, <1>3, <1>4, <1>5, <1>6, <1>7 DEF Transaction

\* The two chains take a contract for the same kind as registrations arrive.
LEMMA KindsMatchStep ==
  ASSUME L2TypeOK, BridgeTypeOK, KindsMatch, [BridgeNext]_bridgevars
  PROVE  KindsMatch'
<1>1. ASSUME UNCHANGED <<description, contracts>>,
             \A m \in DOMAIN toL2' :
               m \in DOMAIN toL2 \/ m.type = "deposit"
      PROVE  KindsMatch'
  BY <1>1 DEF KindsMatch
<1>2. ASSUME NEW m, MaySend(m) PROVE DOMAIN toL2' \subseteq DOMAIN toL2 \cup {m}
  <2>1. CASE UNCHANGED toL2
    BY <2>1
  <2>2. CASE SendMessageToL2(m)
    <3>1. toL2' = BagAdd(toL2, m) /\ IsABag(toL2)
      BY <2>2 DEF SendMessageToL2, L2TypeOK
    <3>2. DOMAIN BagAdd(toL2, m) = DOMAIN toL2 \cup {m}
      BY <3>1, BagDomains
    <3> QED
      BY <3>1, <3>2
  <2> QED
    BY <1>2, <2>1, <2>2 DEF MaySend
<1>3. ASSUME NEW r \in Registration, Registers(r), UNCHANGED description
      PROVE  KindsMatch'
  <2> DEFINE m == RegistrationOf(r)
  <2>1. /\ m.type = "register_contract" /\ m.kind = r.kind
        /\ m.contract = r.contract /\ r.kind \in Kind /\ r.contract \in Contract
    BY <1>3, L2Assumption DEF RegistrationOf, Registers
  <2>2. DOMAIN toL2' \subseteq DOMAIN toL2 \cup {m}
    BY <1>2, <1>3 DEF Registers
  <2>3. contracts[r.contract] = 0
        /\ \A c \in Contract : contracts'[c] = IF c = r.contract THEN r.kind
                                                            ELSE contracts[c]
    BY <1>3, <2>1 DEF Registers, BridgeTypeOK, L1!Z
  <2>4. ASSUME NEW n \in DOMAIN toL2', n.type = "register_contract"
        PROVE  n.kind \in Kind /\ contracts'[n.contract] = n.kind
    <3>1. CASE n \in DOMAIN toL2
      <4>1. n.contract \in Contract
        BY <2>4, <3>1 DEF L2TypeOK, Message, RegisterMessage, DepositMessage
      <4> QED
        BY <2>3, <2>4, <3>1, <4>1
        DEF KindsMatch, Kind, KIND_ERC20, KIND_ERC721
    <3>2. CASE n = m
      BY <2>1, <2>3, <3>2
    <3> QED
      BY <2>2, <3>1, <3>2
  <2>5. \A c \in Contract \ {Ether} :
          description[c].kind # 0 => contracts'[c] = description[c].kind
    BY <2>3 DEF KindsMatch
  <2> QED
    BY <1>3, <2>4, <2>5 DEF KindsMatch
<1>4. CASE StepOnL1
  <2>1. UNCHANGED description
    BY <1>4, StepsOfL1 DEF storage
  <2>2. ASSUME NEW c \in Contract, NEW a \in Address, NEW u, NEW v,
               DepositsCoin(c, a, u, v) \/ DepositsToken(c, a, u, v)
        PROVE  KindsMatch'
    <3>1. /\ DOMAIN toL2' \subseteq DOMAIN toL2 \cup {DepositOf(u, v, c)}
          /\ UNCHANGED contracts
      BY <1>2, <2>2 DEF DepositsCoin, DepositsToken
    <3>2. DepositOf(u, v, c).type = "deposit"
      BY DEF DepositOf
    <3> QED
      BY <1>1, <2>1, <3>1, <3>2
  <2>3. ASSUME UNCHANGED <<toL2, contracts>> PROVE KindsMatch'
    BY <1>1, <2>1, <2>3
  <2> QED
    BY <1>3, <1>4, <2>1, <2>2, <2>3, StepsOfL1
    DEF WithdrawsCoin, WithdrawsToken, Disposes
<1>5. CASE StepOnL2
  <2>1. UNCHANGED contracts
    BY <1>5, StepsOfL2
  <2>2. ASSUME NEW m \in DOMAIN toL2, RegisterContract(m) PROVE KindsMatch'
    <3>1. /\ m.type = "register_contract" /\ m.contract \in Contract
          /\ toL2' = BagRemove(toL2, m)
      BY <2>2
      DEF RegisterContract, HandleMessageFromL1, L2TypeOK, Message,
          RegisterMessage, DepositMessage
    <3>2. DOMAIN toL2' \subseteq DOMAIN toL2
      BY <3>1, BagDomains DEF L2TypeOK
    <3>3. /\ description[m.contract].kind = 0
          /\ \A c \in Contract :
               description'[c].kind = IF c = m.contract THEN m.kind
                                                   ELSE description[c].kind
      BY <2>2, <3>1 DEF RegisterContract, Unregistered, L2TypeOK
    <3> QED
      BY <2>1, <2>2, <3>1, <3>2, <3>3, L2Assumption DEF KindsMatch, KIND_ERC20
  <2>3. ASSUME NEW m \in DOMAIN toL2, Deposit(m) PROVE KindsMatch'
    <3>1. UNCHANGED description /\ toL2' = BagRemove(toL2, m)
      BY <2>3 DEF Deposit, HandleMessageFromL1
    <3>2. DOMAIN toL2' \subseteq DOMAIN toL2
      BY <3>1, BagDomains DEF L2TypeOK
    <3> QED
      BY <1>1, <2>1, <3>1, <3>2
  <2>4. ASSUME NEW sig, NEW c, NEW v, NEW u, Mint(sig, u, v, c)
        PROVE  UNCHANGED <<description, toL2>>
    BY <2>4 DEF Mint
  <2>5. ASSUME NEW sig, Transaction(sig) PROVE UNCHANGED <<description, toL2>>
    BY <2>5, TransactionsAlone
  <2>6. ASSUME UNCHANGED <<description, toL2>> PROVE KindsMatch'
    BY <1>1, <2>1, <2>6
  <2> QED
    BY <1>5, <2>2, <2>3, <2>4, <2>5, <2>6, StepsOfL2
<1>6. CASE UNCHANGED bridgevars
  BY <1>1, <1>6 DEF bridgevars, l2vars, storage
<1> QED
  BY <1>4, <1>5, <1>6 DEF BridgeNext

\* create_order checks the kind of what it offers, which never changes.
LEMMA OffersStep ==
  ASSUME L2TypeOK, OffersInCollections, [L2Next]_l2vars
  PROVE  OffersInCollections'
<1>1. \A c \in Contract : description[c].kind = KIND_ERC721
                            => description'[c].kind = KIND_ERC721
  BY KindsAndOriginsStep DEF KindsAndOrigins, KIND_ERC721
<1>2. ASSUME \A o \in OrderId :
               \/ order'[o].user = order[o].user
                  /\ order'[o].base_contract = order[o].base_contract
               \/ description[order'[o].base_contract].kind = KIND_ERC721
                  /\ order'[o].base_contract \in Contract
      PROVE  OffersInCollections'
  BY <1>1, <1>2 DEF OffersInCollections, L2TypeOK, LimitOrder
<1>3. ASSUME UNCHANGED order PROVE OffersInCollections'
  BY <1>2, <1>3
<1>4. CASE UNCHANGED l2vars
  BY <1>3, <1>4 DEF l2vars, storage
<1>5. CASE L1Step \/ L1Handler
  BY <1>3, <1>5
  DEF L1Step, L1Sends, L1Consumes, storage, L1Handler, RegisterContract, Deposit
<1>6. ASSUME NEW sig \in User, Minting(sig) \/ Transaction(sig)
      PROVE  OffersInCollections'
  <2>1. ASSUME NEW o \in OrderId, NEW user, NEW bid, NEW bc \in Contract,
               NEW qc, NEW t, NEW q, CreateOrder(sig, o, user, bid, bc, t, qc, q)
        PROVE  OffersInCollections'
    <3>1. \A p \in OrderId \ {o} : order'[p] = order[p]
      BY <2>1 DEF CreateOrder, L2TypeOK
    <3>2. order'[o].base_contract = bc /\ description[bc].kind = KIND_ERC721
      BY <2>1 DEF CreateOrder, L2TypeOK
    <3> QED
      BY <1>2, <3>1, <3>2
  <2>2. ASSUME NEW o \in OrderId, NEW s, Close(o, s) PROVE OffersInCollections'
    <3>1. \A p \in OrderId \ {o} : order'[p] = order[p]
      BY <2>2 DEF Close, L2TypeOK
    <3>2. order'[o] = [order[o] EXCEPT !.state = s] /\ order[o] \in LimitOrder
      BY <2>2 DEF Close, L2TypeOK
    <3>3. /\ order'[o].user = order[o].user
          /\ order'[o].base_contract = order[o].base_contract
      BY <3>2 DEF LimitOrder
    <3> QED
      BY <1>2, <3>1, <3>3
  <2>3. CASE Minting(sig)
    BY <1>3, <2>3 DEF Minting, Mint
  <2>4. /\ \A paus : SetPause(sig, paus) => UNCHANGED order
        /\ \A user, a : RegisterClient(sig, user, a) => UNCHANGED order
        /\ \A user, v, c, a : Withdraw(sig, user, v, c, a) => UNCHANGED order
        /\ \A from, to, v, c : Transfer(sig, from, to, v, c) => UNCHANGED order
    BY DEF SetPause, RegisterClient, Withdraw, Transfer
  <2>5. ASSUME NEW o \in OrderId, NEW user, FulfillOrder(sig, o, user)
        PROVE  OffersInCollections'
    BY <2>2, <2>5 DEF FulfillOrder
  <2>6. ASSUME NEW o \in OrderId, CancelOrder(sig, o)
        PROVE  OffersInCollections'
    BY <2>2, <2>6 DEF CancelOrder
  <2> QED
    BY <1>3, <1>6, <2>1, <2>3, <2>4, <2>5, <2>6 DEF Transaction
<1> QED
  BY <1>4, <1>5, <1>6 DEF L2Next

-----------------------------------------------------------------------------
(***************************************************************************)
(* Solvency.                                                               *)
(***************************************************************************)

\* What L1 puts in a message is well typed.
LEMMA MessagesTyped ==
  /\ \A u \in Recipient, c \in Contract : \A v \in Inputs[c] :
       DepositOf(u, v, c) \in DepositMessage
  /\ \A r \in Registration : RegistrationOf(r) \in RegisterMessage
BY L2Assumption
DEF DepositOf, RegistrationOf, DepositMessage, RegisterMessage

\* What is on the way in grows by a deposit that L1 sends to the exchange.
LEMMA IncomingSent ==
  ASSUME L2TypeOK, FiniteBags, NEW m \in Message, SendMessageToL2(m),
         NEW c \in Contract
  PROVE  Incoming(c)' = Incoming(c)
           + (IF /\ m.type = "deposit" /\ m.from = L1ContractAddress
                 /\ m.contract = c
              THEN m.value ELSE 0)
<1> DEFINE M == DepositsInFlight(c)
           N == DepositsInFlight(c)'
<1>1. IsABag(toL2) /\ toL2' = BagAdd(toL2, m) /\ DOMAIN toL2' = DOMAIN toL2 \cup {m}
  BY BagDomains DEF SendMessageToL2, L2TypeOK
<1>2. /\ N \subseteq DOMAIN toL2 \cup {m} /\ M = N \cap DOMAIN toL2
      /\ m \in N <=> /\ m.type = "deposit" /\ m.from = L1ContractAddress
                     /\ m.contract = c
  BY <1>1 DEF DepositsInFlight
<1>3. IsFiniteSet(N)
  <2> DEFINE D == DOMAIN toL2 \cup {m}
  <2>1. IsFiniteSet(D)
    BY FS_AddElement DEF FiniteBags
  <2>2. N \subseteq D
    BY <1>2
  <2> HIDE DEF M, N, D
  <2> QED
    BY <2>1, <2>2, FS_Subset
<1>4. \A n \in N : n.value \in Nat
  <2>1. \A n \in N : n \in DepositMessage
    BY <1>1, <1>2
    DEF DepositsInFlight, L2TypeOK, Message, RegisterMessage, DepositMessage
  <2>2. \A n \in DepositMessage : n.value \in Nat
    BY FieldAssumption DEF DepositMessage, Felt
  <2> QED
    BY <2>1, <2>2
<1>5. Incoming(c) = Carried(toL2, M) /\ Incoming(c)' = Carried(toL2', N)
  BY DEF Incoming, Carried
<1> HIDE DEF M, N
<1>6. Carried(BagAdd(toL2, m), N)
        = Carried(toL2, M) + (IF m \in N THEN m.value ELSE 0)
  BY <1>1, <1>2, <1>3, <1>4, CarriedAdd
<1> QED
  BY <1>1, <1>2, <1>5, <1>6

\* What is on the way out shrinks by a withdrawal that L1 pays.
LEMMA OutgoingConsumed ==
  ASSUME L2TypeOK, FiniteBags, NEW m, ConsumeMessageFromL2(m),
         NEW c \in Contract
  PROVE  Outgoing(c)' = Outgoing(c) - (IF m.contract = c THEN m.value ELSE 0)
<1> DEFINE M == WithdrawalsInFlight(c)
           N == WithdrawalsInFlight(c)'
<1>1. IsABag(toL1) /\ m \in DOMAIN toL1 /\ toL1' = BagRemove(toL1, m)
  BY DEF ConsumeMessageFromL2, L2TypeOK
<1>2. /\ M \subseteq DOMAIN toL1 /\ N = M \cap DOMAIN BagRemove(toL1, m)
      /\ m \in M <=> m.contract = c
  BY <1>1, BagDomains DEF WithdrawalsInFlight
<1>3. IsFiniteSet(M)
  BY <1>2, FS_Subset DEF FiniteBags
<1>4. \A n \in M : n.value \in Nat
  BY FieldAssumption DEF WithdrawalsInFlight, L2TypeOK, WithdrawMessage, Felt
<1>5. Outgoing(c) = Carried(toL1, M) /\ Outgoing(c)' = Carried(toL1', N)
  BY DEF Outgoing, Carried
<1> HIDE DEF M, N
<1>6. Carried(BagRemove(toL1, m), N)
        = Carried(toL1, M) - (IF m \in M THEN m.value ELSE 0)
  BY <1>1, <1>2, <1>3, <1>4, CarriedRemove
<1> QED
  BY <1>1, <1>2, <1>5, <1>6

\* L1 takes a coin into the vault before it sends the deposit, and consumes the
\* withdrawal as it pays.
LEMMA SolventOnL1 ==
  ASSUME L2TypeOK, FiniteBags, BridgeTypeOK, Solvent, StepOnL1
  PROVE  Solvent'
<1> USE BridgeAssumption, L2Assumption
<1>1. \A c \in Contract : Owed(c)' = Owed(c)
  <2>1. UNCHANGED <<balance, order>>
    BY StepsOfL1 DEF storage
  <2> QED
    BY <2>1 DEF Owed, Wealth, Reserved, OpenBids, Open
<1>2. \A c \in Contract :
        /\ coin[c][Vault] \in Nat
        /\ Owed(c) \in Nat /\ Incoming(c) \in Nat /\ Outgoing(c) \in Nat
  BY WealthNat, InFlightNat DEF BridgeTypeOK, L1!Holder
<1>3. UNCHANGED toL2 => \A c \in Contract : Incoming(c)' = Incoming(c)
  BY DEF Incoming, DepositsInFlight, Carried
<1>4. UNCHANGED toL1 => \A c \in Contract : Outgoing(c)' = Outgoing(c)
  BY DEF Outgoing, WithdrawalsInFlight, Carried
<1>5. ASSUME UNCHANGED contracts,
             \A c \in Contract :
               c = Ether \/ contracts[c] # L1!ERC721 =>
                 coin'[c][Vault] - coin[c][Vault]
                   >= (Incoming(c)' - Incoming(c)) + (Outgoing(c)' - Outgoing(c)),
             \A c \in Contract :
               coin'[c][Vault] \in Int /\ Incoming(c)' \in Int /\ Outgoing(c)' \in Int
      PROVE  Solvent'
  BY <1>1, <1>2, <1>5 DEF Solvent, InSystem
<1>6. CASE UNCHANGED <<contracts, coin, holder, toL2, toL1>>
  BY <1>1, <1>3, <1>4, <1>6 DEF Solvent, InSystem
<1>7. ASSUME NEW r \in Registration, Registers(r) PROVE Solvent'
  <2>1. \A c \in Contract : Incoming(c)' = Incoming(c)
    <3>1. CASE SendMessageToL2(RegistrationOf(r))
      <4>1. /\ RegistrationOf(r) \in Message
            /\ RegistrationOf(r).type # "deposit"
        BY MessagesTyped DEF Message, RegistrationOf
      <4> QED
        BY <1>2, <3>1, <4>1, IncomingSent
    <3> QED
      BY <1>3, <1>7, <3>1 DEF Registers, MaySend
  <2>2. \A c \in Contract : contracts'[c] # L1!ERC721 => contracts[c] # L1!ERC721
    BY <1>7 DEF Registers, BridgeTypeOK, L1!Z, L1!ERC721
  <2>3. UNCHANGED coin /\ \A c \in Contract : InSystem(c)' = InSystem(c)
    BY <1>1, <1>4, <1>7, <2>1 DEF Registers, InSystem
  <2> QED
    BY <2>2, <2>3 DEF Solvent
<1>8. ASSUME NEW d \in Contract, NEW a \in Address, NEW u \in Recipient,
             NEW v \in Inputs[d], MaySend(DepositOf(u, v, d))
      PROVE  /\ v \in Nat
             /\ \A c \in Contract : Incoming(c)' \in Nat
                  /\ Incoming(c)' <= Incoming(c) + (IF c = d THEN v ELSE 0)
  <2>1. v \in Nat
    BY InputsAreFelts, FieldAssumption DEF Felt
  <2>2. CASE UNCHANGED toL2
    BY <1>2, <1>3, <2>1, <2>2
  <2>3. CASE SendMessageToL2(DepositOf(u, v, d))
    <3>1. /\ DepositOf(u, v, d) \in Message
          /\ DepositOf(u, v, d).value = v /\ DepositOf(u, v, d).contract = d
      BY MessagesTyped DEF Message, DepositOf
    <3> QED
      BY <1>2, <2>1, <2>3, <3>1, IncomingSent
  <2> QED
    BY <1>8, <2>1, <2>2, <2>3 DEF MaySend
<1>9. ASSUME NEW d \in Contract, NEW a \in Address, NEW u \in Recipient,
             NEW v \in Inputs[d], DepositsCoin(d, a, u, v)
      PROVE  Solvent'
  <2>1. \A c \in Contract :
          coin'[c][Vault] = coin[c][Vault] + (IF c = d THEN v ELSE 0)
    BY <1>9 DEF DepositsCoin, L1!MoveCoin, BridgeTypeOK, L1!Holder
  <2>2. /\ v \in Nat
        /\ \A c \in Contract : Incoming(c)' \in Nat
             /\ Incoming(c)' <= Incoming(c) + (IF c = d THEN v ELSE 0)
    BY <1>8, <1>9 DEF DepositsCoin
  <2>3. \A c \in Contract : Outgoing(c)' = Outgoing(c)
    BY <1>4, <1>9 DEF DepositsCoin
  <2>4. UNCHANGED contracts
    BY <1>9 DEF DepositsCoin
  <2> QED
    BY <1>2, <1>5, <2>1, <2>2, <2>3, <2>4
<1>10. ASSUME NEW d \in Contract, NEW a \in Address, NEW u \in Recipient,
              NEW v \in Inputs[d], DepositsToken(d, a, u, v)
       PROVE  Solvent'
  <2>1. /\ v \in Nat
        /\ \A c \in Contract : Incoming(c)' \in Nat
             /\ Incoming(c)' <= Incoming(c) + (IF c = d THEN v ELSE 0)
    BY <1>8, <1>10 DEF DepositsToken
  <2>2. \A c \in Contract : Outgoing(c)' = Outgoing(c)
    BY <1>4, <1>10 DEF DepositsToken
  <2>3. UNCHANGED <<contracts, coin>> /\ d # Ether /\ contracts[d] = L1!ERC721
    BY <1>10 DEF DepositsToken
  <2> QED
    BY <1>2, <1>5, <2>1, <2>2, <2>3
<1>11. ASSUME NEW d \in Contract, NEW a \in Address, NEW u \in Address,
              NEW org \in {0, 1}, NEW v \in Inputs[d],
              ConsumeMessageFromL2(WithdrawalOf(a, v, d, org))
       PROVE  v \in Nat /\ \A c \in Contract :
                Outgoing(c)' = Outgoing(c) - (IF c = d THEN v ELSE 0)
  <2>1. v \in Nat
    BY InputsAreFelts, FieldAssumption DEF Felt
  <2>2. /\ WithdrawalOf(a, v, d, org).value = v
        /\ WithdrawalOf(a, v, d, org).contract = d
    BY DEF WithdrawalOf
  <2> QED
    BY <1>2, <1>11, <2>1, <2>2, OutgoingConsumed
<1>12. ASSUME NEW d \in Contract, NEW a \in Address, NEW u \in Address,
              NEW org \in {0, 1}, NEW v \in Inputs[d],
              WithdrawsCoin(d, a, u, v, org)
       PROVE  Solvent'
  <2>1. v \in Nat /\ \A c \in Contract :
          Outgoing(c)' = Outgoing(c) - (IF c = d THEN v ELSE 0)
    BY <1>11, <1>12 DEF WithdrawsCoin
  <2>2. \A c \in Contract :
          coin'[c][Vault] = coin[c][Vault] - (IF c = d THEN v ELSE 0)
    BY <1>12, <2>1 DEF WithdrawsCoin, L1!MoveCoin, BridgeTypeOK, L1!Holder
  <2>3. \A c \in Contract : Incoming(c)' = Incoming(c)
    BY <1>3, <1>12 DEF WithdrawsCoin
  <2>4. UNCHANGED contracts
    BY <1>12 DEF WithdrawsCoin
  <2> QED
    BY <1>2, <1>5, <2>1, <2>2, <2>3, <2>4
<1>13. ASSUME NEW d \in Contract, NEW a \in Address, NEW u \in Address,
              NEW org \in {0, 1}, NEW v \in Inputs[d],
              WithdrawsToken(d, a, u, v, org)
       PROVE  Solvent'
  <2>1. v \in Nat /\ \A c \in Contract :
          Outgoing(c)' = Outgoing(c) - (IF c = d THEN v ELSE 0)
    BY <1>11, <1>13 DEF WithdrawsToken
  <2>2. \A c \in Contract : Incoming(c)' = Incoming(c)
    BY <1>3, <1>13 DEF WithdrawsToken
  <2>3. UNCHANGED <<contracts, coin>>
    BY <1>13 DEF WithdrawsToken
  <2> QED
    BY <1>2, <1>5, <2>1, <2>2, <2>3
<1>14. ASSUME NEW d, NEW t, Disposes(d, t) PROVE Solvent'
  BY <1>1, <1>3, <1>4, <1>14 DEF Disposes, Solvent, InSystem
<1> QED
  BY <1>6, <1>7, <1>9, <1>10, <1>12, <1>13, <1>14, StepsOfL1

\* The exchange makes no promise that it was not paid for.
LEMMA SolventStep ==
  ASSUME AccountInv, BridgeTypeOK, KindsMatch, Solvent, [BridgeNext]_bridgevars
  PROVE  Solvent'
<1>1. L2TypeOK /\ FiniteBags
  BY DEF AccountInv
<1>2. CASE StepOnL1
  BY <1>1, <1>2, SolventOnL1
<1>3. CASE StepOnL2
  <2>1. /\ UNCHANGED <<contracts, coin>>
        /\ L1Handler \/ \E sig \in User : Minting(sig) \/ Transaction(sig)
    BY <1>3 DEF StepOnL2, FreshMint, Minting, MayIntroduce, Fresh, OnL2
  <2>2. ASSUME NEW c \in Contract, c = Ether \/ contracts[c] # L1!ERC721
        PROVE  coin[c][Vault] >= InSystem(c)'
    <3>1. description[c].kind # KIND_ERC721
      BY <2>2 DEF KindsMatch, KIND_ERC20, KIND_ERC721, L1!ERC721
    <3>2. InSystem(c)' \in {InSystem(c), InSystem(c) - P}
      BY <2>1, <3>1, ValueKept DEF Kept
    <3>3. InSystem(c) \in Int /\ coin[c][Vault] \in Int /\ P \in Nat
      BY <1>1, WealthNat, InFlightNat, FieldAssumption
      DEF InSystem, BridgeTypeOK, L1!Holder
    <3> QED
      BY <2>2, <3>2, <3>3 DEF Solvent
  <2> QED
    BY <2>1, <2>2 DEF Solvent
<1>4. CASE UNCHANGED bridgevars
  BY <1>4
  DEF Solvent, bridgevars, l2vars, storage, InSystem, Owed, Wealth, Reserved,
      OpenBids, Open, Incoming, Outgoing, DepositsInFlight,
      WithdrawalsInFlight, Carried
<1> QED
  BY <1>2, <1>3, <1>4 DEF BridgeNext

-----------------------------------------------------------------------------
(***************************************************************************)
(* One home.                                                               *)
(***************************************************************************)

\* The counts of the places of a token are natural numbers.
Counted(c, t) ==
  /\ Arriving(c, t) \in Nat
  /\ Leaving(c, t, 0) \in Nat /\ Leaving(c, t, 1) \in Nat

\* A token with a home is in one of its places at most, once.
LEMMA OnePlace ==
  ASSUME NEW c, NEW t, Home(c, t), Counted(c, t)
  PROVE  /\ Held(c, t, 0) \in {0, 1} /\ Held(c, t, 1) \in {0, 1}
         /\ Backed(c, t) + Unbacked(c, t) \in {0, 1}
         /\ Backed(c, t) + Unbacked(c, t) = 0
              => /\ Arriving(c, t) = 0
                 /\ Leaving(c, t, 0) = 0 /\ Leaving(c, t, 1) = 0
                 /\ Held(c, t, 0) = 0 /\ Held(c, t, 1) = 0
         /\ Arriving(c, t) # 0
              => /\ Arriving(c, t) = 1
                 /\ Leaving(c, t, 0) = 0 /\ Leaving(c, t, 1) = 0
                 /\ Held(c, t, 0) = 0 /\ Held(c, t, 1) = 0
         /\ Leaving(c, t, 0) # 0
              => /\ Arriving(c, t) = 0
                 /\ Leaving(c, t, 0) = 1 /\ Leaving(c, t, 1) = 0
                 /\ Held(c, t, 0) = 0 /\ Held(c, t, 1) = 0
         /\ Leaving(c, t, 1) # 0
              => /\ Arriving(c, t) = 0
                 /\ Leaving(c, t, 0) = 0 /\ Leaving(c, t, 1) = 1
                 /\ Held(c, t, 0) = 0 /\ Held(c, t, 1) = 0
         /\ Held(c, t, 0) # 0 \/ Held(c, t, 1) # 0
              => /\ Arriving(c, t) = 0
                 /\ Leaving(c, t, 0) = 0 /\ Leaving(c, t, 1) = 0
<1> DEFINE a == Arriving(c, t)
           l0 == Leaving(c, t, 0)
           l1 == Leaving(c, t, 1)
           h0 == Held(c, t, 0)
           h1 == Held(c, t, 1)
<1>1. h0 \in {0, 1} /\ h1 \in {0, 1}
  BY DEF Held
<1>2. a \in Nat /\ l0 \in Nat /\ l1 \in Nat
  BY DEF Counted
<1>3. /\ Backed(c, t) = a + l0 + h0 /\ Unbacked(c, t) = l1 + h1
      /\ Backed(c, t) + Unbacked(c, t) <= 1
  BY DEF Home, Backed, Unbacked
<1> HIDE DEF a, l0, l1, h0, h1
<1>4. (a + l0 + h0) + (l1 + h1) <= 1
  BY <1>3
<1>5. /\ (a + l0 + h0) + (l1 + h1) \in {0, 1}
      /\ (a + l0 + h0) + (l1 + h1) = 0
            => a = 0 /\ l0 = 0 /\ l1 = 0 /\ h0 = 0 /\ h1 = 0
      /\ a # 0 => a = 1 /\ l0 = 0 /\ l1 = 0 /\ h0 = 0 /\ h1 = 0
      /\ l0 # 0 => a = 0 /\ l0 = 1 /\ l1 = 0 /\ h0 = 0 /\ h1 = 0
      /\ l1 # 0 => a = 0 /\ l0 = 0 /\ l1 = 1 /\ h0 = 0 /\ h1 = 0
      /\ h0 # 0 \/ h1 # 0 => a = 0 /\ l0 = 0 /\ l1 = 0
  BY <1>1, <1>2, <1>4
<1>6. Backed(c, t) + Unbacked(c, t) = (a + l0 + h0) + (l1 + h1)
  BY <1>3
<1> QED
  BY <1>1, <1>5, <1>6 DEF a, l0, l1, h0, h1

\* A token that leaves some of its places and enters none keeps its home.
LEMMA HomeFewer ==
  ASSUME NEW c, NEW t, Home(c, t), Counted(c, t), Counted(c, t)',
         holder'[c][t] = holder[c][t],
         Arriving(c, t)' <= Arriving(c, t),
         \A org \in {0, 1} : Leaving(c, t, org)' <= Leaving(c, t, org),
         OnL2(c, t)' => OnL2(c, t), origin'[c][t] = origin[c][t]
  PROVE  Home(c, t)'
<1>1. \A org \in {0, 1} : /\ Held(c, t, org)' <= Held(c, t, org)
                         /\ Held(c, t, org)' \in {0, 1}
                         /\ Held(c, t, org) \in {0, 1}
  BY DEF Held
<1> QED
  BY <1>1 DEF Home, Backed, Unbacked, Counted

\* A token that is in none of these places may be anywhere on L1.
LEMMA HomeNone ==
  ASSUME NEW c, NEW t, Counted(c, t)', Arriving(c, t)' = 0,
         \A org \in {0, 1} : Leaving(c, t, org)' = 0, ~OnL2(c, t)'
  PROVE  Home(c, t)'
<1>1. \A org \in {0, 1} : Held(c, t, org)' = 0
  BY DEF Held
<1> QED
  BY <1>1 DEF Home, Backed, Unbacked, Counted

\* A token that an L1 user holds, or that does not exist, is in none of them.
LEMMA HomeOfWallet ==
  ASSUME L2TypeOK, FiniteBags, NEW c \in Contract, NEW t \in Felt,
         Home(c, t), Counted(c, t),
         holder[c][t] \in Address \/ Fresh(c, t)
  PROVE  /\ Arriving(c, t) = 0 /\ ~OnL2(c, t)
         /\ \A org \in {0, 1} : Leaving(c, t, org) = 0
<1> USE BridgeAssumption
<1>1. \A org \in {0, 1} : Held(c, t, org) \in {0, 1}
  BY DEF Held
<1>2. CASE holder[c][t] \in Address
  <2>1. Backed(c, t) + Unbacked(c, t) = 0
    <3>1. holder[c][t] \notin {Vault, Nowhere}
      BY <1>2
    <3> QED
      BY <3>1, OnePlace DEF Home
  <2>3. /\ Arriving(c, t) = 0 /\ Leaving(c, t, 0) = 0 /\ Leaving(c, t, 1) = 0
        /\ Held(c, t, 0) = 0 /\ Held(c, t, 1) = 0
    BY <2>1, OnePlace
  <2>4. origin[c][t] \in {0, 1}
    BY DEF L2TypeOK
  <2> QED
    BY <2>3, <2>4 DEF Held
<1>3. CASE Fresh(c, t)
  <2>1. ~OnL2(c, t) /\ \A org \in {0, 1} : Leaving(c, t, org) = 0
    BY <1>3, TokenMessages DEF Fresh
  <2>2. Arriving(c, t) <= 1 /\ (Arriving(c, t) = 1 => holder[c][t] = Vault)
    BY <1>1 DEF Home, Backed, Unbacked, Counted
  <2>3. holder[c][t] # Vault
    BY <1>3 DEF Fresh
  <2> QED
    BY <2>1, <2>2, <2>3 DEF Counted
<1> QED
  BY <1>2, <1>3

\* On L1 a token goes from a wallet to the vault with its deposit, and back with
\* the withdrawal that is consumed.
LEMMA HomeOnL1 ==
  ASSUME L2TypeOK, FiniteBags, BridgeTypeOK, HomeInv, StepOnL1
  PROVE  HomeInv'
<1> USE BridgeAssumption, L2Assumption
<1> SUFFICES ASSUME NEW c \in Contract \ {Ether}, NEW t \in Felt,
                    contracts'[c] # L1!ERC20
             PROVE  Home(c, t)'
  BY DEF HomeInv
<1>1. Counted(c, t)
  BY TokenMessages DEF Counted
<1>2. UNCHANGED <<origin, owner, order>>
  BY StepsOfL1 DEF storage
<1>3. OnL2(c, t)' <=> OnL2(c, t)
  BY <1>2 DEF OnL2, InEscrow, AskFor, Open
<1>4. UNCHANGED toL2 => Arriving(c, t)' = Arriving(c, t)
  BY DEF Arriving, Arrivals, Copies
<1>5. UNCHANGED toL1 =>
        \A org \in {0, 1} : Leaving(c, t, org)' = Leaving(c, t, org)
  BY DEF Leaving, Departures, Copies
<1>6. ASSUME contracts[c] # L1!ERC20, holder'[c][t] = holder[c][t],
             Arriving(c, t)' = Arriving(c, t),
             \A org \in {0, 1} :
               /\ Leaving(c, t, org)' \in Nat
               /\ Leaving(c, t, org)' <= Leaving(c, t, org)
      PROVE  Home(c, t)'
  <2>1. Home(c, t) /\ Counted(c, t)'
    BY <1>1, <1>6 DEF HomeInv, Counted
  <2> QED
    BY <1>1, <1>2, <1>3, <1>6, <2>1, HomeFewer DEF Counted
<1>7. CASE UNCHANGED <<contracts, coin, holder, toL2, toL1>>
  BY <1>1, <1>4, <1>5, <1>6, <1>7 DEF Counted
<1>8. ASSUME NEW m, MaySend(m)
      PROVE  \/ Arriving(c, t)' = Arriving(c, t)
             \/ /\ IsArrival(m, c, t)
                /\ Arriving(c, t)' = Arriving(c, t) + 1
  <2>1. CASE SendMessageToL2(m)
    BY <1>1, <2>1, ArrivalSent DEF Counted, IsArrival
  <2> QED
    BY <1>4, <1>8, <2>1 DEF MaySend, IsArrival
<1>9. ASSUME NEW r \in Registration, Registers(r) PROVE Home(c, t)'
  <2>1. ~IsArrival(RegistrationOf(r), c, t)
    BY DEF IsArrival, RegistrationOf
  <2>2. Arriving(c, t)' = Arriving(c, t)
    BY <1>8, <1>9, <2>1 DEF Registers
  <2>3. contracts[c] # L1!ERC20 /\ UNCHANGED <<holder, toL1>>
    BY <1>9 DEF Registers, BridgeTypeOK, L1!Z, L1!ERC20
  <2> QED
    BY <1>1, <1>5, <1>6, <2>2, <2>3 DEF Counted
<1>10. ASSUME NEW d \in Contract, NEW a \in Address, NEW u, NEW v,
              DepositsCoin(d, a, u, v)
       PROVE  Home(c, t)'
  <2>1. contracts[c] # L1!ERC20 /\ d # c /\ UNCHANGED <<holder, toL1>>
    BY <1>10 DEF DepositsCoin
  <2>2. ~IsArrival(DepositOf(u, v, d), c, t)
    BY <2>1 DEF IsArrival, DepositOf
  <2>3. Arriving(c, t)' = Arriving(c, t)
    BY <1>8, <1>10, <2>2 DEF DepositsCoin
  <2> QED
    BY <1>1, <1>5, <1>6, <2>1, <2>3 DEF Counted
<1>11. ASSUME NEW d \in Contract, NEW a \in Address, NEW u, NEW v \in Felt,
              DepositsToken(d, a, u, v)
       PROVE  Home(c, t)'
  <2>1. contracts[c] # L1!ERC20 /\ UNCHANGED toL1
        /\ holder[d][v] = a /\ holder' = [holder EXCEPT ![d][v] = Vault]
    BY <1>11 DEF DepositsToken, L1!MoveToken
  <2>2. CASE d = c /\ v = t
    <3>1. /\ Arriving(c, t) = 0 /\ ~OnL2(c, t)
          /\ \A org \in {0, 1} : Leaving(c, t, org) = 0
      BY <1>1, <2>1, <2>2, HomeOfWallet DEF HomeInv
    <3>2. Arriving(c, t)' \in {0, 1}
      BY <1>8, <1>11, <3>1 DEF DepositsToken
    <3>3. \A org \in {0, 1} : Leaving(c, t, org)' = 0 /\ Held(c, t, org)' = 0
      BY <1>3, <1>5, <2>1, <3>1 DEF Held
    <3>4. holder'[c][t] = Vault
      BY <2>1, <2>2 DEF BridgeTypeOK
    <3> QED
      BY <3>2, <3>3, <3>4 DEF Home, Backed, Unbacked
  <2>3. CASE ~(d = c /\ v = t)
    <3>1. ~IsArrival(DepositOf(u, v, d), c, t)
      BY <2>3 DEF IsArrival, DepositOf
    <3>2. Arriving(c, t)' = Arriving(c, t)
      BY <1>8, <1>11, <3>1 DEF DepositsToken
    <3>3. holder'[c][t] = holder[c][t]
      BY <2>1, <2>3 DEF BridgeTypeOK
    <3> QED
      BY <1>1, <1>5, <1>6, <2>1, <3>2, <3>3 DEF Counted
  <2> QED
    BY <2>2, <2>3
<1>12. ASSUME NEW m, ConsumeMessageFromL2(m)
       PROVE  \A org \in {0, 1} :
                /\ Leaving(c, t, org)' = Leaving(c, t, org)
                     - (IF IsDeparture(m, c, t, org) THEN 1 ELSE 0)
                /\ Leaving(c, t, org)' \in Nat
  <2> TAKE org \in {0, 1}
  <2>1. Leaving(c, t, org)' = Leaving(c, t, org)
          - (IF IsDeparture(m, c, t, org) THEN 1 ELSE 0)
    BY <1>12, DepartureConsumed
  <2>2. /\ Leaving(c, t, org) \in Nat
        /\ IsDeparture(m, c, t, org) => Leaving(c, t, org) # 0
    <3>1. IsDeparture(m, c, t, org) => m \in Departures(c, t, org)
      BY <1>12 DEF ConsumeMessageFromL2, IsDeparture, Departures
    <3> QED
      BY <3>1, TokenMessages
  <2>3. Leaving(c, t, org)' \in Nat
    <3> DEFINE n == Leaving(c, t, org)
    <3>1. CASE IsDeparture(m, c, t, org)
      <4>1. Leaving(c, t, org)' = n - 1 /\ n \in Nat /\ n # 0
        BY <2>1, <2>2, <3>1
      <4> HIDE DEF n
      <4> QED
        BY <4>1
    <3>2. CASE ~IsDeparture(m, c, t, org)
      <4>1. Leaving(c, t, org)' = n - 0 /\ n \in Nat
        BY <2>1, <2>2, <3>2
      <4> HIDE DEF n
      <4> QED
        BY <4>1
    <3> QED
      BY <3>1, <3>2
  <2> QED
    BY <2>1, <2>3
<1>13. ASSUME NEW d \in Contract, NEW a, NEW u, NEW v, NEW org,
              WithdrawsCoin(d, a, u, v, org)
       PROVE  Home(c, t)'
  <2>1. contracts[c] # L1!ERC20 /\ UNCHANGED <<holder, toL2>>
    BY <1>13 DEF WithdrawsCoin
  <2>2. \A x \in {0, 1} : /\ Leaving(c, t, x)' \in Nat
                         /\ Leaving(c, t, x)' <= Leaving(c, t, x)
    BY <1>1, <1>12, <1>13 DEF WithdrawsCoin, Counted
  <2> QED
    BY <1>4, <1>6, <2>1, <2>2
<1>14. ASSUME NEW d \in Contract, NEW a, NEW u, NEW v \in Felt,
              NEW org \in {0, 1}, WithdrawsToken(d, a, u, v, org)
       PROVE  Home(c, t)'
  <2> DEFINE m == WithdrawalOf(a, v, d, org)
  <2>1. contracts[c] # L1!ERC20 /\ UNCHANGED toL2 /\ ConsumeMessageFromL2(m)
        /\ holder' = [holder EXCEPT ![d][v] = u]
    BY <1>14 DEF WithdrawsToken, L1!MoveToken
  <2>2. \A x \in {0, 1} :
          /\ Leaving(c, t, x)' = Leaving(c, t, x)
               - (IF IsDeparture(m, c, t, x) THEN 1 ELSE 0)
          /\ Leaving(c, t, x)' \in Nat
    BY <1>12, <2>1
  <2>3. CASE d = c /\ v = t
    <3>1. IsDeparture(m, c, t, org)
      BY <2>3 DEF IsDeparture, WithdrawalOf
    <3>2. Home(c, t) /\ Leaving(c, t, org) >= 1
      BY <1>1, <2>1, <2>2, <3>1 DEF HomeInv, Counted
    <3>3. Held(c, t, 0) \in {0, 1} /\ Held(c, t, 1) \in {0, 1}
      BY DEF Held
    <3>4. /\ Arriving(c, t) = 0 /\ Held(c, t, 0) = 0 /\ Held(c, t, 1) = 0
          /\ Leaving(c, t, 0) = IF org = 0 THEN 1 ELSE 0
          /\ Leaving(c, t, 1) = IF org = 1 THEN 1 ELSE 0
      <4>2. CASE org = 0
        BY <1>1, <3>2, <4>2, OnePlace
      <4>3. CASE org = 1
        BY <1>1, <3>2, <4>3, OnePlace
      <4> QED
        BY <4>2, <4>3
    <3>5. \A x \in {0, 1} : Leaving(c, t, x)' = 0
      BY <2>2, <3>1, <3>4
    <3>6. ~OnL2(c, t)
      <4>1. origin[c][t] \in {0, 1}
        BY DEF L2TypeOK
      <4> QED
        BY <3>4, <4>1 DEF Held
    <3> QED
      BY <1>3, <1>4, <2>1, <3>4, <3>5, <3>6, HomeNone DEF Counted
  <2>4. CASE ~(d = c /\ v = t)
    <3>1. holder'[c][t] = holder[c][t]
      BY <2>1, <2>4 DEF BridgeTypeOK
    <3>2. \A x \in {0, 1} : Leaving(c, t, x)' <= Leaving(c, t, x)
      BY <1>1, <2>2 DEF Counted
    <3> QED
      BY <1>4, <1>6, <2>1, <2>2, <3>1, <3>2
  <2> QED
    BY <2>3, <2>4
<1>15. ASSUME NEW d \in Contract \ {Ether}, NEW v \in Felt, Disposes(d, v)
       PROVE  Home(c, t)'
  <2>1. /\ contracts[c] # L1!ERC20 /\ UNCHANGED <<toL2, toL1>>
        /\ holder[d][v] \in Address \/ Fresh(d, v)
        /\ \E h \in L1!Holder \cup {Nowhere} : holder' = [holder EXCEPT ![d][v] = h]
    BY <1>15 DEF Disposes
  <2>2. /\ Arriving(c, t)' = Arriving(c, t)
        /\ \A org \in {0, 1} : Leaving(c, t, org)' = Leaving(c, t, org)
    BY <1>4, <1>5, <2>1
  <2>3. CASE d = c /\ v = t
    <3>1. /\ Arriving(c, t) = 0 /\ ~OnL2(c, t)
          /\ \A org \in {0, 1} : Leaving(c, t, org) = 0
      BY <1>1, <2>1, <2>3, HomeOfWallet DEF HomeInv
    <3> QED
      BY <1>3, <2>2, <3>1, HomeNone DEF Counted
  <2>4. CASE ~(d = c /\ v = t)
    <3>1. holder'[c][t] = holder[c][t]
      BY <2>1, <2>4 DEF BridgeTypeOK
    <3> QED
      BY <1>1, <1>6, <2>1, <2>2, <3>1 DEF Counted
  <2> QED
    BY <2>3, <2>4
<1> QED
  BY <1>7, <1>9, <1>10, <1>11, <1>13, <1>14, <1>15, StepsOfL1, InputsAreFelts

\* What users sign, but for withdrawals, brings no token to L2.
LEMMA TransactionTokens ==
  ASSUME L2TypeOK, NEW sig \in User, Transaction(sig)
  PROVE  \/ \E d \in Contract, user \in User, a \in Address :
              \E v \in Inputs[d] : Withdraw(sig, user, v, d, a)
         \/ /\ UNCHANGED <<origin, toL2, toL1>>
            /\ \A c \in Contract, t \in Felt : OnL2(c, t)' => OnL2(c, t)
<1> USE KeyTyping, L2Assumption
<1> DEFINE Stays == /\ UNCHANGED <<origin, toL2, toL1>>
                    /\ \A c \in Contract, t \in Felt : OnL2(c, t)' => OnL2(c, t)
<1>1. ASSUME UNCHANGED <<owner, order, origin, toL2, toL1>> PROVE Stays
  BY <1>1 DEF OnL2, InEscrow, AskFor, Open
<1>2. ASSUME NEW d \in Contract, NEW v \in Felt, OnL2(d, v),
             NEW u \in Key, owner' = owner \/ GiveToken(d, v, u),
             \A c \in Contract, t \in Felt :
               InEscrow(c, t)' => InEscrow(c, t) \/ (c = d /\ t = v),
             UNCHANGED <<origin, toL2, toL1>>
      PROVE  Stays
  <2> SUFFICES ASSUME NEW c \in Contract, NEW t \in Felt, OnL2(c, t)'
               PROVE  OnL2(c, t)
    BY <1>2
  <2>1. CASE c = d /\ t = v
    BY <1>2, <2>1
  <2>2. CASE ~(c = d /\ t = v)
    <3>1. owner'[c][t] = owner[c][t]
      BY <1>2, <2>2, OwnerWrite
    <3>2. InEscrow(c, t)' => InEscrow(c, t)
      BY <1>2, <2>2
    <3> QED
      BY <3>1, <3>2 DEF OnL2
  <2> QED
    BY <2>1, <2>2
<1>3. ASSUME NEW d \in Contract, NEW v \in Inputs[d], NEW from \in User,
             NEW to \in Recipient, Transfer(sig, from, to, v, d)
      PROVE  Stays
  <2>1. /\ UNCHANGED <<order, origin, toL2, toL1>> /\ v \in Felt /\ to \in Key
        /\ owner' = owner \/ (GiveToken(d, v, to) /\ owner[d][v] = from)
    BY <1>3, InputsAreFelts DEF Transfer
  <2>2. \A c \in Contract, t \in Felt : InEscrow(c, t)' => InEscrow(c, t)
    BY <2>1 DEF InEscrow, AskFor, Open
  <2>3. CASE owner' = owner
    BY <1>1, <2>1, <2>3
  <2>4. CASE GiveToken(d, v, to) /\ owner[d][v] = from
    <3>1. OnL2(d, v)
      BY <2>4 DEF OnL2
    <3> QED
      BY <1>2, <2>1, <2>2, <2>4, <3>1
  <2> QED
    BY <2>1, <2>3, <2>4
<1>4. ASSUME NEW o \in OrderId, NEW user \in User, NEW bid \in {ASK, BID},
             NEW bc \in Contract, NEW qc, NEW t \in Inputs[bc], NEW q,
             CreateOrder(sig, o, user, bid, bc, t, qc, q)
      PROVE  Stays
  <2>1. /\ t \in Felt /\ UNCHANGED <<origin, toL2, toL1>>
        /\ \/ bid = ASK /\ owner[bc][t] = user /\ GiveToken(bc, t, Nobody)
           \/ bid = BID /\ owner' = owner
    BY <1>4, InputsAreFelts DEF CreateOrder
  <2>2. /\ \A p \in OrderId \ {o} : order'[p] = order[p]
        /\ order'[o] = [user |-> user, bid |-> bid, base_contract |-> bc,
                        base_token_id |-> t, quote_contract |-> qc,
                        quote_amount |-> q, state |-> STATE_NEW]
    BY <1>4 DEF CreateOrder, L2TypeOK
  <2>3. \A p \in OrderId, c \in Contract, x \in Felt :
          AskFor(p, c, x)' => AskFor(p, c, x) \/ (c = bc /\ x = t /\ bid = ASK)
    <3> SUFFICES ASSUME NEW p \in OrderId, NEW c \in Contract, NEW x \in Felt,
                        AskFor(p, c, x)'
                 PROVE  AskFor(p, c, x) \/ (c = bc /\ x = t /\ bid = ASK)
      BY Zenon
    <3>1. CASE p # o
      <4>1. order'[p] = order[p]
        BY <2>2, <3>1
      <4> QED
        BY <4>1 DEF AskFor, Open
    <3>2. CASE p = o
      BY <2>2, <3>2 DEF AskFor
    <3> QED
      BY <3>1, <3>2
  <2>4. CASE bid = ASK
    <3>1. OnL2(bc, t) /\ GiveToken(bc, t, Nobody)
      BY <2>1, <2>4 DEF OnL2, ASK, BID
    <3>2. \A c \in Contract, x \in Felt :
            InEscrow(c, x)' => InEscrow(c, x) \/ (c = bc /\ x = t)
      BY <2>3 DEF InEscrow
    <3> QED
      BY <1>2, <2>1, <3>1, <3>2
  <2>5. CASE bid = BID
    <3>1. owner' = owner
      BY <2>1, <2>5 DEF ASK, BID
    <3>2. \A c \in Contract, x \in Felt : InEscrow(c, x)' => InEscrow(c, x)
      BY <2>3, <2>5 DEF InEscrow, ASK, BID
    <3> QED
      BY <2>1, <3>1, <3>2 DEF OnL2
  <2> QED
    BY <2>4, <2>5
<1>5. ASSUME NEW o \in OrderId, NEW s \in {STATE_FULFILLED, STATE_CANCELLED},
             Close(o, s)
      PROVE  /\ order[o].base_contract \in Contract
             /\ order[o].base_token_id \in Felt /\ order[o].user \in Key
             /\ \A c \in Contract, x \in Felt : InEscrow(c, x)' => InEscrow(c, x)
  <2>1. /\ order[o].base_contract \in Contract
        /\ order[o].base_token_id \in Felt /\ order[o].user \in Key
    BY DEF L2TypeOK, LimitOrder
  <2>2. /\ \A p \in OrderId \ {o} : order'[p] = order[p]
        /\ order'[o].state = s
    BY <1>5 DEF Close, L2TypeOK, LimitOrder
  <2>3. \A p \in OrderId : \A c, x : AskFor(p, c, x)' => AskFor(p, c, x)
    BY <2>2
    DEF AskFor, Open, STATE_NEW, STATE_FULFILLED, STATE_CANCELLED
  <2> QED
    BY <2>1, <2>3 DEF InEscrow
<1>6. ASSUME NEW o \in OrderId, NEW user \in User, FulfillOrder(sig, o, user)
      PROVE  Stays
  <2> DEFINE bc == order[o].base_contract
             t == order[o].base_token_id
  <2>1. Close(o, STATE_FULFILLED) /\ Open(order[o])
        /\ UNCHANGED <<origin, toL2, toL1>>
    BY <1>6 DEF FulfillOrder
  <2>2. /\ bc \in Contract /\ t \in Felt /\ order[o].user \in Key
        /\ \A c \in Contract, x \in Felt : InEscrow(c, x)' => InEscrow(c, x)
    BY <1>5, <2>1
  <2>3. CASE order[o].bid = ASK /\ GiveToken(bc, t, user)
    <3>1. OnL2(bc, t)
      BY <2>1, <2>3 DEF OnL2, InEscrow, AskFor
    <3> QED
      BY <1>2, <2>1, <2>2, <2>3, <3>1
  <2>4. CASE owner[bc][t] = user /\ GiveToken(bc, t, order[o].user)
    <3>1. OnL2(bc, t)
      BY <2>4 DEF OnL2
    <3> QED
      BY <1>2, <2>1, <2>2, <2>4, <3>1
  <2> QED
    BY <1>6, <2>3, <2>4 DEF FulfillOrder
<1>7. ASSUME NEW o \in OrderId, CancelOrder(sig, o)
      PROVE  Stays
  <2> DEFINE bc == order[o].base_contract
             t == order[o].base_token_id
  <2>1. Close(o, STATE_CANCELLED) /\ Open(order[o])
        /\ UNCHANGED <<origin, toL2, toL1>>
    BY <1>7 DEF CancelOrder
  <2>2. /\ bc \in Contract /\ t \in Felt /\ order[o].user \in Key
        /\ \A c \in Contract, x \in Felt : InEscrow(c, x)' => InEscrow(c, x)
    BY <1>5, <2>1
  <2>3. CASE order[o].bid = ASK /\ GiveToken(bc, t, order[o].user)
    <3>1. OnL2(bc, t)
      BY <2>1, <2>3 DEF OnL2, InEscrow, AskFor
    <3> QED
      BY <1>2, <2>1, <2>2, <2>3, <3>1
  <2>4. CASE owner' = owner
    BY <2>1, <2>2, <2>4 DEF OnL2
  <2> QED
    BY <1>7, <2>3, <2>4 DEF CancelOrder
<1>8. /\ \A paus : SetPause(sig, paus) => Stays
      /\ \A user, a : RegisterClient(sig, user, a) => Stays
  BY <1>1 DEF SetPause, RegisterClient
<1> HIDE DEF Stays
<1>9. Transaction(sig) =>
        \/ \E d \in Contract, user \in User, a \in Address :
             \E v \in Inputs[d] : Withdraw(sig, user, v, d, a)
        \/ Stays
  BY <1>3, <1>4, <1>6, <1>7, <1>8 DEF Transaction
<1> QED
  BY <1>9 DEF Stays

\* On L2 a token comes from a message or from its minter, and leaves with the
\* message of a withdrawal that carries its flag.
LEMMA HomeOnL2 ==
  ASSUME AccountInv, EscrowBacked, FlagsLive, BridgeTypeOK, KindsMatch, HomeInv,
         StepOnL2
  PROVE  HomeInv'
<1> USE BridgeAssumption, L2Assumption, KeyTyping
<1>1. L2TypeOK /\ FiniteBags /\ UNCHANGED <<contracts, coin, holder>>
  BY StepsOfL2 DEF AccountInv
<1> SUFFICES ASSUME NEW c \in Contract \ {Ether}, NEW t \in Felt,
                    contracts[c] # L1!ERC20
             PROVE  Home(c, t)'
  BY <1>1 DEF HomeInv
<1>2. Counted(c, t) /\ Home(c, t) /\ origin[c][t] \in {0, 1}
  BY <1>1, TokenMessages DEF Counted, HomeInv, L2TypeOK
<1>3. description[c].kind # KIND_ERC20
  BY DEF KindsMatch, KIND_ERC20, L1!ERC20
<1>4. UNCHANGED toL2 => Arriving(c, t)' = Arriving(c, t)
  BY DEF Arriving, Arrivals, Copies
<1>5. UNCHANGED toL1 => /\ Leaving(c, t, 0)' = Leaving(c, t, 0)
                        /\ Leaving(c, t, 1)' = Leaving(c, t, 1)
  BY DEF Leaving, Departures, Copies
<1>6. ASSUME origin'[c][t] = origin[c][t], OnL2(c, t)' => OnL2(c, t),
             Arriving(c, t)' = Arriving(c, t), UNCHANGED toL1
      PROVE  Home(c, t)'
  <2>1. Counted(c, t)' /\ Arriving(c, t)' <= Arriving(c, t)
    BY <1>2, <1>5, <1>6 DEF Counted
  <2>2. \A org \in {0, 1} : Leaving(c, t, org)' <= Leaving(c, t, org)
    BY <1>2, <1>5, <1>6 DEF Counted
  <2> QED
    BY <1>1, <1>2, <1>6, <2>1, <2>2, HomeFewer
<1>7. ASSUME NEW m \in DOMAIN toL2, RegisterContract(m) PROVE Home(c, t)'
  <2>1. /\ HandleMessageFromL1(m) /\ m.type = "register_contract"
        /\ UNCHANGED <<owner, order, origin, toL1>>
    BY <1>7 DEF RegisterContract
  <2>2. Arriving(c, t)' = Arriving(c, t) - 0
    BY <1>1, <2>1, ArrivalHandled DEF IsArrival
  <2>3. OnL2(c, t)' => OnL2(c, t)
    BY <2>1 DEF OnL2, InEscrow, AskFor, Open
  <2> QED
    BY <1>2, <1>6, <2>1, <2>2, <2>3 DEF Counted
<1>8. ASSUME NEW m \in DOMAIN toL2, m.type = "deposit", Deposit(m)
      PROVE  Home(c, t)'
  <2>1. /\ HandleMessageFromL1(m) /\ UNCHANGED <<order, origin, toL1>>
        /\ \/ Fungible(m.contract) /\ owner' = owner
           \/ GiveToken(m.contract, m.value, m.user)
    BY <1>8 DEF Deposit
  <2>2. m.user \in Key /\ m.contract \in Contract /\ m.value \in Felt
    BY <1>1, <1>8 DEF L2TypeOK, Message, RegisterMessage, DepositMessage
  <2>3. InEscrow(c, t)' <=> InEscrow(c, t)
    BY <2>1 DEF InEscrow, AskFor, Open
  <2>4. CASE m.contract = c /\ m.value = t
    <3>1. IsArrival(m, c, t) /\ m \in Arrivals(c, t)
      BY <1>8, <2>4 DEF IsArrival, Arrivals
    <3>2. Arriving(c, t) # 0
      BY <1>1, <3>1, TokenMessages
    <3>3. /\ Arriving(c, t) = 1 /\ Leaving(c, t, 0) = 0 /\ Leaving(c, t, 1) = 0
          /\ Held(c, t, 0) = 0 /\ Held(c, t, 1) = 0
      BY <1>2, <3>2, OnePlace
    <3>4. ~OnL2(c, t)
      BY <1>2, <3>3 DEF Held
    <3>5. holder'[c][t] = Vault
      BY <1>1, <1>2, <3>3 DEF Home
    <3>6. Arriving(c, t)' = 1 - 1
      BY <1>1, <2>1, <3>1, <3>3, ArrivalHandled
    <3>7. /\ Arriving(c, t)' = 0
          /\ Leaving(c, t, 0)' = 0 /\ Leaving(c, t, 1)' = 0
      BY <1>5, <2>1, <3>3, <3>6
    <3>8. Nobody \notin Recipient => origin'[c][t] = 0
      BY <1>2, <2>1, <3>4 DEF FlagsLive, OriginLive, OnL2
    <3>9. /\ Held(c, t, 0)' + Held(c, t, 1)' \in {0, 1}
          /\ Held(c, t, 0)' \in {0, 1} /\ Held(c, t, 1)' \in {0, 1}
          /\ Nobody \notin Recipient => Held(c, t, 1)' = 0
      BY <3>8 DEF Held
    <3> QED
      BY <3>5, <3>7, <3>9 DEF Home, Backed, Unbacked
  <2>5. CASE ~(m.contract = c /\ m.value = t)
    <3>1. ~IsArrival(m, c, t)
      BY <2>5 DEF IsArrival
    <3>2. Arriving(c, t)' = Arriving(c, t) - 0
      BY <1>1, <2>1, <3>1, ArrivalHandled
    <3>3. owner'[c][t] = owner[c][t]
      BY <1>1, <2>1, <2>2, <2>5, OwnerWrite
    <3>4. OnL2(c, t)' => OnL2(c, t)
      BY <2>3, <3>3 DEF OnL2
    <3> QED
      BY <1>2, <1>6, <2>1, <3>2, <3>4 DEF Counted
  <2> QED
    BY <2>4, <2>5
<1>9. ASSUME NEW sig, NEW d \in Contract, NEW v \in Inputs[d],
             NEW u \in Recipient, Fresh(d, v), Mint(sig, u, v, d)
      PROVE  Home(c, t)'
  <2>1. /\ v \in Felt /\ u \in Key /\ UNCHANGED <<order, toL2, toL1>>
        /\ GiveToken(d, v, u) /\ SetOrigin(d, v, 1)
    BY <1>9, InputsAreFelts DEF Mint
  <2>2. CASE d = c /\ v = t
    <3>1. /\ Arriving(c, t) = 0 /\ Leaving(c, t, 0) = 0 /\ Leaving(c, t, 1) = 0
          /\ holder[c][t] = Nowhere
      BY <1>1, <1>2, <1>9, <2>2, HomeOfWallet DEF Fresh
    <3>2. /\ Arriving(c, t)' = 0
          /\ Leaving(c, t, 0)' = 0 /\ Leaving(c, t, 1)' = 0
      BY <1>4, <1>5, <2>1, <3>1
    <3>3. origin'[c][t] = 1
      BY <1>1, <2>1, <2>2, OriginWrite
    <3>4. Held(c, t, 0)' = 0 /\ Held(c, t, 1)' \in {0, 1}
      BY <3>3 DEF Held
    <3> QED
      BY <1>1, <3>1, <3>2, <3>4 DEF Home, Backed, Unbacked
  <2>3. CASE ~(d = c /\ v = t)
    <3>1. owner'[c][t] = owner[c][t] /\ origin'[c][t] = origin[c][t]
      BY <1>1, <2>1, <2>3, OwnerWrite, OriginWrite
    <3>2. OnL2(c, t)' => OnL2(c, t)
      BY <2>1, <3>1 DEF OnL2, InEscrow, AskFor, Open
    <3> QED
      BY <1>4, <1>6, <2>1, <3>1, <3>2
  <2> QED
    BY <2>2, <2>3
<1>10. ASSUME NEW sig, NEW d \in Contract, NEW user \in User, NEW a \in Address,
              NEW v \in Inputs[d], Withdraw(sig, user, v, d, a)
       PROVE  Home(c, t)'
  <2> DEFINE m == WithdrawalOf(a, v, d, origin[d][v])
  <2>1. /\ v \in Felt /\ SendMessageToL1(m) /\ UNCHANGED <<order, toL2>>
        /\ \/ Fungible(d) /\ UNCHANGED <<owner, origin>>
           \/ /\ owner[d][v] = user
              /\ GiveToken(d, v, Nobody) /\ SetOrigin(d, v, 0)
    BY <1>10, InputsAreFelts DEF Withdraw, WithdrawalOf
  <2>2. InEscrow(c, t)' <=> InEscrow(c, t)
    BY <2>1 DEF InEscrow, AskFor, Open
  <2>3. CASE ~(d = c /\ v = t)
    <3>1. ~IsDeparture(m, c, t, 0) /\ ~IsDeparture(m, c, t, 1)
      BY <2>3 DEF IsDeparture, WithdrawalOf
    <3>2. /\ Leaving(c, t, 0)' = Leaving(c, t, 0) + 0
          /\ Leaving(c, t, 1)' = Leaving(c, t, 1) + 0
      BY <1>1, <2>1, <3>1, DepartureSent
    <3>3. owner'[c][t] = owner[c][t] /\ origin'[c][t] = origin[c][t]
      BY <1>1, <2>1, <2>3, OwnerWrite, OriginWrite
    <3>4. OnL2(c, t)' => OnL2(c, t)
      BY <2>2, <3>3 DEF OnL2
    <3>5. Counted(c, t)' /\ Arriving(c, t)' <= Arriving(c, t)
      BY <1>2, <1>4, <2>1, <3>2 DEF Counted
    <3>6. \A org \in {0, 1} : Leaving(c, t, org)' <= Leaving(c, t, org)
      BY <1>2, <3>2 DEF Counted
    <3> QED
      BY <1>1, <1>2, <3>3, <3>4, <3>5, <3>6, HomeFewer
  <2>4. CASE d = c /\ v = t
    <3>1. owner[c][t] # Nobody /\ GiveToken(c, t, Nobody)
      BY <1>3, <2>1, <2>4 DEF Fungible
    <3>2. OnL2(c, t) /\ ~InEscrow(c, t)
      BY <3>1, OwnedNotEscrowed DEF OnL2
    <3>3. owner'[c][t] = Nobody
      BY <1>1, <3>1, OwnerWrite
    <3>4. ~OnL2(c, t)'
      BY <2>2, <3>2, <3>3 DEF OnL2
    <3>5. /\ Held(c, t, 0) = (IF origin[c][t] = 0 THEN 1 ELSE 0)
          /\ Held(c, t, 1) = (IF origin[c][t] = 1 THEN 1 ELSE 0)
          /\ Held(c, t, 0)' = 0 /\ Held(c, t, 1)' = 0
      BY <3>2, <3>4 DEF Held
    <3>6. /\ Arriving(c, t) = 0 /\ Leaving(c, t, 0) = 0 /\ Leaving(c, t, 1) = 0
      BY <1>2, <3>5, OnePlace
    <3>7. \A org : IsDeparture(m, c, t, org) <=> org = origin[c][t]
      BY <2>4 DEF IsDeparture, WithdrawalOf
    <3>8. /\ Leaving(c, t, 0)' = (IF origin[c][t] = 0 THEN 1 ELSE 0)
          /\ Leaving(c, t, 1)' = (IF origin[c][t] = 1 THEN 1 ELSE 0)
          /\ Arriving(c, t)' = 0
      <4>1. /\ Leaving(c, t, 0)' = 0 + (IF origin[c][t] = 0 THEN 1 ELSE 0)
            /\ Leaving(c, t, 1)' = 0 + (IF origin[c][t] = 1 THEN 1 ELSE 0)
        BY <1>1, <2>1, <3>6, <3>7, DepartureSent
      <4> QED
        BY <1>4, <2>1, <3>6, <4>1
    <3>9. Backed(c, t)' = Backed(c, t) /\ Unbacked(c, t)' = Unbacked(c, t)
      BY <1>2, <3>5, <3>6, <3>8 DEF Backed, Unbacked
    <3> QED
      BY <1>1, <1>2, <3>8, <3>9 DEF Home
  <2> QED
    BY <2>3, <2>4
<1>11. ASSUME UNCHANGED <<origin, toL2, toL1>>, OnL2(c, t)' => OnL2(c, t)
       PROVE  Home(c, t)'
  BY <1>4, <1>6, <1>11
<1>12. ASSUME NEW sig \in User, Transaction(sig) PROVE Home(c, t)'
  BY <1>1, <1>10, <1>11, <1>12, TransactionTokens
<1> QED
  BY <1>7, <1>8, <1>9, <1>12, StepsOfL2

-----------------------------------------------------------------------------
(***************************************************************************)
(* The invariant holds.                                                    *)
(***************************************************************************)

\* No deposit under way is one of a token that an open ask offers.
LEMMA ArrivalsAreFree ==
  ASSUME L2TypeOK, FiniteBags, KindsMatch, OffersInCollections, HomeInv,
         NEW m \in DOMAIN toL2, m.type = "deposit"
  PROVE  ~InEscrow(m.contract, m.value)
<1> USE L2Assumption
<1> DEFINE c == m.contract
           t == m.value
<1>1. c \in Contract /\ t \in Felt
  BY DEF L2TypeOK, Message, RegisterMessage, DepositMessage
<1>2. CASE description[c].kind = KIND_ERC721
  <2>1. c # Ether /\ contracts[c] # L1!ERC20
    BY <1>1, <1>2 DEF KindsMatch, KIND_ERC20, KIND_ERC721, L1!ERC20
  <2>2. Home(c, t) /\ Counted(c, t) /\ origin[c][t] \in {0, 1}
    <3>1. Home(c, t)
      BY <1>1, <2>1 DEF HomeInv
    <3>2. Counted(c, t)
      BY TokenMessages DEF Counted
    <3>3. origin[c][t] \in {0, 1}
      BY <1>1 DEF L2TypeOK
    <3> QED
      BY <3>1, <3>2, <3>3
  <2>3. m \in Arrivals(c, t)
    BY DEF Arrivals
  <2>4. Arriving(c, t) # 0
    BY <2>3, TokenMessages
  <2>5. Held(c, t, 0) = 0 /\ Held(c, t, 1) = 0
    BY <2>2, <2>4, OnePlace
  <2> QED
    BY <2>2, <2>5 DEF Held, OnL2
<1>3. CASE description[c].kind # KIND_ERC721
  BY <1>3 DEF OffersInCollections, InEscrow, AskFor, Open
<1> QED
  BY <1>2, <1>3

\* So the escrow stays sound without any assumption on the messages of L1.
LEMMA EscrowStep ==
  ASSUME L2TypeOK, FiniteBags, KindsMatch, OffersInCollections, HomeInv,
         EscrowBacked, [BridgeNext]_bridgevars
  PROVE  EscrowBacked'
<1>1. ASSUME UNCHANGED <<owner, order>> PROVE EscrowBacked'
  BY <1>1 DEF EscrowBacked, AskFor, Open
<1>2. CASE StepOnL1
  BY <1>1, <1>2, StepsOfL1 DEF storage
<1>3. CASE StepOnL2
  <2>1. ASSUME NEW m \in DOMAIN toL2, RegisterContract(m) PROVE EscrowBacked'
    BY <2>1, EscrowFixed
  <2>2. ASSUME NEW m \in DOMAIN toL2, m.type = "deposit", Deposit(m)
        PROVE  EscrowBacked'
    BY <2>2, ArrivalsAreFree, EscrowDeposit
  <2>3. ASSUME NEW sig \in User, NEW c \in Contract, NEW v \in Inputs[c],
               NEW u \in Recipient, Fresh(c, v), Mint(sig, u, v, c)
        PROVE  EscrowBacked'
    BY <2>3, EscrowMint DEF Fresh, OnL2
  <2>4. ASSUME NEW sig \in User, Transaction(sig) PROVE EscrowBacked'
    BY <2>4, EscrowTransaction
  <2> QED
    BY <1>3, <2>1, <2>2, <2>3, <2>4, StepsOfL2
<1>4. CASE UNCHANGED bridgevars
  BY <1>1, <1>4 DEF bridgevars, l2vars, storage
<1> QED
  BY <1>2, <1>3, <1>4 DEF BridgeNext

\* Every token keeps one home.
LEMMA HomeStep ==
  ASSUME AccountInv, EscrowBacked, FlagsLive, BridgeTypeOK, KindsMatch, HomeInv,
         [BridgeNext]_bridgevars
  PROVE  HomeInv'
<1>1. CASE StepOnL1
  BY <1>1, HomeOnL1 DEF AccountInv
<1>2. CASE StepOnL2
  BY <1>2, HomeOnL2
<1>3. CASE UNCHANGED bridgevars
  <2>1. UNCHANGED <<owner, origin, order, toL2, toL1, contracts, holder>>
    BY <1>3 DEF bridgevars, l2vars, storage
  <2>2. \A c, t : Arriving(c, t)' = Arriving(c, t)
    BY <2>1 DEF Arriving, Copies, Arrivals
  <2>3. \A c, t, org : Leaving(c, t, org)' = Leaving(c, t, org)
    BY <2>1 DEF Leaving, Copies, Departures
  <2>4. \A c, t, org : Held(c, t, org)' = Held(c, t, org)
    BY <2>1 DEF Held, OnL2, InEscrow, AskFor, Open
  <2> QED
    BY <2>1, <2>2, <2>3, <2>4 DEF HomeInv, Home, Backed, Unbacked
<1> QED
  BY <1>1, <1>2, <1>3 DEF BridgeNext

\* The deployed contracts owe nothing, and no token exists.
LEMMA BridgeStart ==
  ASSUME BridgeInit
  PROVE  /\ EscrowBacked /\ BridgeTypeOK /\ KindsMatch /\ OffersInCollections
         /\ Solvent /\ HomeInv
<1> USE BridgeAssumption, L2Assumption
<1>1. L2Init /\ L1!L1Init(Felt)
  BY DEF BridgeInit
<1>2. BoundedInv /\ \A c \in Contract : InSystem(c) = 0
  BY <1>1, BoundedInit
<1>3. DOMAIN toL2 = {} /\ DOMAIN toL1 = {}
  BY <1>1 DEF L2Init, CoreInit, EmptyBag, SetToBag
<1>4. \A o \in OrderId : order[o].user = Nobody
  BY <1>1 DEF L2Init, StorageInit, NoOrder
<1>5. EscrowBacked /\ OffersInCollections
  BY <1>4 DEF EscrowBacked, OffersInCollections, AskFor, Open
<1>6. BridgeTypeOK
  BY <1>1 DEF BridgeTypeOK, L1!L1Init, L1!Holder, L1!Z
<1>7. KindsMatch
  BY <1>1, <1>3 DEF KindsMatch, L2Init, StorageInit
<1>8. Solvent
  BY <1>1, <1>2 DEF Solvent, L1!L1Init, L1!Holder
<1>9. ASSUME NEW c \in Contract, NEW t \in Felt PROVE Home(c, t)
  <2>1. ~OnL2(c, t)
    BY <1>1, <1>4 DEF OnL2, InEscrow, AskFor, Open, L2Init, StorageInit
  <2>2. Held(c, t, 0) = 0 /\ Held(c, t, 1) = 0
    BY <2>1 DEF Held
  <2>3. Arrivals(c, t) = {} /\ \A org : Departures(c, t, org) = {}
    BY <1>3 DEF Arrivals, Departures
  <2>4. Arriving(c, t) = 0 /\ Leaving(c, t, 0) = 0 /\ Leaving(c, t, 1) = 0
    BY <1>2, <2>3, TokenMessages DEF BoundedInv
  <2> QED
    BY <2>2, <2>4 DEF Home, Backed, Unbacked
<1> QED
  BY <1>5, <1>6, <1>7, <1>8, <1>9 DEF HomeInv

\* The bridge runs the exchange, so what holds of the exchange under any L1
\* holds here.
LEMMA BridgeRunsExchange ==
  BridgeSpec => L2Spec /\ []AccountInv /\ []FlagsLive
<1>1. BridgeSpec => L2Spec
  <2>1. BridgeInit => L2Init
    BY DEF BridgeInit
  <2>2. [BridgeNext]_bridgevars => [L2Next]_l2vars
    BY StepsOfExchange
  <2> QED
    BY <2>1, <2>2, PTL DEF BridgeSpec, L2Spec
<1>2. L2Spec => []FlagsLive
  <2>1. CASE Nobody \notin Recipient
    <3>1. OriginLive => FlagsLive
      BY DEF FlagsLive
    <3>2. L2Spec => []OriginLive
      BY <2>1, OriginSound
    <3> QED
      BY <3>1, <3>2, PTL
  <2>2. CASE ~(Nobody \notin Recipient)
    <3>1. FlagsLive
      BY <2>2 DEF FlagsLive
    <3> QED
      BY <3>1, PTL
  <2> QED
    BY <2>1, <2>2
<1> QED
  BY <1>1, <1>2, AccountInvariant, PTL

\* The inductive invariant of the two chains.
LEMMA BridgeInvariant == BridgeSpec => []BridgeInv
<1> DEFINE Both == /\ EscrowBacked /\ BridgeTypeOK /\ KindsMatch
                   /\ OffersInCollections /\ Solvent /\ HomeInv
<1>1. BridgeInit => Both
  BY BridgeStart
<1>2. AccountInv /\ FlagsLive /\ Both /\ [BridgeNext]_bridgevars => Both'
  <2> SUFFICES ASSUME AccountInv, FlagsLive, Both, [BridgeNext]_bridgevars
               PROVE  Both'
    OBVIOUS
  <2>1. L2TypeOK /\ FiniteBags
    BY DEF AccountInv
  <2>2. EscrowBacked'
    BY <2>1, EscrowStep
  <2>3. BridgeTypeOK' /\ KindsMatch'
    BY <2>1, BridgeTypeStep, KindsMatchStep
  <2>4. OffersInCollections'
    BY <2>1, StepsOfExchange, OffersStep
  <2>5. Solvent'
    BY SolventStep
  <2>6. HomeInv'
    BY HomeStep
  <2> QED
    BY <2>2, <2>3, <2>4, <2>5, <2>6
<1>3. AccountInv /\ FlagsLive /\ Both => BridgeInv
  BY DEF BridgeInv
<1> HIDE DEF Both
<1> QED
  BY <1>1, <1>2, <1>3, BridgeRunsExchange, PTL DEF BridgeSpec

-----------------------------------------------------------------------------
(***************************************************************************)
(* What the two contracts guarantee together.                              *)
(***************************************************************************)

\* The vault covers all balances, open bids and messages under way, for any
\* number of users, contracts and orders, whatever users and the admin do: a
\* withdrawal of Ether or of an ERC20 contract can always be paid.
THEOREM VaultCovers == BridgeSpec => []Solvency
<1>1. BridgeInv => Solvency
  BY DEF BridgeInv, Solvent, Solvency, L1!ERC20, L1!ERC721
<1> QED
  BY <1>1, BridgeInvariant, PTL

\* A token of a collection is in one place, and the flag that goes with it says
\* truly whether L1 has it in the vault or not at all, when nobody sends to the
\* key 0.
THEOREM TokensHaveOneHome == Nobody \notin Recipient /\ BridgeSpec => []OneHome
<1> SUFFICES ASSUME Nobody \notin Recipient PROVE BridgeSpec => []OneHome
  OBVIOUS
<1>1. BridgeInv => OneHome
  BY DEF BridgeInv, HomeInv, Home, OneHome, L1!ERC20, L1!ERC721
<1> QED
  BY <1>1, BridgeInvariant, PTL

\* The actions of the exchange are the same whatever FreshOnly is.
LEMMA SameActions ==
  /\ Disciplined!L2Init <=> L2Init
  /\ Disciplined!l2vars = l2vars
  /\ Disciplined!L1Step <=> L1Step
  /\ \A m : Disciplined!RegisterContract(m) <=> RegisterContract(m)
  /\ \A m : Disciplined!Deposit(m) <=> Deposit(m)
  /\ \A c, t : Disciplined!InEscrow(c, t) <=> InEscrow(c, t)
  /\ \A sig, u, v, c : Disciplined!Mint(sig, u, v, c) <=> Mint(sig, u, v, c)
  /\ \A sig : Disciplined!Transaction(sig) <=> Transaction(sig)
<1>1. Disciplined!L2Init <=> L2Init
  BY DEF Disciplined!L2Init, Disciplined!StorageInit, Disciplined!CoreInit,
         Disciplined!NoOrder, Disciplined!Key, Disciplined!Felt,
         Disciplined!EmptyBag, Disciplined!SetToBag, Disciplined!ASK,
         Disciplined!STATE_NEW, Disciplined!KIND_ERC20,
         L2Init, StorageInit, CoreInit, NoOrder, Key, Felt, EmptyBag, SetToBag,
         ASK, STATE_NEW, KIND_ERC20
<1>2. Disciplined!l2vars = l2vars
  BY DEF Disciplined!l2vars, Disciplined!storage, l2vars, storage
<1>3. /\ \A f : Disciplined!SumFunction(f) = SumFunction(f)
      /\ \A B, m : Disciplined!BagAdd(B, m) = BagAdd(B, m)
      /\ \A B, m : Disciplined!BagRemove(B, m) = BagRemove(B, m)
  <2>1. \A f : Disciplined!SumFunction(f) = SumFunction(f)
    BY DEF Disciplined!SumFunction, Disciplined!SumFunctionOnSet,
           Disciplined!FoldFunctionOnSet, Disciplined!MapThenFoldSet,
           SumFunction, SumFunctionOnSet, FoldFunctionOnSet, MapThenFoldSet
  <2>2. \A B, m : Disciplined!BagAdd(B, m) = BagAdd(B, m)
    BY DEF Disciplined!BagAdd, BagAdd
  <2>3. \A B, m : Disciplined!BagRemove(B, m) = BagRemove(B, m)
    BY DEF Disciplined!BagRemove, BagRemove
  <2> QED
    BY <2>1, <2>2, <2>3
<1>4. /\ \A m : Disciplined!SendMessageToL2(m) <=> SendMessageToL2(m)
      /\ \A m : Disciplined!HandleMessageFromL1(m) <=> HandleMessageFromL1(m)
      /\ \A m : Disciplined!SendMessageToL1(m) <=> SendMessageToL1(m)
      /\ \A m : Disciplined!ConsumeMessageFromL2(m) <=> ConsumeMessageFromL2(m)
  BY <1>3
  DEF Disciplined!SendMessageToL2, Disciplined!HandleMessageFromL1,
      Disciplined!SendMessageToL1, Disciplined!ConsumeMessageFromL2,
      SendMessageToL2, HandleMessageFromL1, SendMessageToL1, ConsumeMessageFromL2
<1>5. Disciplined!L1Step <=> L1Step
  BY <1>4
  DEF Disciplined!L1Step, Disciplined!L1Sends, Disciplined!L1Consumes,
      Disciplined!storage, L1Step, L1Sends, L1Consumes, storage
<1>6. \A m : Disciplined!RegisterContract(m) <=> RegisterContract(m)
  BY <1>4
  DEF Disciplined!RegisterContract, Disciplined!CheckOn, Disciplined!Kind,
      Disciplined!KIND_ERC20, Disciplined!KIND_ERC721, Disciplined!Unregistered,
      RegisterContract, CheckOn, Kind, KIND_ERC20, KIND_ERC721, Unregistered
<1>7. \A b, u, c, v :
        /\ Disciplined!CanPay(b, u, c, v) <=> CanPay(b, u, c, v)
        /\ Disciplined!Paid(b, u, c, v) = Paid(b, u, c, v)
        /\ Disciplined!CanReceive(b, u, c, v) <=> CanReceive(b, u, c, v)
        /\ Disciplined!Received(b, u, c, v) = Received(b, u, c, v)
  BY DEF Disciplined!CanPay, Disciplined!Paid, Disciplined!CanReceive,
         Disciplined!Received, Disciplined!AssertNN, Disciplined!FeltAdd,
         Disciplined!FeltSub, CanPay, Paid, CanReceive, Received, AssertNN,
         FeltAdd, FeltSub
<1>8. /\ \A c, t, u : Disciplined!GiveToken(c, t, u) <=> GiveToken(c, t, u)
      /\ \A c, t, org : Disciplined!SetOrigin(c, t, org) <=> SetOrigin(c, t, org)
      /\ \A c : Disciplined!Fungible(c) <=> Fungible(c)
      /\ \A ord : Disciplined!Open(ord) <=> Open(ord)
      /\ \A o, s : Disciplined!Close(o, s) <=> Close(o, s)
      /\ \A v : Disciplined!AssertNN(v) <=> AssertNN(v)
      /\ \A sig, key, inputs :
           Disciplined!Verified(sig, key, inputs) <=> Verified(sig, key, inputs)
      /\ \A o, ord : Disciplined!OrderInputs(o, ord) = OrderInputs(o, ord)
      /\ Disciplined!CheckOn <=> CheckOn
  BY DEF Disciplined!GiveToken, Disciplined!SetOrigin, Disciplined!Fungible,
         Disciplined!Open, Disciplined!Close, Disciplined!AssertNN,
         Disciplined!Verified, Disciplined!CheckOn, Disciplined!KIND_ERC20,
         Disciplined!STATE_NEW, Disciplined!OrderInputs, OrderInputs,
         GiveToken, SetOrigin, Fungible, Open, Close,
         AssertNN, Verified, CheckOn, KIND_ERC20, STATE_NEW
<1>9. /\ Disciplined!ASK = ASK /\ Disciplined!BID = BID
      /\ Disciplined!STATE_NEW = STATE_NEW
      /\ Disciplined!STATE_FULFILLED = STATE_FULFILLED
      /\ Disciplined!STATE_CANCELLED = STATE_CANCELLED
      /\ Disciplined!KIND_ERC20 = KIND_ERC20
      /\ Disciplined!KIND_ERC721 = KIND_ERC721
      /\ Disciplined!Kind = Kind
  BY DEF Disciplined!ASK, Disciplined!BID, Disciplined!STATE_NEW,
         Disciplined!STATE_FULFILLED, Disciplined!STATE_CANCELLED,
         Disciplined!KIND_ERC20, Disciplined!KIND_ERC721, Disciplined!Kind,
         ASK, BID, STATE_NEW, STATE_FULFILLED, STATE_CANCELLED, KIND_ERC20,
         KIND_ERC721, Kind
<1>10. \A m : Disciplined!Deposit(m) <=> Deposit(m)
  BY <1>4, <1>7, <1>8, <1>9 DEF Disciplined!Deposit, Deposit
<1>11. \A c, t : Disciplined!InEscrow(c, t) <=> InEscrow(c, t)
  BY <1>8, <1>9
  DEF Disciplined!InEscrow, Disciplined!AskFor, InEscrow, AskFor
<1>12. \A sig, u, v, c : Disciplined!Mint(sig, u, v, c) <=> Mint(sig, u, v, c)
  BY <1>8, <1>9 DEF Disciplined!Mint, Mint
<1>13. \A sig : Disciplined!Transaction(sig) <=> Transaction(sig)
  <2>1. \A sig, paus : Disciplined!SetPause(sig, paus) <=> SetPause(sig, paus)
    BY <1>8 DEF Disciplined!SetPause, SetPause
  <2>2. \A sig, u, a :
          Disciplined!RegisterClient(sig, u, a) <=> RegisterClient(sig, u, a)
    BY <1>8 DEF Disciplined!RegisterClient, RegisterClient
  <2>3. \A sig, u, v, c, a :
          Disciplined!Withdraw(sig, u, v, c, a) <=> Withdraw(sig, u, v, c, a)
    BY <1>4, <1>7, <1>8, <1>9 DEF Disciplined!Withdraw, Withdraw
  <2>4. \A sig, from, to, v, c :
          Disciplined!Transfer(sig, from, to, v, c)
            <=> Transfer(sig, from, to, v, c)
    BY <1>7, <1>8, <1>9 DEF Disciplined!Transfer, Transfer
  <2>5. \A sig, o, u, bid, bc, t, qc, q :
          Disciplined!CreateOrder(sig, o, u, bid, bc, t, qc, q)
            <=> CreateOrder(sig, o, u, bid, bc, t, qc, q)
    BY <1>7, <1>8, <1>9 DEF Disciplined!CreateOrder, CreateOrder
  <2>6. \A sig, o, u :
          Disciplined!FulfillOrder(sig, o, u) <=> FulfillOrder(sig, o, u)
    BY <1>7, <1>8, <1>9 DEF Disciplined!FulfillOrder, FulfillOrder
  <2>7. \A sig, o : Disciplined!CancelOrder(sig, o) <=> CancelOrder(sig, o)
    BY <1>7, <1>8, <1>9 DEF Disciplined!CancelOrder, CancelOrder
  <2> QED
    BY <1>9, <2>1, <2>2, <2>3, <2>4, <2>5, <2>6, <2>7
    DEF Disciplined!Transaction, Transaction
<1> QED
  BY <1>1, <1>2, <1>5, <1>6, <1>10, <1>11, <1>12, <1>13

\* L1 under Richmetas.sol is the environment that the exchange was verified in:
\* every message is one that the exchange expects, and no deposit introduces a
\* token that is in escrow, if minters mint only tokens that do not exist.
THEOREM L1IsTheEnvironment == BridgeSpec => ExchangeInItsEnvironment
<1>1. BridgeInit => Disciplined!L2Init
  BY SameActions DEF BridgeInit
<1>2. BridgeInv /\ [BridgeNext]_bridgevars
        => [Disciplined!L2Next]_(Disciplined!l2vars)
  <2> SUFFICES ASSUME BridgeInv, [BridgeNext]_bridgevars
               PROVE  Disciplined!L2Next \/ UNCHANGED l2vars
    BY DEF l2vars, storage, Disciplined!l2vars, Disciplined!storage
  <2>1. CASE StepOnL1 \/ UNCHANGED bridgevars
    <3>1. L1Step \/ UNCHANGED l2vars
      BY <2>1, L1StepsAlone
    <3> QED
      BY <3>1, SameActions DEF Disciplined!L2Next
  <2>2. CASE StepOnL2
    <3>1. ASSUME NEW m \in DOMAIN toL2, RegisterContract(m)
          PROVE  Disciplined!L2Next
      BY <3>1, SameActions DEF Disciplined!L2Next, Disciplined!L1Handler
    <3>2. ASSUME NEW m \in DOMAIN toL2, m.type = "deposit", Deposit(m)
          PROVE  Disciplined!L2Next
      <4>1. ~InEscrow(m.contract, m.value)
        BY <3>2, ArrivalsAreFree DEF BridgeInv, AccountInv
      <4>2. Disciplined!MayIntroduce(m.contract, m.value)
        BY <4>1, SameActions DEF Disciplined!MayIntroduce
      <4> QED
        BY <3>2, <4>2, SameActions DEF Disciplined!L2Next, Disciplined!L1Handler
    <3>3. ASSUME NEW sig \in User, NEW c \in Contract, NEW v \in Inputs[c],
                 NEW u \in Recipient, Fresh(c, v), Mint(sig, u, v, c)
          PROVE  Disciplined!L2Next
      <4>1. Disciplined!MayIntroduce(c, v)
        BY <3>3, SameActions DEF Disciplined!MayIntroduce, Fresh, OnL2
      <4> QED
        BY <3>3, <4>1, SameActions DEF Disciplined!L2Next, Disciplined!Minting
    <3>4. ASSUME NEW sig \in User, Transaction(sig) PROVE Disciplined!L2Next
      BY <3>4, SameActions DEF Disciplined!L2Next
    <3> QED
      BY <2>2, <3>1, <3>2, <3>3, <3>4, StepsOfL2
  <2> QED
    BY <2>1, <2>2 DEF BridgeNext
<1> QED
  BY <1>1, <1>2, BridgeInvariant, PTL
  DEF BridgeSpec, ExchangeInItsEnvironment, Disciplined!L2Spec

-----------------------------------------------------------------------------
(***************************************************************************)
(* II. The contract and its mirror.                                        *)
(***************************************************************************)

-----------------------------------------------------------------------------
(***************************************************************************)
(* The types of the transactions and of the tables.                        *)
(***************************************************************************)
FlowTx ==
  [f : {"mint", "deposit", "withdraw"}, user : Key, contract : Contract,
   value : Felt, org : {0, 1}]

TransferTx ==
  [f : {"transfer"}, from : Key, to : Key, contract : Contract, value : Felt,
   org : {0}]

ContractTx ==
  [f : {"register_contract"}, contract : Contract, kind : Kind, mint : Key]

ClientTx == [f : {"register_client"}, user : User, address : Address]

CreateTx ==
  [f : {"create_order"}, order_id : OrderId, user : User, bid : {ASK, BID},
   contract : Contract, value : Felt, quote_contract : Contract,
   quote_amount : Felt]

FulfillTx == [f : {"fulfill_order"}, order_id : OrderId, user : User]

CancelTx == [f : {"cancel_order"}, order_id : OrderId]

Txs ==
  FlowTx \cup TransferTx \cup ContractTx \cup ClientTx \cup CreateTx
    \cup FulfillTx \cup CancelTx

FlowBags == UNION {[S -> Nat \ {0}] : S \in SUBSET FlowRow}

Books ==
  [fungible : [Contract -> BOOLEAN \cup {NoRow}],
   minter : [Contract -> Key \cup {NoRow}],
   address : [Key -> Address \cup {NoRow}],
   amount : [Key -> [Contract -> Int]],
   token : [Contract -> [Felt -> TokenRow]],
   order : [OrderId -> OrderRow \cup {NoRow}],
   flows : FlowBags]

MTypeOK ==
  /\ log \in Seq(Txs)
  /\ at \in 0 .. Len(log)
  /\ db \in Books /\ session \in Books
  /\ skipped \in 0 .. MaxSkips
  /\ crashes \in 0 .. MaxCrashes

-----------------------------------------------------------------------------
(***************************************************************************)
(* The tables, the interpreter ahead.                                      *)
(***************************************************************************)

\* What the interpreter makes of a transaction that it can interpret
Applied(d, tx) ==
  IF LiftsToken(d, tx)
  THEN Handled(LiftToken(d, tx.contract, tx.value), tx)
  ELSE Handled(d, tx)

\* The fulfilment of an ask raises whenever it is tried.
Stuck(d, tx) == tx.f = "fulfill_order" /\ ~d.order[tx.order_id].bid

\* What the gateway knows of a contract is what L2 knows, or will know.
KnowsContracts(d) ==
  \A c \in Contract :
    /\ description[c].kind # 0 =>
         /\ d.fungible[c] = (description[c].kind = KIND_ERC20)
         /\ description[c].kind = KIND_ERC721 => d.minter[c] = description[c].mint
    /\ description[c].kind = 0 /\ d.fungible[c] # NoRow =>
         /\ d.fungible[c] = FALSE
         /\ \E r \in Registered : r.contract = c /\ d.minter[c] = r.mint

KnowsClients(d) ==
  \A u \in Key : d.address[u] # NoRow => u \in User /\ client[d.address[u]] = u

KnowsBalances(d) == \A u \in Key, c \in Contract : d.amount[u][c] = balance[u][c]

KnowsToken(d, c, t) ==
  /\ owner[c][t] # Nobody => d.token[c][t].owner = owner[c][t]
  /\ owner[c][t] = Nobody /\ ~InEscrow(c, t) =>
       d.token[c][t].owner \in {Nobody, NoRow}
  /\ \A o \in OrderId :
       /\ (d.token[c][t].ask = o) <=> AskFor(o, c, t)
       /\ AskFor(o, c, t) => d.token[c][t].owner = order[o].user

KnowsTokens(d) == \A c \in Contract, t \in Felt : KnowsToken(d, c, t)

RowOf(ord) ==
  [user |-> ord.user, bid |-> ord.bid = BID, contract |-> ord.base_contract,
   token |-> ord.base_token_id, quote_contract |-> ord.quote_contract,
   quote_amount |-> ord.quote_amount,
   fulfilled |-> IF ord.state = STATE_NEW THEN NoRow
                 ELSE ord.state = STATE_FULFILLED]

KnowsOrders(d) ==
  \A o \in OrderId :
    d.order[o] = IF order[o].user = Nobody THEN NoRow ELSE RowOf(order[o])

\* The tables d show what L2 is.
Reflects(d) ==
  /\ KnowsContracts(d) /\ KnowsClients(d) /\ KnowsBalances(d)
  /\ KnowsTokens(d) /\ KnowsOrders(d)

\* What the rows of flows say of a contract
Flowed(d, type, c) ==
  Carried(d.flows, {r \in DOMAIN d.flows : r.type = type /\ r.contract = c})

Cash(d, c) == SumFunction([u \in Key |-> d.amount[u][c]])

OpenRows(d, c) ==
  {o \in OrderId : /\ d.order[o] # NoRow
                   /\ d.order[o].bid = TRUE /\ d.order[o].fulfilled = NoRow
                   /\ d.order[o].quote_contract = c}

Reserve(d, c) == SumFunction([o \in OpenRows(d, c) |-> d.order[o].quote_amount])

HeldTokens(d, c) == {t \in Felt : d.token[c][t].owner \in Key}

Stock(d, c) == SumFunction([t \in HeldTokens(d, c) |-> t])

\* What came in of a contract and did not go out
Net(d, c) == Flowed(d, "DEPOSIT", c) - Flowed(d, "WITHDRAWAL", c)

\* The books of one contract balance; a contract that is not known has none.
Balanced(d, c) ==
  /\ d.fungible[c] # FALSE => Cash(d, c) + Reserve(d, c) = Net(d, c)
  /\ d.fungible[c] # TRUE => Stock(d, c) = Net(d, c) + Flowed(d, "MINT", c)

\* The books balance, and no token belongs to the key 0.
Sound(d) ==
  /\ IsFiniteSet(DOMAIN d.flows)
  /\ \A c \in Contract : Balanced(d, c)
  /\ \A c \in Contract, t \in Felt : d.token[c][t].owner # Nobody

Proper(d) == Nobody \notin Recipient => Sound(d)

\* The interpreter can interpret tx on the tables d, and makes e of them.
Leads(d, tx, e) == Asserted(d, tx) /\ ~Stuck(d, tx) /\ e = Applied(d, tx)

Halts(d, tx) == Asserted(d, tx) /\ Stuck(d, tx)

\* The rows of orders are of orders on L2, and of their sides.
SidesAgree(d) ==
  \A o \in OrderId :
    d.order[o] # NoRow =>
      order[o].user # Nobody /\ d.order[o].bid = (order[o].bid = BID)

\* What an order on L2 keeps for ever
OrdersStay ==
  \A o \in OrderId :
    order[o].user # Nobody =>
      order'[o].user # Nobody /\ order'[o].bid = order[o].bid

\* From the committed tables, over the transactions of the log, to tables that
\* show what L2 is, or to the fulfilment of an ask.
Trail(k, h) ==
  /\ k \in 0 .. Len(log) /\ at <= k
  /\ h \in [0 .. k -> Books]
  /\ h[0] = db /\ h[at] = session
  /\ \A i \in 0 .. k : Proper(h[i]) /\ SidesAgree(h[i])
  /\ \A i \in 1 .. k : Leads(h[i - 1], log[i], h[i])
  /\ \/ k = Len(log) /\ Reflects(h[k])
     \/ k < Len(log) /\ Halts(h[k], log[k + 1])

Follows == skipped = 0 => \E k \in Nat : \E h : Trail(k, h)

\* The registrations on L1 of a collection that the gateway knows beforehand are
\* those that the gateway knows.
RegistrationsAgree ==
  \A r \in Registered, x \in Registration :
    x.contract = r.contract /\ x.kind \in Kind =>
      x.kind = KIND_ERC721 /\ x.mint = r.mint

\* L1 registers nothing but what Registration says, and deposits for recipients.
Announced ==
  \A m \in DOMAIN toL2 :
    /\ m.type = "register_contract" =>
         \E x \in Registration :
           m.contract = x.contract /\ m.kind = x.kind /\ m.mint = x.mint
    /\ m.type = "deposit" => m.user \in Recipient

-----------------------------------------------------------------------------
(***************************************************************************)
(* What the handlers do to the tables, table by table.                     *)
(***************************************************************************)
\* The rows of token become y, where token t of c gets owner u and ask o.
Shift(tk, y, c, t, u, o) ==
  /\ y \in [Contract -> [Felt -> TokenRow]]
  /\ y[c][t].owner = u /\ y[c][t].ask = o
  /\ \A e \in Contract, s \in Felt : e # c \/ s # t => y[e][s] = tk[e][s]

\* The balances become y, where user u gets v of c.
Credit(am, y, u, c, v) ==
  /\ y \in [Key -> [Contract -> Int]]
  /\ \A w \in Key, e \in Contract : y[w][e] = am[w][e] + At(w, e, u, c, v)

LEMMA TokenRowSet ==
  ASSUME NEW tk \in [Contract -> [Felt -> TokenRow]], NEW c \in Contract,
         NEW t \in Felt, NEW row \in TokenRow, NEW y, y = [tk EXCEPT ![c][t] = row]
  PROVE  Shift(tk, y, c, t, row.owner, row.ask)
<1> HIDE DEF Felt, TokenRow
<1>1. y \in [Contract -> [Felt -> TokenRow]] /\ y[c][t] = row
  OBVIOUS
<1>2. \A e \in Contract, s \in Felt : e # c \/ s # t => y[e][s] = tk[e][s]
  OBVIOUS
<1> QED
  BY <1>1, <1>2 DEF Shift

LEMMA ShiftTwice ==
  ASSUME NEW tk, NEW y, NEW z, NEW c, NEW t, NEW u, NEW o, NEW v, NEW p,
         Shift(tk, y, c, t, u, o), Shift(y, z, c, t, v, p)
  PROVE  Shift(tk, z, c, t, v, p)
BY DEF Shift

LEMMA TokenRowOf ==
  ASSUME NEW tk \in [Contract -> [Felt -> TokenRow]], NEW c \in Contract, NEW t \in Felt
  PROVE  /\ tk[c][t] \in TokenRow
         /\ tk[c][t].owner \in Key \cup {NoRow} /\ tk[c][t].ask \in OrderId \cup {NoRow}
<1>1. tk[c][t] \in TokenRow
  <2> HIDE DEF TokenRow, Felt
  <2> QED
    OBVIOUS
<1> HIDE DEF Key
<1> QED
  BY <1>1 DEF TokenRow

LEMMA AdjustTables ==
  ASSUME NEW d \in Books, NEW u \in Key, NEW c \in Contract, NEW v \in Int,
         NEW x, x = Adjust(d, u, c, v)
  PROVE  /\ x \in Books
         /\ x.fungible = d.fungible /\ x.minter = d.minter /\ x.address = d.address
         /\ x.token = d.token /\ x.order = d.order /\ x.flows = d.flows
         /\ Credit(d.amount, x.amount, u, c, v)
<1>1. d.amount \in [Key -> [Contract -> Int]]
  BY DEF Books
<1> DEFINE y == [d.amount EXCEPT ![u][c] = d.amount[u][c] + v]
<1>2. x = [d EXCEPT !.amount = y]
  BY DEF Adjust, Books
<1>3. d.amount[u][c] + v \in Int
  BY <1>1
<1> HIDE DEF Key
<1>4. y \in [Key -> [Contract -> Int]]
  BY <1>1, <1>3
<1>5. \A w \in Key, e \in Contract : y[w][e] = d.amount[w][e] + At(w, e, u, c, v)
  BY <1>1, <1>3 DEF At
<1> HIDE DEF y
<1>6. Credit(d.amount, y, u, c, v)
  BY <1>4, <1>5 DEF Credit
<1> HIDE DEF Felt, TokenRow, OrderRow, FlowBags
<1>7. x \in Books
  BY <1>2, <1>4 DEF Books
<1> QED
  BY <1>2, <1>6, <1>7 DEF Books

LEMMA OwnWrites ==
  ASSUME NEW d, NEW c, NEW t, NEW u, NEW row, row = [d.token[c][t] EXCEPT !.owner = u],
         NEW y, y = [d.token EXCEPT ![c][t] = row]
  PROVE  Own(d, c, t, u) = [d EXCEPT !.token = y]
BY DEF Own

LEMMA AskWrites ==
  ASSUME NEW d, NEW c, NEW t, NEW o, NEW row, row = [d.token[c][t] EXCEPT !.ask = o],
         NEW y, y = [d.token EXCEPT ![c][t] = row]
  PROVE  [d EXCEPT !.token[c][t].ask = o] = [d EXCEPT !.token = y]
OBVIOUS

LEMMA OwnTables ==
  ASSUME NEW d \in Books, NEW u \in Key \cup {NoRow}, NEW c \in Contract,
         NEW t \in Felt, NEW x, x = Own(d, c, t, u)
  PROVE  /\ x \in Books
         /\ x.fungible = d.fungible /\ x.minter = d.minter /\ x.address = d.address
         /\ x.amount = d.amount /\ x.order = d.order /\ x.flows = d.flows
         /\ Shift(d.token, x.token, c, t, u, d.token[c][t].ask)
<1>0. PICK row, y : /\ row = [d.token[c][t] EXCEPT !.owner = u]
                    /\ y = [d.token EXCEPT ![c][t] = row]
  OBVIOUS
<1> HIDE DEF Felt, TokenRow, OrderRow, FlowBags, Key
<1>1. d.token \in [Contract -> [Felt -> TokenRow]]
  BY DEF Books
<1>2. x = [d EXCEPT !.token = y]
  BY <1>0, OwnWrites
<1>3. row \in TokenRow /\ row.owner = u /\ row.ask = d.token[c][t].ask
  <2>1. d.token[c][t] \in TokenRow
    BY <1>1, TokenRowOf
  <2> QED
    BY <1>0, <2>1 DEF TokenRow
<1>4. Shift(d.token, y, c, t, u, d.token[c][t].ask)
  <2>1. Shift(d.token, y, c, t, row.owner, row.ask)
    BY <1>0, <1>1, <1>3, TokenRowSet
  <2> QED
    BY <1>3, <2>1
<1>5. x \in Books
  BY <1>2, <1>4 DEF Books, Shift
<1> QED
  BY <1>2, <1>4, <1>5 DEF Books

\* token.ask = o
Asks(d, x, c, t, o) == x = [d EXCEPT !.token[c][t].ask = o]

LEMMA AskTables ==
  ASSUME NEW d \in Books, NEW o \in OrderId \cup {NoRow}, NEW c \in Contract,
         NEW t \in Felt, NEW x, Asks(d, x, c, t, o)
  PROVE  /\ x \in Books
         /\ x.fungible = d.fungible /\ x.minter = d.minter /\ x.address = d.address
         /\ x.amount = d.amount /\ x.order = d.order /\ x.flows = d.flows
         /\ Shift(d.token, x.token, c, t, d.token[c][t].owner, o)
<1>0. PICK row, y : /\ row = [d.token[c][t] EXCEPT !.ask = o]
                    /\ y = [d.token EXCEPT ![c][t] = row]
  OBVIOUS
<1> HIDE DEF Felt, TokenRow, OrderRow, FlowBags, Key
<1>1. d.token \in [Contract -> [Felt -> TokenRow]]
  BY DEF Books
<1>2. x = [d EXCEPT !.token = y]
  BY <1>0, AskWrites DEF Asks
<1>3. row \in TokenRow /\ row.owner = d.token[c][t].owner /\ row.ask = o
  <2>1. d.token[c][t] \in TokenRow
    BY <1>1, TokenRowOf
  <2> QED
    BY <1>0, <2>1 DEF TokenRow
<1>4. Shift(d.token, y, c, t, d.token[c][t].owner, o)
  <2>1. Shift(d.token, y, c, t, row.owner, row.ask)
    BY <1>0, <1>1, <1>3, TokenRowSet
  <2> QED
    BY <1>3, <2>1
<1>5. x \in Books
  BY <1>2, <1>4 DEF Books, Shift
<1> QED
  BY <1>2, <1>4, <1>5 DEF Books

LEMMA LiftTables ==
  ASSUME NEW d \in Books, NEW c \in Contract, NEW t \in Felt,
         NEW x, x = LiftToken(d, c, t)
  PROVE  /\ x \in Books
         /\ x.fungible = d.fungible /\ x.minter = d.minter /\ x.address = d.address
         /\ x.amount = d.amount /\ x.order = d.order /\ x.flows = d.flows
         /\ Shift(d.token, x.token, c, t, d.token[c][t].owner, d.token[c][t].ask)
<1> DEFINE row == [d.token[c][t] EXCEPT !.exists = TRUE]
           y == [d.token EXCEPT ![c][t] = row]
<1> HIDE DEF Felt, TokenRow, OrderRow, FlowBags, Key
<1>1. d.token \in [Contract -> [Felt -> TokenRow]]
  BY DEF Books
<1>2. x = d \/ x = [d EXCEPT !.token = y]
  BY DEF LiftToken, Books
<1>3. row \in TokenRow /\ row.owner = d.token[c][t].owner /\ row.ask = d.token[c][t].ask
  <2>1. d.token[c][t] \in TokenRow
    BY <1>1, TokenRowOf
  <2> QED
    BY <2>1 DEF TokenRow, row
<1> HIDE DEF row
<1>4. Shift(d.token, y, c, t, d.token[c][t].owner, d.token[c][t].ask)
  <2>1. Shift(d.token, y, c, t, row.owner, row.ask)
    BY <1>1, <1>3, TokenRowSet
  <2> QED
    BY <1>3, <2>1
<1> HIDE DEF y
<1>5. CASE x = d
  BY <1>1, <1>5 DEF Shift
<1>6. CASE x = [d EXCEPT !.token = y]
  <2>1. x \in Books
    BY <1>4, <1>6 DEF Books, Shift
  <2> QED
    BY <1>4, <1>6, <2>1 DEF Books
<1> QED
  BY <1>2, <1>5, <1>6

FlowType == {"DEPOSIT", "WITHDRAWAL", "MINT", "TRANSFER"}

FlowOf(type, user, tx) ==
  [type |-> type, user |-> user, contract |-> tx.contract, value |-> tx.value,
   mint |-> tx.org]

LEMMA FlowTables ==
  ASSUME NEW d \in Books, NEW type \in FlowType,
         NEW u \in Key, NEW tx, tx.contract \in Contract, tx.value \in Felt,
         tx.org \in {0, 1}, NEW x, x = Flow(d, type, u, tx)
  PROVE  /\ x \in Books
         /\ x.fungible = d.fungible /\ x.minter = d.minter /\ x.address = d.address
         /\ x.amount = d.amount /\ x.token = d.token /\ x.order = d.order
         /\ x.flows = BagAdd(d.flows, FlowOf(type, u, tx))
<1> DEFINE row == FlowOf(type, u, tx)
           y == BagAdd(d.flows, row)
<1>1. row \in FlowRow
  <2> HIDE DEF Key, Felt
  <2> QED
    BY DEF FlowRow, FlowOf, FlowType
<1>2. x = [d EXCEPT !.flows = y]
  BY DEF Flow, Books, FlowOf
<1> HIDE DEF row, FlowRow, Felt, TokenRow, OrderRow, Key
<1>3. d.flows \in FlowBags
  BY DEF Books
<1>4. IsABag(d.flows) /\ DOMAIN d.flows \subseteq FlowRow
  <2>1. PICK S \in SUBSET FlowRow : d.flows \in [S -> Nat \ {0}]
    BY <1>3 DEF FlowBags
  <2> QED
    BY <2>1 DEF IsABag
<1>5. IsABag(y) /\ DOMAIN y \subseteq FlowRow
  BY <1>1, <1>4, BagTyping
<1> HIDE DEF y
<1>6. y \in FlowBags
  <2>1. y \in [DOMAIN y -> Nat \ {0}]
    BY <1>5 DEF IsABag
  <2> QED
    BY <1>5, <2>1 DEF FlowBags
<1> HIDE DEF FlowBags
<1>7. x \in Books
  BY <1>2, <1>6 DEF Books
<1> QED
  BY <1>2, <1>7 DEF Books, y, row

\* The rows of limit_order become y, where order o has this row.
Put(od, y, o, row) ==
  /\ y \in [OrderId -> OrderRow \cup {NoRow}]
  /\ y[o] = row
  /\ \A p \in OrderId : p # o => y[p] = od[p]

\* order o gets this row
Orders(d, x, o, row) == x = [d EXCEPT !.order[o] = row]

LEMMA OrderTables ==
  ASSUME NEW d \in Books, NEW o \in OrderId, NEW row \in OrderRow,
         NEW x, Orders(d, x, o, row)
  PROVE  /\ x \in Books
         /\ x.fungible = d.fungible /\ x.minter = d.minter /\ x.address = d.address
         /\ x.amount = d.amount /\ x.token = d.token /\ x.flows = d.flows
         /\ Put(d.order, x.order, o, row)
<1> DEFINE y == [d.order EXCEPT ![o] = row]
<1> HIDE DEF Felt, TokenRow, OrderRow, FlowBags, Key
<1>1. d.order \in [OrderId -> OrderRow \cup {NoRow}]
  BY DEF Books
<1>2. x = [d EXCEPT !.order = y]
  BY DEF Books, Orders
<1>3. Put(d.order, y, o, row)
  BY <1>1 DEF Put
<1> HIDE DEF y
<1>4. x \in Books
  BY <1>2, <1>3 DEF Books, Put
<1> QED
  BY <1>2, <1>3, <1>4 DEF Books

-----------------------------------------------------------------------------
(***************************************************************************)
(* The handlers.                                                           *)
(***************************************************************************)
LEMMA HandledIs ==
  ASSUME NEW d, NEW tx
  PROVE  /\ tx.f = "register_contract" => Handled(d, tx) = DbRegisterContract(d, tx)
         /\ tx.f = "register_client" => Handled(d, tx) = DbRegisterClient(d, tx)
         /\ tx.f = "mint" => Handled(d, tx) = DbMint(d, tx)
         /\ tx.f = "withdraw" => Handled(d, tx) = DbWithdraw(d, tx)
         /\ tx.f = "deposit" => Handled(d, tx) = DbDeposit(d, tx)
         /\ tx.f = "transfer" => Handled(d, tx) = DbTransfer(d, tx)
         /\ tx.f = "create_order" => Handled(d, tx) = DbCreateOrder(d, tx)
         /\ tx.f = "fulfill_order" => Handled(d, tx) = DbFulfillOrder(d, tx)
         /\ tx.f = "cancel_order" => Handled(d, tx) = DbCancelOrder(d, tx)
BY DEF Handled

\* The tables y before the handler: as d, with the token of tx lifted
Lifting(d, y, c, t) ==
  /\ y \in Books
  /\ y.fungible = d.fungible /\ y.minter = d.minter /\ y.address = d.address
  /\ y.amount = d.amount /\ y.order = d.order /\ y.flows = d.flows
  /\ Shift(d.token, y.token, c, t, d.token[c][t].owner, d.token[c][t].ask)
  /\ ~IsToken(d, c) => y = d

LEMMA LiftingApplied ==
  ASSUME NEW d \in Books, NEW tx, tx.contract \in Contract, tx.value \in Felt,
         tx.f \in {"mint", "withdraw", "deposit", "transfer", "create_order"}
  PROVE  \E y : Lifting(d, y, tx.contract, tx.value) /\ Applied(d, tx) = Handled(y, tx)
<1> DEFINE c == tx.contract
           t == tx.value
<1>1. CASE LiftsToken(d, tx)
  <2>1. PICK y : y = LiftToken(d, c, t)
    OBVIOUS
  <2>2. Lifting(d, y, c, t)
    <3> HIDE DEF c, t
    <3>1. IsToken(d, c)
      BY <1>1 DEF LiftsToken, c
    <3> QED
      BY <2>1, <3>1, LiftTables DEF Lifting, c, t
  <2> QED
    BY <1>1, <2>1, <2>2 DEF Applied
<1>2. CASE ~LiftsToken(d, tx)
  <2>1. d.token \in [Contract -> [Felt -> TokenRow]]
    BY DEF Books
  <2>2. Lifting(d, d, c, t)
    BY <2>1 DEF Lifting, Shift
  <2> QED
    BY <1>2, <2>2 DEF Applied
<1> QED
  BY <1>1, <1>2

LEMMA ContractApplied ==
  ASSUME NEW d \in Books, NEW tx \in ContractTx, NEW x, x = Applied(d, tx)
  PROVE  /\ x \in Books
         /\ x.address = d.address /\ x.amount = d.amount /\ x.token = d.token
         /\ x.order = d.order /\ x.flows = d.flows
         /\ Known(d, tx.contract) => x = d
         /\ ~Known(d, tx.contract) =>
              /\ x.fungible = [d.fungible EXCEPT ![tx.contract] = (tx.kind # KIND_ERC721)]
              /\ x.minter = [d.minter EXCEPT ![tx.contract] =
                               IF tx.kind # KIND_ERC721 THEN NoRow ELSE tx.mint]
<1>1. /\ tx.f = "register_contract" /\ tx.contract \in Contract /\ tx.kind \in Kind
      /\ tx.mint \in Key
  <2> HIDE DEF Key, Kind
  <2> QED
    BY DEF ContractTx
<1>2. x = DbRegisterContract(d, tx)
  BY <1>1, HandledIs DEF Applied, LiftsToken
<1>3. CASE Known(d, tx.contract)
  BY <1>2, <1>3 DEF DbRegisterContract
<1>4. CASE ~Known(d, tx.contract)
  <2>1. PICK f, m :
          /\ f = [d.fungible EXCEPT ![tx.contract] = (tx.kind # KIND_ERC721)]
          /\ m = [d.minter EXCEPT ![tx.contract] =
                    IF tx.kind # KIND_ERC721 THEN NoRow ELSE tx.mint]
    OBVIOUS
  <2> HIDE DEF Key, Felt, TokenRow, OrderRow, FlowBags
  <2>2. x = [d EXCEPT !.fungible = f, !.minter = m]
    BY <1>2, <1>4, <2>1 DEF DbRegisterContract
  <2>3. /\ f \in [Contract -> BOOLEAN \cup {NoRow}]
        /\ m \in [Contract -> Key \cup {NoRow}]
    <3>1. /\ d.fungible \in [Contract -> BOOLEAN \cup {NoRow}]
          /\ d.minter \in [Contract -> Key \cup {NoRow}]
      BY DEF Books
    <3>2. f \in [Contract -> BOOLEAN \cup {NoRow}]
      BY <2>1, <3>1
    <3>3. m \in [Contract -> Key \cup {NoRow}]
      BY <1>1, <2>1, <3>1
    <3> QED
      BY <3>2, <3>3
  <2>4. x \in Books
    BY <2>2, <2>3 DEF Books
  <2> QED
    BY <1>4, <2>1, <2>2, <2>4 DEF Books
<1> QED
  BY <1>3, <1>4

LEMMA ClientApplied ==
  ASSUME NEW d \in Books, NEW tx \in ClientTx, NEW x, x = Applied(d, tx)
  PROVE  /\ x \in Books
         /\ x.fungible = d.fungible /\ x.minter = d.minter
         /\ x.amount = d.amount /\ x.token = d.token
         /\ x.order = d.order /\ x.flows = d.flows
         /\ x.address = [d.address EXCEPT ![tx.user] = tx.address]
<1>1. tx.f = "register_client" /\ tx.user \in User /\ tx.address \in Address
  BY DEF ClientTx
<1>2. x = DbRegisterClient(d, tx)
  BY <1>1, HandledIs DEF Applied, LiftsToken
<1>3. PICK a : a = [d.address EXCEPT ![tx.user] = tx.address]
  OBVIOUS
<1> HIDE DEF Key, Felt, TokenRow, OrderRow, FlowBags
<1>4. x = [d EXCEPT !.address = a]
  BY <1>2, <1>3 DEF DbRegisterClient
<1>5. d.address \in [Key -> Address \cup {NoRow}]
  BY DEF Books
<1>6. a \in [Key -> Address \cup {NoRow}]
  BY <1>1, <1>3, <1>5
<1>7. x \in Books
  BY <1>4, <1>6 DEF Books
<1> QED
  BY <1>3, <1>4, <1>7 DEF Books

LEMMA FlowTxFields ==
  ASSUME NEW tx \in FlowTx
  PROVE  /\ tx.f \in {"mint", "deposit", "withdraw"} /\ tx.user \in Key
         /\ tx.contract \in Contract /\ tx.value \in Felt /\ tx.org \in {0, 1}
         /\ tx.value \in Int
<1>1. /\ tx.f \in {"mint", "deposit", "withdraw"} /\ tx.user \in Key
      /\ tx.contract \in Contract /\ tx.value \in Felt /\ tx.org \in {0, 1}
  <2> HIDE DEF Key, Felt
  <2> QED
    BY DEF FlowTx
<1> QED
  BY <1>1 DEF Felt

\* Token t of c changes hands, and nothing else but the flows
Handed(d, x, c, t, u) ==
  /\ x \in Books
  /\ x.fungible = d.fungible /\ x.minter = d.minter /\ x.address = d.address
  /\ x.amount = d.amount /\ x.order = d.order
  /\ Shift(d.token, x.token, c, t, u, d.token[c][t].ask)

\* User u gets v of c, and nothing else but the flows changes
Credited(d, x, u, c, v) ==
  /\ x \in Books
  /\ x.fungible = d.fungible /\ x.minter = d.minter /\ x.address = d.address
  /\ x.token = d.token /\ x.order = d.order
  /\ Credit(d.amount, x.amount, u, c, v)

LEMMA OwnFlow ==
  ASSUME NEW d \in Books, NEW c \in Contract, NEW t \in Felt, NEW u \in Key \cup {NoRow},
         NEW w \in Key, NEW type \in FlowType,
         NEW tx, tx.contract = c, tx.value = t, tx.org \in {0, 1},
         NEW y, Lifting(d, y, c, t), NEW x, x = Flow(Own(y, c, t, u), type, w, tx)
  PROVE  /\ Handed(d, x, c, t, u)
         /\ x.flows = BagAdd(d.flows, FlowOf(type, w, tx))
<1>1. PICK z : z = Own(y, c, t, u)
  OBVIOUS
<1> HIDE DEF Key, Felt, Books
<1>2. /\ z \in Books
      /\ z.fungible = d.fungible /\ z.minter = d.minter /\ z.address = d.address
      /\ z.amount = d.amount /\ z.order = d.order /\ z.flows = d.flows
      /\ Shift(y.token, z.token, c, t, u, d.token[c][t].ask)
  <2>1. y \in Books /\ y.token[c][t].ask = d.token[c][t].ask
    BY DEF Lifting, Shift
  <2> QED
    BY <1>1, <2>1, OwnTables DEF Lifting
<1>3. Shift(d.token, z.token, c, t, u, d.token[c][t].ask)
  BY <1>2, ShiftTwice DEF Lifting
<1>4. z \in Books /\ tx.contract \in Contract /\ tx.value \in Felt /\ x = Flow(z, type, w, tx)
  BY <1>1, <1>2
<1>5. /\ x \in Books
      /\ x.fungible = z.fungible /\ x.minter = z.minter /\ x.address = z.address
      /\ x.amount = z.amount /\ x.token = z.token /\ x.order = z.order
      /\ x.flows = BagAdd(z.flows, FlowOf(type, w, tx))
  BY <1>4, FlowTables
<1> QED
  BY <1>2, <1>3, <1>5 DEF Handed

LEMMA AdjustFlow ==
  ASSUME NEW d \in Books, NEW c \in Contract, NEW v \in Int, NEW u \in Key,
         NEW type \in FlowType,
         NEW tx, tx.contract \in Contract, tx.value \in Felt, tx.org \in {0, 1},
         NEW x, x = Flow(Adjust(d, u, c, v), type, u, tx)
  PROVE  /\ Credited(d, x, u, c, v)
         /\ x.flows = BagAdd(d.flows, FlowOf(type, u, tx))
<1>1. PICK z : z = Adjust(d, u, c, v)
  OBVIOUS
<1> HIDE DEF Key, Felt, Books
<1>2. /\ z \in Books
      /\ z.fungible = d.fungible /\ z.minter = d.minter /\ z.address = d.address
      /\ z.token = d.token /\ z.order = d.order /\ z.flows = d.flows
      /\ Credit(d.amount, z.amount, u, c, v)
  BY <1>1, AdjustTables
<1>3. x = Flow(z, type, u, tx)
  BY <1>1
<1>4. /\ x \in Books
      /\ x.fungible = z.fungible /\ x.minter = z.minter /\ x.address = z.address
      /\ x.amount = z.amount /\ x.token = z.token /\ x.order = z.order
      /\ x.flows = BagAdd(z.flows, FlowOf(type, u, tx))
  BY <1>2, <1>3, FlowTables
<1> QED
  BY <1>2, <1>4 DEF Credited

LEMMA MintApplied ==
  ASSUME NEW d \in Books, NEW tx \in FlowTx, tx.f = "mint", NEW x, x = Applied(d, tx)
  PROVE  /\ Handed(d, x, tx.contract, tx.value, tx.user)
         /\ x.flows = BagAdd(d.flows, FlowOf("MINT", tx.user, tx))
<1>1. PICK c, t, u : c = tx.contract /\ t = tx.value /\ u = tx.user
  OBVIOUS
<1>2. u \in Key /\ c \in Contract /\ t \in Felt /\ tx.org \in {0, 1}
  BY <1>1, FlowTxFields
<1>3. PICK y : Lifting(d, y, c, t) /\ x = Handled(y, tx)
  BY <1>1, <1>2, LiftingApplied
<1>4. x = Flow(Own(y, c, t, u), "MINT", u, tx)
  BY <1>1, <1>3, HandledIs DEF DbMint
<1> HIDE DEF Key, Felt, Books
<1>5. u \in Key \cup {NoRow} /\ "MINT" \in FlowType
  BY <1>2 DEF FlowType
<1> QED
  BY <1>1, <1>2, <1>3, <1>4, <1>5, OwnFlow

LEMMA DepositApplied ==
  ASSUME NEW d \in Books, NEW tx \in FlowTx, tx.f = "deposit", NEW x, x = Applied(d, tx)
  PROVE  /\ IF IsToken(d, tx.contract)
            THEN Handed(d, x, tx.contract, tx.value, tx.user)
            ELSE Credited(d, x, tx.user, tx.contract, tx.value)
         /\ x.flows = BagAdd(d.flows, FlowOf("DEPOSIT", tx.user, tx))
<1>1. PICK c, t, u : c = tx.contract /\ t = tx.value /\ u = tx.user
  OBVIOUS
<1>2. u \in Key /\ c \in Contract /\ t \in Felt /\ t \in Int /\ tx.org \in {0, 1}
  BY <1>1, FlowTxFields
<1>3. PICK y : Lifting(d, y, c, t) /\ x = Handled(y, tx)
  BY <1>1, <1>2, LiftingApplied
<1>4. x = DbDeposit(y, tx) /\ (IsToken(y, c) <=> IsToken(d, c))
  BY <1>3, HandledIs DEF Lifting, IsToken
<1> HIDE DEF Key, Felt, Books
<1>5. u \in Key \cup {NoRow} /\ "DEPOSIT" \in FlowType
  BY <1>2 DEF FlowType
<1>6. CASE IsToken(d, c)
  <2>1. x = Flow(Own(y, c, t, u), "DEPOSIT", u, tx)
    BY <1>1, <1>4, <1>6 DEF DbDeposit
  <2> QED
    BY <1>1, <1>2, <1>3, <1>5, <1>6, <2>1, OwnFlow
<1>7. CASE ~IsToken(d, c)
  <2>1. x = Flow(Adjust(d, u, c, t), "DEPOSIT", u, tx)
    BY <1>1, <1>3, <1>4, <1>7 DEF DbDeposit, Lifting
  <2> QED
    BY <1>1, <1>2, <1>5, <1>7, <2>1, AdjustFlow
<1> QED
  BY <1>6, <1>7

LEMMA WithdrawApplied ==
  ASSUME NEW d \in Books, NEW tx \in FlowTx, tx.f = "withdraw", NEW x, x = Applied(d, tx)
  PROVE  /\ IF IsToken(d, tx.contract)
            THEN Handed(d, x, tx.contract, tx.value, NoRow)
            ELSE Credited(d, x, tx.user, tx.contract, -tx.value)
         /\ x.flows = BagAdd(d.flows, FlowOf("WITHDRAWAL", tx.user, tx))
<1>1. PICK c, t, u, v : c = tx.contract /\ t = tx.value /\ u = tx.user /\ v = -tx.value
  OBVIOUS
<1>2. u \in Key /\ c \in Contract /\ t \in Felt /\ v \in Int /\ tx.org \in {0, 1}
  BY <1>1, FlowTxFields
<1>3. PICK y : Lifting(d, y, c, t) /\ x = Handled(y, tx)
  BY <1>1, <1>2, LiftingApplied
<1>4. x = DbWithdraw(y, tx) /\ (IsToken(y, c) <=> IsToken(d, c))
  BY <1>3, HandledIs DEF Lifting, IsToken
<1> HIDE DEF Key, Felt, Books
<1>5. NoRow \in Key \cup {NoRow} /\ "WITHDRAWAL" \in FlowType
  BY DEF FlowType
<1>6. CASE IsToken(d, c)
  <2>1. x = Flow(Own(y, c, t, NoRow), "WITHDRAWAL", u, tx)
    BY <1>1, <1>4, <1>6 DEF DbWithdraw
  <2> QED
    BY <1>1, <1>2, <1>3, <1>5, <1>6, <2>1, OwnFlow
<1>7. CASE ~IsToken(d, c)
  <2>1. x = Flow(Adjust(d, u, c, v), "WITHDRAWAL", u, tx)
    BY <1>1, <1>3, <1>4, <1>7 DEF DbWithdraw, Lifting
  <2> QED
    BY <1>1, <1>2, <1>5, <1>7, <2>1, AdjustFlow
<1> QED
  BY <1>6, <1>7

LEMMA TransferTxFields ==
  ASSUME NEW tx \in TransferTx
  PROVE  /\ tx.f = "transfer" /\ tx.from \in Key /\ tx.to \in Key
         /\ tx.contract \in Contract /\ tx.value \in Felt /\ tx.org \in {0, 1}
         /\ tx.value \in Int /\ -tx.value \in Int
<1>1. /\ tx.f = "transfer" /\ tx.from \in Key /\ tx.to \in Key
      /\ tx.contract \in Contract /\ tx.value \in Felt /\ tx.org \in {0, 1}
  <2> HIDE DEF Key, Felt
  <2> QED
    BY DEF TransferTx
<1> QED
  BY <1>1 DEF Felt

\* The balances become y, where v of c goes from user u to user w.
Payment(am, y, u, w, c, v) ==
  /\ y \in [Key -> [Contract -> Int]]
  /\ \A s \in Key, e \in Contract :
       y[s][e] = (am[s][e] + At(s, e, u, c, -v)) + At(s, e, w, c, v)

LEMMA TransferApplied ==
  ASSUME NEW d \in Books, NEW tx \in TransferTx, NEW x, x = Applied(d, tx)
  PROVE  IF IsToken(d, tx.contract)
         THEN /\ Handed(d, x, tx.contract, tx.value, tx.to)
              /\ x.flows = BagAdd(d.flows, FlowOf("TRANSFER", tx.to, tx))
         ELSE /\ x \in Books
              /\ x.fungible = d.fungible /\ x.minter = d.minter /\ x.address = d.address
              /\ x.token = d.token /\ x.order = d.order /\ x.flows = d.flows
              /\ Payment(d.amount, x.amount, tx.from, tx.to, tx.contract, tx.value)
<1>1. PICK c, t, u, w, v : /\ c = tx.contract /\ t = tx.value /\ u = tx.from /\ w = tx.to
                           /\ v = -tx.value
  OBVIOUS
<1>2. /\ u \in Key /\ w \in Key /\ c \in Contract /\ t \in Felt /\ t \in Int /\ v \in Int
      /\ tx.org \in {0, 1} /\ tx.f = "transfer"
  BY <1>1, TransferTxFields
<1>3. PICK y : Lifting(d, y, c, t) /\ x = Handled(y, tx)
  BY <1>1, <1>2, LiftingApplied
<1>4. x = DbTransfer(y, tx) /\ (IsToken(y, c) <=> IsToken(d, c))
  BY <1>2, <1>3, HandledIs DEF Lifting, IsToken
<1> HIDE DEF Key, Felt, Books
<1>5. w \in Key \cup {NoRow} /\ "TRANSFER" \in FlowType
  BY <1>2 DEF FlowType
<1>6. CASE IsToken(d, c)
  <2>1. x = Flow(Own(y, c, t, w), "TRANSFER", w, tx)
    BY <1>1, <1>4, <1>6 DEF DbTransfer
  <2> QED
    BY <1>1, <1>2, <1>3, <1>5, <1>6, <2>1, OwnFlow
<1>7. CASE ~IsToken(d, c)
  <2>1. PICK z : z = Adjust(d, u, c, v)
    OBVIOUS
  <2>2. x = Adjust(z, w, c, t)
    BY <1>1, <1>3, <1>4, <1>7, <2>1 DEF DbTransfer, Lifting
  <2>3. /\ z \in Books
        /\ z.fungible = d.fungible /\ z.minter = d.minter /\ z.address = d.address
        /\ z.token = d.token /\ z.order = d.order /\ z.flows = d.flows
        /\ Credit(d.amount, z.amount, u, c, v)
    BY <1>2, <2>1, AdjustTables
  <2>4. /\ x \in Books
        /\ x.fungible = z.fungible /\ x.minter = z.minter /\ x.address = z.address
        /\ x.token = z.token /\ x.order = z.order /\ x.flows = z.flows
        /\ Credit(z.amount, x.amount, w, c, t)
    BY <1>2, <2>2, <2>3, AdjustTables
  <2>5. Payment(d.amount, x.amount, u, w, c, t)
    <3>1. -t = v
      BY <1>1
    <3> QED
      BY <2>3, <2>4, <3>1 DEF Payment, Credit
  <2> QED
    BY <1>1, <1>7, <2>3, <2>4, <2>5
<1> QED
  BY <1>6, <1>7

LEMMA CreateTxFields ==
  ASSUME NEW tx \in CreateTx
  PROVE  /\ tx.f = "create_order" /\ tx.order_id \in OrderId /\ tx.user \in User
         /\ tx.bid \in {ASK, BID} /\ tx.contract \in Contract /\ tx.value \in Felt
         /\ tx.quote_contract \in Contract /\ tx.quote_amount \in Felt
         /\ tx.user \in Key /\ tx.quote_amount \in Int /\ -tx.quote_amount \in Int
<1>1. /\ tx.f = "create_order" /\ tx.order_id \in OrderId /\ tx.user \in User
      /\ tx.bid \in {ASK, BID} /\ tx.contract \in Contract /\ tx.value \in Felt
      /\ tx.quote_contract \in Contract /\ tx.quote_amount \in Felt
  <2> HIDE DEF ASK, BID, Felt
  <2> QED
    BY DEF CreateTx
<1>2. tx.user \in Key
  BY <1>1, KeyTyping
<1> QED
  BY <1>1, <1>2 DEF Felt

\* The row of the order that tx creates
NewRow(tx) ==
  [user |-> tx.user, bid |-> tx.bid = BID, contract |-> tx.contract,
   token |-> tx.value, quote_contract |-> tx.quote_contract,
   quote_amount |-> tx.quote_amount, fulfilled |-> NoRow]

LEMMA CreateApplied ==
  ASSUME NEW d \in Books, NEW tx \in CreateTx, NEW x, x = Applied(d, tx)
  PROVE  /\ x \in Books
         /\ x.fungible = d.fungible /\ x.minter = d.minter /\ x.address = d.address
         /\ x.flows = d.flows
         /\ Put(d.order, x.order, tx.order_id, NewRow(tx))
         /\ IF tx.bid = ASK
            THEN /\ x.amount = d.amount
                 /\ Shift(d.token, x.token, tx.contract, tx.value,
                          d.token[tx.contract][tx.value].owner, tx.order_id)
            ELSE /\ Credit(d.amount, x.amount, tx.user, tx.quote_contract,
                           -tx.quote_amount)
                 /\ Shift(d.token, x.token, tx.contract, tx.value,
                          d.token[tx.contract][tx.value].owner,
                          d.token[tx.contract][tx.value].ask)
<1>1. PICK c, t, u, o, qc, q, v : /\ c = tx.contract /\ t = tx.value /\ u = tx.user
                              /\ o = tx.order_id /\ qc = tx.quote_contract
                              /\ q = tx.quote_amount /\ v = -tx.quote_amount
  OBVIOUS
<1>2. /\ u \in Key /\ c \in Contract /\ t \in Felt /\ o \in OrderId /\ qc \in Contract
      /\ q \in Felt /\ v \in Int /\ tx.f = "create_order" /\ tx.bid \in {ASK, BID}
  BY <1>1, CreateTxFields
<1>3. PICK y : Lifting(d, y, c, t) /\ x = Handled(y, tx)
  BY <1>1, <1>2, LiftingApplied
<1>4. x = DbCreateOrder(y, tx)
  BY <1>2, <1>3, HandledIs
<1>5. PICK row, z : row = NewRow(tx) /\ z = [y EXCEPT !.order[o] = row]
  OBVIOUS
<1>6. row \in OrderRow
  <2> HIDE DEF Key, Felt
  <2> QED
    BY <1>1, <1>2, <1>5 DEF OrderRow, NewRow
<1>7. x = IF tx.bid = ASK THEN [z EXCEPT !.token[c][t].ask = o] ELSE Adjust(z, u, qc, v)
  BY <1>1, <1>4, <1>5 DEF DbCreateOrder, NewRow
<1> HIDE DEF Key, Felt, Books
<1>8. /\ z \in Books
      /\ z.fungible = y.fungible /\ z.minter = y.minter /\ z.address = y.address
      /\ z.amount = y.amount /\ z.token = y.token /\ z.flows = y.flows
      /\ Put(y.order, z.order, o, row)
  <2>1. y \in Books
    BY <1>3 DEF Lifting
  <2>2. o \in OrderId /\ Orders(y, z, o, row)
    BY <1>2, <1>5 DEF Orders
  <2> QED
    BY <1>6, <2>1, <2>2, OrderTables
<1>9. /\ z.fungible = d.fungible /\ z.minter = d.minter /\ z.address = d.address
      /\ z.amount = d.amount /\ z.flows = d.flows
      /\ Put(d.order, z.order, o, row)
      /\ Shift(d.token, z.token, c, t, d.token[c][t].owner, d.token[c][t].ask)
  BY <1>3, <1>8 DEF Lifting
<1>10. CASE tx.bid = ASK
  <2>1. o \in OrderId \cup {NoRow} /\ Asks(z, x, c, t, o)
    BY <1>2, <1>7, <1>10 DEF Asks
  <2>2. /\ x \in Books
        /\ x.fungible = z.fungible /\ x.minter = z.minter /\ x.address = z.address
        /\ x.amount = z.amount /\ x.order = z.order /\ x.flows = z.flows
        /\ Shift(z.token, x.token, c, t, z.token[c][t].owner, o)
    BY <1>2, <1>8, <2>1, AskTables
  <2>3. Shift(d.token, x.token, c, t, d.token[c][t].owner, o)
    BY <1>9, <2>2, ShiftTwice DEF Shift
  <2> QED
    BY <1>1, <1>5, <1>9, <1>10, <2>2, <2>3
<1>11. CASE tx.bid # ASK
  <2>1. /\ x \in Books
        /\ x.fungible = z.fungible /\ x.minter = z.minter /\ x.address = z.address
        /\ x.token = z.token /\ x.order = z.order /\ x.flows = z.flows
        /\ Credit(z.amount, x.amount, u, qc, v)
    BY <1>2, <1>7, <1>8, <1>11, AdjustTables
  <2> QED
    BY <1>1, <1>5, <1>9, <1>11, <2>1
<1> QED
  BY <1>10, <1>11

LEMMA OrderRowFields ==
  ASSUME NEW d \in Books, NEW o \in OrderId, d.order[o] # NoRow
  PROVE  /\ d.order[o] \in OrderRow
         /\ d.order[o].user \in Key /\ d.order[o].bid \in BOOLEAN
         /\ d.order[o].contract \in Contract /\ d.order[o].token \in Felt
         /\ d.order[o].quote_contract \in Contract /\ d.order[o].quote_amount \in Felt
         /\ d.order[o].quote_amount \in Int
<1>1. d.order[o] \in OrderRow
  <2> HIDE DEF OrderRow
  <2> QED
    BY DEF Books
<1>2. /\ d.order[o].user \in Key /\ d.order[o].bid \in BOOLEAN
      /\ d.order[o].contract \in Contract /\ d.order[o].token \in Felt
      /\ d.order[o].quote_contract \in Contract /\ d.order[o].quote_amount \in Felt
  <2> HIDE DEF Key, Felt
  <2> QED
    BY <1>1 DEF OrderRow
<1> QED
  BY <1>1, <1>2 DEF Felt

\* Order o is closed, with this outcome.
Closing(d, z, o, outcome) ==
  /\ z \in Books
  /\ z.fungible = d.fungible /\ z.minter = d.minter /\ z.address = d.address
  /\ z.amount = d.amount /\ z.token = d.token /\ z.flows = d.flows
  /\ Put(d.order, z.order, o, [d.order[o] EXCEPT !.fulfilled = outcome])

\* limit_order.fulfilled = outcome
Closes(d, z, o, outcome) == z = [d EXCEPT !.order[o].fulfilled = outcome]

LEMMA ClosingTables ==
  ASSUME NEW d \in Books, NEW o \in OrderId, d.order[o] # NoRow,
         NEW outcome \in BOOLEAN, NEW z, Closes(d, z, o, outcome)
  PROVE  Closing(d, z, o, outcome)
<1>1. PICK row : row = [d.order[o] EXCEPT !.fulfilled = outcome]
  OBVIOUS
<1> HIDE DEF Key, Felt, Books
<1>2. row \in OrderRow
  BY <1>1, OrderRowFields DEF OrderRow
<1>3. Orders(d, z, o, row)
  BY <1>1 DEF Orders, Closes
<1>4. /\ z \in Books
      /\ z.fungible = d.fungible /\ z.minter = d.minter /\ z.address = d.address
      /\ z.amount = d.amount /\ z.token = d.token /\ z.flows = d.flows
      /\ Put(d.order, z.order, o, row)
  BY <1>2, <1>3, OrderTables
<1> QED
  BY <1>1, <1>4 DEF Closing

LEMMA FulfillApplied ==
  ASSUME NEW d \in Books, NEW tx \in FulfillTx, NEW ord, ord = d.order[tx.order_id],
         ord # NoRow, NEW x, x = Applied(d, tx)
  PROVE  /\ x \in Books
         /\ x.fungible = d.fungible /\ x.minter = d.minter /\ x.address = d.address
         /\ x.flows = d.flows
         /\ Put(d.order, x.order, tx.order_id, [ord EXCEPT !.fulfilled = TRUE])
         /\ Credit(d.amount, x.amount, tx.user, ord.quote_contract, ord.quote_amount)
         /\ Shift(d.token, x.token, ord.contract, ord.token, ord.user, NoRow)
<1>1. PICK c, t, u, o, qc, q, w :
        /\ c = ord.contract /\ t = ord.token /\ w = ord.user /\ qc = ord.quote_contract
        /\ q = ord.quote_amount /\ u = tx.user /\ o = tx.order_id
  OBVIOUS
<1>2. tx.f = "fulfill_order" /\ o \in OrderId /\ u \in Key
  <2>1. tx.f = "fulfill_order" /\ o \in OrderId /\ u \in User
    BY <1>1 DEF FulfillTx
  <2> QED
    BY <2>1, KeyTyping
<1>3. w \in Key /\ c \in Contract /\ t \in Felt /\ qc \in Contract /\ q \in Int
  <2> HIDE DEF Key, Felt, Books
  <2> QED
    BY <1>1, <1>2, OrderRowFields
<1>4. x = DbFulfillOrder(d, tx)
  BY <1>2, HandledIs DEF Applied, LiftsToken
<1>5. PICK z : z = [d EXCEPT !.order[o].fulfilled = TRUE]
  OBVIOUS
<1>6. PICK y : y = [z EXCEPT !.token[c][t].ask = NoRow]
  OBVIOUS
<1>7. PICK a : a = Own(y, c, t, w)
  OBVIOUS
<1>8. x = Adjust(a, u, qc, q)
  <2>1. y = [d EXCEPT !.order[o].fulfilled = TRUE, !.token[c][t].ask = NoRow]
    BY <1>5, <1>6
  <2> QED
    BY <1>1, <1>4, <1>7, <2>1 DEF DbFulfillOrder
<1> HIDE DEF Key, Felt, Books
<1>9. Closing(d, z, o, TRUE)
  BY <1>1, <1>2, <1>5, ClosingTables DEF Closes
<1>10. /\ y \in Books
       /\ y.fungible = z.fungible /\ y.minter = z.minter /\ y.address = z.address
       /\ y.amount = z.amount /\ y.order = z.order /\ y.flows = z.flows
       /\ Shift(z.token, y.token, c, t, z.token[c][t].owner, NoRow)
  <2>1. z \in Books /\ NoRow \in OrderId \cup {NoRow}
    BY <1>9 DEF Closing
  <2>2. Asks(z, y, c, t, NoRow)
    BY <1>6 DEF Asks
  <2> QED
    BY <1>3, <2>1, <2>2, AskTables
<1>11. /\ a \in Books
       /\ a.fungible = y.fungible /\ a.minter = y.minter /\ a.address = y.address
       /\ a.amount = y.amount /\ a.order = y.order /\ a.flows = y.flows
       /\ Shift(y.token, a.token, c, t, w, NoRow)
  <2>1. w \in Key \cup {NoRow} /\ y.token[c][t].ask = NoRow
    BY <1>3, <1>10 DEF Shift
  <2> QED
    BY <1>3, <1>7, <1>10, <2>1, OwnTables
<1>12. /\ x \in Books
       /\ x.fungible = a.fungible /\ x.minter = a.minter /\ x.address = a.address
       /\ x.token = a.token /\ x.order = a.order /\ x.flows = a.flows
       /\ Credit(a.amount, x.amount, u, qc, q)
  BY <1>2, <1>3, <1>8, <1>11, AdjustTables
<1>13. Shift(d.token, x.token, c, t, w, NoRow)
  <2>1. Shift(z.token, a.token, c, t, w, NoRow)
    BY <1>10, <1>11, ShiftTwice
  <2> QED
    BY <1>9, <1>12, <2>1 DEF Closing
<1> QED
  BY <1>1, <1>9, <1>10, <1>11, <1>12, <1>13 DEF Closing

LEMMA CancelApplied ==
  ASSUME NEW d \in Books, NEW tx \in CancelTx, NEW ord, ord = d.order[tx.order_id],
         ord # NoRow, NEW x, x = Applied(d, tx)
  PROVE  /\ x \in Books
         /\ x.fungible = d.fungible /\ x.minter = d.minter /\ x.address = d.address
         /\ x.flows = d.flows
         /\ Put(d.order, x.order, tx.order_id, [ord EXCEPT !.fulfilled = FALSE])
         /\ IF ord.bid
            THEN /\ x.token = d.token
                 /\ Credit(d.amount, x.amount, ord.user, ord.quote_contract,
                           ord.quote_amount)
            ELSE /\ x.amount = d.amount
                 /\ Shift(d.token, x.token, ord.contract, ord.token,
                          d.token[ord.contract][ord.token].owner, NoRow)
<1>1. PICK c, t, o, qc, q, w :
        /\ c = ord.contract /\ t = ord.token /\ w = ord.user /\ qc = ord.quote_contract
        /\ q = ord.quote_amount /\ o = tx.order_id
  OBVIOUS
<1>2. tx.f = "cancel_order" /\ o \in OrderId
  BY <1>1 DEF CancelTx
<1>3. w \in Key /\ c \in Contract /\ t \in Felt /\ qc \in Contract /\ q \in Int
  <2> HIDE DEF Key, Felt, Books
  <2> QED
    BY <1>1, <1>2, OrderRowFields
<1>4. x = DbCancelOrder(d, tx)
  BY <1>2, HandledIs DEF Applied, LiftsToken
<1>5. PICK z : z = [d EXCEPT !.order[o].fulfilled = FALSE]
  OBVIOUS
<1>6. x = IF ord.bid THEN Adjust(z, w, qc, q) ELSE [z EXCEPT !.token[c][t].ask = NoRow]
  BY <1>1, <1>4, <1>5 DEF DbCancelOrder
<1> HIDE DEF Key, Felt, Books
<1>7. Closing(d, z, o, FALSE)
  BY <1>1, <1>2, <1>5, ClosingTables DEF Closes
<1>8. CASE ord.bid
  <2>1. z \in Books /\ x = Adjust(z, w, qc, q)
    BY <1>6, <1>7, <1>8 DEF Closing
  <2>2. /\ x \in Books
        /\ x.fungible = z.fungible /\ x.minter = z.minter /\ x.address = z.address
        /\ x.token = z.token /\ x.order = z.order /\ x.flows = z.flows
        /\ Credit(z.amount, x.amount, w, qc, q)
    BY <1>3, <2>1, AdjustTables
  <2> QED
    BY <1>1, <1>7, <1>8, <2>2 DEF Closing
<1>9. CASE ~ord.bid
  <2>1. z \in Books /\ NoRow \in OrderId \cup {NoRow}
    BY <1>7 DEF Closing
  <2>2. PICK y : y = x /\ Asks(z, y, c, t, NoRow)
    BY <1>6, <1>9 DEF Asks
  <2>3. /\ y \in Books
        /\ y.fungible = z.fungible /\ y.minter = z.minter /\ y.address = z.address
        /\ y.amount = z.amount /\ y.order = z.order /\ y.flows = z.flows
        /\ Shift(z.token, y.token, c, t, z.token[c][t].owner, NoRow)
    BY <1>3, <2>1, <2>2, AskTables
  <2> QED
    BY <1>1, <1>7, <1>9, <2>2, <2>3 DEF Closing
<1> QED
  BY <1>8, <1>9

\* The types of the tables
LEMMA AppliedTyping ==
  ASSUME NEW d \in Books, NEW tx \in Txs, Asserted(d, tx)
  PROVE  Applied(d, tx) \in Books
<1>1. PICK x : x = Applied(d, tx)
  OBVIOUS
<1> HIDE DEF Books
<1>2. CASE tx \in FlowTx
  <2>1. tx.f \in {"mint", "deposit", "withdraw"}
    BY <1>2, FlowTxFields
  <2>2. CASE tx.f = "mint"
    BY <1>1, <1>2, <2>2, MintApplied DEF Handed
  <2>3. CASE tx.f = "deposit"
    BY <1>1, <1>2, <2>3, DepositApplied DEF Handed, Credited
  <2>4. CASE tx.f = "withdraw"
    BY <1>1, <1>2, <2>4, WithdrawApplied DEF Handed, Credited
  <2> QED
    BY <2>1, <2>2, <2>3, <2>4
<1>3. CASE tx \in TransferTx
  BY <1>1, <1>3, TransferApplied DEF Handed
<1>4. CASE tx \in ContractTx
  BY <1>1, <1>4, ContractApplied
<1>5. CASE tx \in ClientTx
  BY <1>1, <1>5, ClientApplied
<1>6. CASE tx \in CreateTx
  BY <1>1, <1>6, CreateApplied
<1>7. CASE tx \in FulfillTx
  <2>1. d.order[tx.order_id] # NoRow
    <3>1. tx.f = "fulfill_order"
      BY <1>7 DEF FulfillTx
    <3> QED
      BY <3>1 DEF Asserted
  <2> QED
    BY <1>1, <1>7, <2>1, FulfillApplied
<1>8. CASE tx \in CancelTx
  <2>1. d.order[tx.order_id] # NoRow
    <3>1. tx.f = "cancel_order"
      BY <1>8 DEF CancelTx
    <3> QED
      BY <3>1 DEF Asserted
  <2> QED
    BY <1>1, <1>8, <2>1, CancelApplied
<1> QED
  BY <1>2, <1>3, <1>4, <1>5, <1>6, <1>7, <1>8 DEF Txs

-----------------------------------------------------------------------------
(***************************************************************************)
(* What the exchange keeps, the tables keep.                               *)
(***************************************************************************)
LEMMA ContractsKept ==
  ASSUME NEW d, NEW x, KnowsContracts(d), UNCHANGED description,
         x.fungible = d.fungible, x.minter = d.minter
  PROVE  KnowsContracts(x)'
BY DEF KnowsContracts

LEMMA ClientsKept ==
  ASSUME NEW d, NEW x, KnowsClients(d), UNCHANGED client, x.address = d.address
  PROVE  KnowsClients(x)'
BY DEF KnowsClients

LEMMA BalancesKept ==
  ASSUME NEW d, NEW x, KnowsBalances(d), UNCHANGED balance, x.amount = d.amount
  PROVE  KnowsBalances(x)'
BY DEF KnowsBalances

LEMMA TokensKept ==
  ASSUME NEW d, NEW x, KnowsTokens(d), UNCHANGED <<owner, order>>, x.token = d.token
  PROVE  KnowsTokens(x)'
BY DEF KnowsTokens, KnowsToken, InEscrow, AskFor, Open

LEMMA OrdersKept ==
  ASSUME NEW d, NEW x, KnowsOrders(d), UNCHANGED order, x.order = d.order
  PROVE  KnowsOrders(x)'
BY DEF KnowsOrders

\* A step that changes nothing that the tables show
LEMMA ReflectsKept ==
  ASSUME NEW d, Reflects(d), UNCHANGED <<description, client, balance, owner, order>>
  PROVE  Reflects(d)'
BY ContractsKept, ClientsKept, BalancesKept, TokensKept, OrdersKept DEF Reflects

\* One user's balance changes, in the tables as on L2
LEMMA BalancesCredited ==
  ASSUME NEW d, NEW x, KnowsBalances(d), NEW u \in Key, NEW c \in Contract, NEW v \in Int,
         Credit(d.amount, x.amount, u, c, v),
         \A w \in Key, e \in Contract : balance'[w][e] = balance[w][e] + At(w, e, u, c, v)
  PROVE  KnowsBalances(x)'
BY DEF KnowsBalances, Credit

\* A token that no transaction concerns
LEMMA TokenKept ==
  ASSUME NEW d, NEW x, NEW e \in Contract, NEW s \in Felt, KnowsToken(d, e, s),
         x.token[e][s] = d.token[e][s], owner'[e][s] = owner[e][s],
         \A o \in OrderId : /\ AskFor(o, e, s)' <=> AskFor(o, e, s)
                            /\ AskFor(o, e, s) => order'[o].user = order[o].user
  PROVE  KnowsToken(x, e, s)'
<1>1. InEscrow(e, s)' <=> InEscrow(e, s)
  BY DEF InEscrow
<1>2. ASSUME owner'[e][s] # Nobody PROVE x.token[e][s].owner = owner'[e][s]
  BY <1>2 DEF KnowsToken
<1>3. ASSUME owner'[e][s] = Nobody, ~InEscrow(e, s)'
      PROVE  x.token[e][s].owner \in {Nobody, NoRow}
  BY <1>1, <1>3 DEF KnowsToken
<1>4. ASSUME NEW o \in OrderId
      PROVE  /\ (x.token[e][s].ask = o) <=> AskFor(o, e, s)'
             /\ AskFor(o, e, s)' => x.token[e][s].owner = order'[o].user
  BY DEF KnowsToken
<1> QED
  BY <1>2, <1>3, <1>4 DEF KnowsToken

\* A token that no ask offers goes to w, or leaves
LEMMA TokensHanded ==
  ASSUME L2TypeOK, NEW d, NEW x, KnowsTokens(d), NEW c \in Contract, NEW t \in Felt,
         NEW u \in Key \cup {NoRow}, NEW w \in Key, w # Nobody => u = w,
         w = Nobody => u \in {Nobody, NoRow},
         UNCHANGED order, GiveToken(c, t, w), ~InEscrow(c, t),
         Shift(d.token, x.token, c, t, u, d.token[c][t].ask)
  PROVE  KnowsTokens(x)'
<1>1. \A o \in OrderId, e \in Contract, s \in Felt : AskFor(o, e, s)' <=> AskFor(o, e, s)
  BY DEF AskFor, Open
<1>2. ASSUME NEW e \in Contract, NEW s \in Felt PROVE KnowsToken(x, e, s)'
  <2>1. CASE e = c /\ s = t
    <3>1. owner'[c][t] = w
      BY DEF GiveToken, L2TypeOK
    <3>2. \A o \in OrderId : ~AskFor(o, c, t) /\ ~AskFor(o, c, t)'
      BY <1>1 DEF InEscrow
    <3>3. x.token[c][t].owner = u /\ x.token[c][t].ask = d.token[c][t].ask
      BY DEF Shift
    <3>4. \A o \in OrderId : d.token[c][t].ask # o
      BY <3>2 DEF KnowsTokens, KnowsToken
    <3>5. KnowsToken(x, c, t)'
      BY <3>1, <3>2, <3>3, <3>4 DEF KnowsToken
    <3> QED
      BY <2>1, <3>5
  <2>2. CASE e # c \/ s # t
    <3>1. owner'[e][s] = owner[e][s]
      BY <2>2 DEF GiveToken, L2TypeOK
    <3>2. x.token[e][s] = d.token[e][s]
      BY <2>2 DEF Shift
    <3>3. KnowsToken(d, e, s)
      BY DEF KnowsTokens
    <3> QED
      BY <1>1, <3>1, <3>2, <3>3, TokenKept
  <2> QED
    BY <2>1, <2>2
<1> QED
  BY <1>2 DEF KnowsTokens

\* The exchange writes order o, and the tables get its row
LEMMA OrdersPut ==
  ASSUME NEW d, NEW x, KnowsOrders(d), NEW o \in OrderId,
         order'[o].user # Nobody, \A p \in OrderId : p # o => order'[p] = order[p],
         NEW row, row = RowOf(order'[o]), Put(d.order, x.order, o, row)
  PROVE  KnowsOrders(x)'
<1> SUFFICES ASSUME NEW p \in OrderId
             PROVE  x.order[p] = IF order'[p].user = Nobody THEN NoRow ELSE RowOf(order'[p])
  BY DEF KnowsOrders
<1>1. CASE p = o
  BY <1>1 DEF Put
<1>2. CASE p # o
  BY <1>2 DEF Put, KnowsOrders
<1> QED
  BY <1>1, <1>2

-----------------------------------------------------------------------------
(***************************************************************************)
(* Transaction by transaction: the handler's assertions hold on tables     *)
(* that show what L2 was, and it makes them show what L2 is.               *)
(***************************************************************************)
Shown(d, tx) ==
  /\ Asserted(d, tx) /\ ~Stuck(d, tx)
  /\ \E x \in Books : x = Applied(d, tx) /\ Reflects(x)'

\* A contract that is registered on L2 is known.
LEMMA Recognized ==
  ASSUME NEW d \in Books, KnowsContracts(d), NEW c \in Contract, description[c].kind \in Kind
  PROVE  /\ Known(d, c)
         /\ IsToken(d, c) <=> ~Fungible(c)
<1>1. description[c].kind # 0
  BY DEF Kind, KIND_ERC20, KIND_ERC721
<1>2. d.fungible[c] = (description[c].kind = KIND_ERC20)
  BY <1>1 DEF KnowsContracts
<1>3. d.fungible[c] \in BOOLEAN
  BY <1>2
<1> QED
  BY <1>2, <1>3, MirrorAssumption DEF Known, IsToken, Fungible

LEMMA RegisterContractShown ==
  ASSUME L2TypeOK, RegistrationsAgree, Announced,
         NEW m \in DOMAIN toL2, RegisterContract(m), NEW d \in Books, Reflects(d),
         NEW tx, tx = [f |-> "register_contract", contract |-> m.contract,
                       kind |-> m.kind, mint |-> m.mint]
  PROVE  tx \in ContractTx /\ Shown(d, tx)
<1>1. m \in RegisterMessage /\ m.kind \in Kind
  BY DEF L2TypeOK, Message, DepositMessage, RegisterContract
<1>2. m.contract \in Contract /\ m.mint \in Key
  BY <1>1 DEF RegisterMessage
<1>3. PICK c, k, u : c = m.contract /\ k = m.kind /\ u = m.mint
  OBVIOUS
<1>4. tx \in ContractTx
  <2> HIDE DEF Key, Kind
  <2> QED
    BY <1>1, <1>2 DEF ContractTx
<1>5. tx.f = "register_contract" /\ tx.contract = c /\ tx.kind = k /\ tx.mint = u
  BY <1>3
<1>6. /\ description[c].kind = 0
      /\ description' = [description EXCEPT ![c] = [kind |-> k, mint |-> u]]
      /\ UNCHANGED <<client, balance, owner, order>>
  BY <1>3 DEF RegisterContract, Unregistered
<1>7. /\ description'[c].kind = k /\ description'[c].mint = u
      /\ \A e \in Contract : e # c => description'[e] = description[e]
  BY <1>2, <1>3, <1>6 DEF L2TypeOK
<1>8. k \in {KIND_ERC20, KIND_ERC721} /\ KIND_ERC20 # KIND_ERC721 /\ KIND_ERC20 # 0 /\ KIND_ERC721 # 0
  BY <1>1, <1>3 DEF Kind, KIND_ERC20, KIND_ERC721
<1>9. Known(d, c) => /\ d.fungible[c] = FALSE /\ k = KIND_ERC721
                     /\ d.minter[c] = u
  <2> SUFFICES ASSUME Known(d, c)
               PROVE  d.fungible[c] = FALSE /\ k = KIND_ERC721 /\ d.minter[c] = u
    OBVIOUS
  <2>1. /\ d.fungible[c] = FALSE
        /\ \E r \in Registered : r.contract = c /\ d.minter[c] = r.mint
    BY <1>2, <1>3, <1>6 DEF Reflects, KnowsContracts, Known
  <2>2. \E y \in Registration : c = y.contract /\ k = y.kind /\ u = y.mint
    BY <1>1, <1>3 DEF Announced, RegisterMessage
  <2> QED
    BY <1>1, <1>3, <2>1, <2>2 DEF RegistrationsAgree
<1>10. Asserted(d, tx)
  BY <1>5, <1>8, <1>9 DEF Asserted
<1>11. ~Stuck(d, tx)
  BY <1>5 DEF Stuck
<1>12. PICK x : x = Applied(d, tx)
  OBVIOUS
<1>13. /\ x \in Books
       /\ x.address = d.address /\ x.amount = d.amount /\ x.token = d.token
       /\ x.order = d.order /\ x.flows = d.flows
       /\ Known(d, c) => x = d
       /\ ~Known(d, c) =>
            /\ x.fungible = [d.fungible EXCEPT ![c] = (k # KIND_ERC721)]
            /\ x.minter = [d.minter EXCEPT ![c] = IF k # KIND_ERC721 THEN NoRow ELSE u]
  <2> HIDE DEF ContractTx
  <2> QED
    BY <1>4, <1>5, <1>12, ContractApplied
<1>14. KnowsContracts(x)'
  <2>1. /\ d.fungible \in [Contract -> BOOLEAN \cup {NoRow}]
        /\ d.minter \in [Contract -> Key \cup {NoRow}]
    BY DEF Books
  <2>2. x.fungible[c] = (k = KIND_ERC20) /\ (k = KIND_ERC721 => x.minter[c] = u)
    <3>1. CASE Known(d, c)
      BY <1>8, <1>9, <1>13, <3>1
    <3>2. CASE ~Known(d, c)
      BY <1>2, <1>3, <1>8, <1>13, <2>1, <3>2
    <3> QED
      BY <3>1, <3>2
  <2>3. \A e \in Contract : e # c => x.fungible[e] = d.fungible[e] /\ x.minter[e] = d.minter[e]
    <3>1. CASE Known(d, c)
      BY <1>13, <3>1
    <3>2. CASE ~Known(d, c)
      BY <1>13, <2>1, <3>2
    <3> QED
      BY <3>1, <3>2
  <2>4. KnowsContracts(d)
    BY DEF Reflects
  <2> QED
    BY <1>7, <1>8, <2>2, <2>3, <2>4 DEF KnowsContracts
<1>15. Reflects(x)'
  BY <1>6, <1>13, <1>14, ClientsKept, BalancesKept, TokensKept, OrdersKept DEF Reflects
<1> QED
  BY <1>4, <1>10, <1>11, <1>12, <1>13, <1>15 DEF Shown

LEMMA RegisterClientShown ==
  ASSUME L2TypeOK, NEW sig, NEW user \in User, NEW address \in Address,
         RegisterClient(sig, user, address), NEW d \in Books, Reflects(d),
         NEW tx, tx = [f |-> "register_client", user |-> user, address |-> address]
  PROVE  tx \in ClientTx /\ Shown(d, tx)
<1>1. tx \in ClientTx /\ tx.f = "register_client" /\ tx.user = user /\ tx.address = address
  BY DEF ClientTx
<1>2. /\ client[address] = Nobody /\ client' = [client EXCEPT ![address] = user]
      /\ UNCHANGED <<description, balance, owner, order>>
  BY DEF RegisterClient
<1>3. /\ client'[address] = user
      /\ \A a \in Address : a # address => client'[a] = client[a]
  BY <1>2 DEF L2TypeOK
<1>4. user # Nobody /\ user \in Key /\ Nobody \notin User
  BY KeyTyping, L2Assumption
<1>5. \A u \in Key : d.address[u] # address
  <2>1. address # NoRow
    BY MirrorAssumption
  <2> QED
    BY <1>2, <1>4, <2>1 DEF Reflects, KnowsClients
<1>6. Asserted(d, tx) /\ ~Stuck(d, tx)
  BY <1>1, <1>5 DEF Asserted, Stuck
<1>7. PICK x : x = Applied(d, tx)
  OBVIOUS
<1>8. /\ x \in Books
      /\ x.fungible = d.fungible /\ x.minter = d.minter
      /\ x.amount = d.amount /\ x.token = d.token
      /\ x.order = d.order /\ x.flows = d.flows
      /\ x.address = [d.address EXCEPT ![user] = address]
  <2> HIDE DEF ClientTx
  <2> QED
    BY <1>1, <1>7, ClientApplied
<1>9. KnowsClients(x)'
  <2>1. d.address \in [Key -> Address \cup {NoRow}]
    BY DEF Books
  <2>2. /\ x.address[user] = address
        /\ \A u \in Key : u # user => x.address[u] = d.address[u]
    BY <1>4, <1>8, <2>1
  <2>3. ASSUME NEW u \in Key, x.address[u] # NoRow
        PROVE  u \in User /\ client'[x.address[u]] = u
    <3>1. CASE u = user
      BY <1>3, <2>2, <3>1
    <3>2. CASE u # user
      <4>1. d.address[u] \in Address /\ d.address[u] # address
        BY <1>5, <2>1, <2>2, <2>3, <3>2
      <4>2. u \in User /\ client[d.address[u]] = u
        BY <2>2, <2>3, <3>2 DEF Reflects, KnowsClients
      <4> QED
        BY <1>3, <2>2, <3>2, <4>1, <4>2
    <3> QED
      BY <3>1, <3>2
  <2> QED
    BY <2>3 DEF KnowsClients
<1>10. Reflects(x)'
  BY <1>2, <1>8, <1>9, ContractsKept, BalancesKept, TokensKept, OrdersKept DEF Reflects
<1> QED
  BY <1>1, <1>6, <1>7, <1>8, <1>10 DEF Shown

LEMMA MintShown ==
  ASSUME CustodyInv, NEW sig \in User, NEW user \in Key, NEW t \in Felt,
         NEW c \in Contract, Mint(sig, user, t, c), ~InEscrow(c, t),
         NEW d \in Books, Reflects(d),
         NEW tx, tx = [f |-> "mint", user |-> user, contract |-> c, value |-> t, org |-> 0]
  PROVE  tx \in FlowTx /\ Shown(d, tx)
<1>1. tx \in FlowTx
  <2> HIDE DEF Key, Felt
  <2> QED
    BY DEF FlowTx
<1>2. tx.f = "mint" /\ tx.user = user /\ tx.contract = c /\ tx.value = t
  OBVIOUS
<1>3. L2TypeOK
  BY DEF CustodyInv, BoundedInv
<1>4. /\ description[c].kind = KIND_ERC721 /\ GiveToken(c, t, user)
      /\ UNCHANGED <<description, client, balance, order>>
  BY DEF Mint
<1>5. Known(d, c)
  BY <1>4, Recognized DEF Reflects, Kind
<1>6. Asserted(d, tx) /\ ~Stuck(d, tx)
  BY <1>2, <1>5 DEF Asserted, Stuck
<1>7. PICK x : x = Applied(d, tx)
  OBVIOUS
<1>8. Handed(d, x, c, t, user)
  BY <1>1, <1>2, <1>7, MintApplied
<1>9. KnowsTokens(x)'
  BY <1>3, <1>4, <1>8, TokensHanded DEF Handed, Reflects
<1>10. Reflects(x)'
  BY <1>4, <1>8, <1>9, ContractsKept, ClientsKept, BalancesKept, OrdersKept
  DEF Reflects, Handed
<1> QED
  BY <1>1, <1>6, <1>7, <1>8, <1>10 DEF Shown, Handed

LEMMA DepositShown ==
  ASSUME CustodyInv, NEW m \in DOMAIN toL2, m.type = "deposit", Deposit(m),
         ~InEscrow(m.contract, m.value), NEW d \in Books, Reflects(d),
         NEW tx, tx = [f |-> "deposit", user |-> m.user, contract |-> m.contract,
                       value |-> m.value, org |-> 0]
  PROVE  tx \in FlowTx /\ Shown(d, tx)
<1>1. PICK c, t, u : c = m.contract /\ t = m.value /\ u = m.user
  OBVIOUS
<1>2. L2TypeOK
  BY DEF CustodyInv, BoundedInv
<1>3. m \in DepositMessage
  BY <1>2 DEF L2TypeOK, Message, RegisterMessage, DepositMessage
<1>4. u \in Key /\ c \in Contract /\ t \in Felt /\ t \in Int
  <2>1. u \in Key /\ c \in Contract /\ t \in Felt
    BY <1>1, <1>3 DEF DepositMessage
  <2> QED
    BY <2>1 DEF Felt
<1>5. tx \in FlowTx
  <2> HIDE DEF Key, Felt
  <2> QED
    BY <1>1, <1>4 DEF FlowTx
<1>6. tx.f = "deposit" /\ tx.user = u /\ tx.contract = c /\ tx.value = t
  BY <1>1
<1>7. /\ description[c].kind \in Kind
      /\ UNCHANGED <<description, client, order>>
  BY <1>1 DEF Deposit
<1>8. Known(d, c) /\ (IsToken(d, c) <=> ~Fungible(c))
  BY <1>4, <1>7, Recognized DEF Reflects
<1>9. Asserted(d, tx) /\ ~Stuck(d, tx)
  BY <1>6, <1>8 DEF Asserted, Stuck
<1>10. PICK x : x = Applied(d, tx)
  OBVIOUS
<1>11. IF IsToken(d, c) THEN Handed(d, x, c, t, u) ELSE Credited(d, x, u, c, t)
  BY <1>5, <1>6, <1>10, DepositApplied
<1>12. CASE Fungible(c)
  <2>1. Credited(d, x, u, c, t)
    BY <1>8, <1>11, <1>12
  <2>2. /\ balance' = Received(balance, u, c, t)
        /\ UNCHANGED owner
    BY <1>1, <1>12 DEF Deposit
  <2>3. Gain(balance, u, c, t) = t
    <3>1. m \in DepositsInFlight(c)
      BY <1>1 DEF DepositsInFlight, Deposit
    <3>2. t \in Nat
      BY <1>4, FieldAssumption DEF Felt
    <3>3. balance[u][c] \in Nat /\ balance[u][c] + t < RangeCheckBound
      BY <1>1, <1>4, <3>1, <3>2, WithinSupply DEF CustodyInv
    <3> QED
      BY <3>2, <3>3, FieldAssumption DEF Gain, FeltAdd
  <2>4. \A w \in Key, e \in Contract : balance'[w][e] = balance[w][e] + At(w, e, u, c, t)
    <3>1. balance \in [Key -> [Contract -> Felt]]
      BY <1>2 DEF L2TypeOK
    <3>2. \A w \in Key, e \in Contract :
            Received(balance, u, c, t)[w][e]
              = balance[w][e] + At(w, e, u, c, Gain(balance, u, c, t))
      BY <1>4, <3>1, ReceivedMoves
    <3> QED
      BY <2>2, <2>3, <3>2
  <2>5. KnowsBalances(x)'
    BY <1>4, <2>1, <2>4, BalancesCredited DEF Credited, Reflects
  <2>6. Reflects(x)'
    BY <1>7, <2>1, <2>2, <2>5, ContractsKept, ClientsKept, TokensKept, OrdersKept
    DEF Reflects, Credited
  <2> QED
    BY <1>5, <1>9, <1>10, <2>1, <2>6 DEF Shown, Credited
<1>13. CASE ~Fungible(c)
  <2>1. Handed(d, x, c, t, u)
    BY <1>8, <1>11, <1>13
  <2>2. GiveToken(c, t, u) /\ UNCHANGED balance /\ ~InEscrow(c, t)
    BY <1>1, <1>13 DEF Deposit
  <2>3. KnowsTokens(x)'
    BY <1>2, <1>4, <1>7, <2>1, <2>2, TokensHanded DEF Handed, Reflects
  <2>4. Reflects(x)'
    BY <1>7, <2>1, <2>2, <2>3, ContractsKept, ClientsKept, BalancesKept, OrdersKept
    DEF Reflects, Handed
  <2> QED
    BY <1>5, <1>9, <1>10, <2>1, <2>4 DEF Shown, Handed
<1> QED
  BY <1>12, <1>13

LEMMA WithdrawShown ==
  ASSUME CustodyInv, NEW sig \in User, NEW user \in User, NEW v \in Felt,
         NEW c \in Contract, NEW address, Withdraw(sig, user, v, c, address),
         NEW d \in Books, Reflects(d),
         NEW org \in {0, 1}, NEW tx, tx = [f |-> "withdraw", user |-> user, contract |-> c,
                                           value |-> v, org |-> org]
  PROVE  tx \in FlowTx /\ Shown(d, tx)
<1>1. L2TypeOK /\ EscrowBacked /\ user \in Key /\ user # Nobody /\ Nobody \in Key
  BY KeyTyping, L2Assumption DEF CustodyInv, BoundedInv
<1>2. tx \in FlowTx
  <2> HIDE DEF Key, Felt
  <2> QED
    BY <1>1 DEF FlowTx
<1>3. tx.f = "withdraw" /\ tx.user = user /\ tx.contract = c /\ tx.value = v /\ v \in Int
  BY DEF Felt
<1>4. /\ description[c].kind \in Kind /\ AssertNN(v)
      /\ UNCHANGED <<description, client, order>>
  BY DEF Withdraw
<1>5. Known(d, c) /\ (IsToken(d, c) <=> ~Fungible(c))
  BY <1>4, Recognized DEF Reflects
<1>6. ~Fungible(c) => owner[c][v] = user /\ d.token[c][v].owner = user
  <2>1. ~Fungible(c) => owner[c][v] = user
    BY DEF Withdraw
  <2>2. KnowsToken(d, c, v)
    BY DEF Reflects, KnowsTokens
  <2> QED
    BY <1>1, <2>1, <2>2 DEF KnowsToken
<1>7. Asserted(d, tx) /\ ~Stuck(d, tx)
  BY <1>3, <1>5, <1>6 DEF Asserted, Stuck
<1>8. PICK x : x = Applied(d, tx)
  OBVIOUS
<1>9. IF IsToken(d, c) THEN Handed(d, x, c, v, NoRow) ELSE Credited(d, x, user, c, -v)
  BY <1>2, <1>3, <1>8, WithdrawApplied
<1>10. CASE Fungible(c)
  <2>1. Credited(d, x, user, c, -v)
    BY <1>5, <1>9, <1>10
  <2>2. /\ CanPay(balance, user, c, v) /\ balance' = Paid(balance, user, c, v)
        /\ UNCHANGED owner
    BY <1>10 DEF Withdraw, Fungible
  <2>3. \A w \in Key, e \in Contract : balance'[w][e] = balance[w][e] + At(w, e, user, c, -v)
    <3>1. balance \in [Key -> [Contract -> Felt]]
      BY <1>1 DEF L2TypeOK
    <3>2. \A w \in Key, e \in Contract :
            /\ Paid(balance, user, c, v)[w][e] = balance[w][e] - At(w, e, user, c, v)
            /\ balance[w][e] \in Nat
      BY <1>1, <1>4, <2>2, <3>1, PaidMoves
    <3> QED
      BY <1>3, <2>2, <3>2 DEF At
  <2>4. -v \in Int
    BY <1>3
  <2>5. KnowsBalances(x)'
    BY <1>1, <2>1, <2>3, <2>4, BalancesCredited DEF Credited, Reflects
  <2>6. Reflects(x)'
    BY <1>4, <2>1, <2>2, <2>5, ContractsKept, ClientsKept, TokensKept, OrdersKept
    DEF Reflects, Credited
  <2> QED
    BY <1>2, <1>7, <1>8, <2>1, <2>6 DEF Shown, Credited
<1>11. CASE ~Fungible(c)
  <2>1. Handed(d, x, c, v, NoRow)
    BY <1>5, <1>9, <1>11
  <2>2. GiveToken(c, v, Nobody) /\ UNCHANGED balance
    BY <1>11 DEF Withdraw
  <2>3. ~InEscrow(c, v)
    BY <1>1, <1>6, <1>11, OwnedNotEscrowed
  <2>4. KnowsTokens(x)'
    <3>1. NoRow \in Key \cup {NoRow} /\ NoRow \in {Nobody, NoRow}
      OBVIOUS
    <3>2. Shift(d.token, x.token, c, v, NoRow, d.token[c][v].ask) /\ KnowsTokens(d)
      BY <2>1 DEF Handed, Reflects
    <3> QED
      BY <1>1, <1>4, <2>2, <2>3, <3>1, <3>2, TokensHanded
  <2>5. Reflects(x)'
    BY <1>4, <2>1, <2>2, <2>4, ContractsKept, ClientsKept, BalancesKept, OrdersKept
    DEF Reflects, Handed
  <2> QED
    BY <1>2, <1>7, <1>8, <2>1, <2>5 DEF Shown, Handed
<1> QED
  BY <1>10, <1>11

LEMMA TransferShown ==
  ASSUME CustodyInv, NEW sig \in User, NEW from \in User, NEW to \in Key, NEW v \in Felt,
         NEW c \in Contract, Transfer(sig, from, to, v, c),
         NEW d \in Books, Reflects(d),
         NEW tx, tx = [f |-> "transfer", from |-> from, to |-> to, contract |-> c,
                       value |-> v, org |-> 0]
  PROVE  tx \in TransferTx /\ Shown(d, tx)
<1>1. /\ L2TypeOK /\ EscrowBacked /\ BoundedInv
      /\ from \in Key /\ from # Nobody /\ Nobody \in Key
  BY KeyTyping, L2Assumption DEF CustodyInv, BoundedInv
<1>2. tx \in TransferTx
  <2> HIDE DEF Key, Felt
  <2> QED
    BY <1>1 DEF TransferTx
<1>3. /\ tx.f = "transfer" /\ tx.from = from /\ tx.to = to /\ tx.contract = c /\ tx.value = v
      /\ v \in Int
  BY DEF Felt
<1>4. /\ description[c].kind \in Kind /\ AssertNN(v)
      /\ UNCHANGED <<description, client, order>>
  BY DEF Transfer
<1>5. Known(d, c) /\ (IsToken(d, c) <=> ~Fungible(c))
  BY <1>4, Recognized DEF Reflects
<1>6. ~Fungible(c) => owner[c][v] = from /\ d.token[c][v].owner = from
  <2>1. ~Fungible(c) => owner[c][v] = from
    BY DEF Transfer
  <2>2. KnowsToken(d, c, v)
    BY DEF Reflects, KnowsTokens
  <2> QED
    BY <1>1, <2>1, <2>2 DEF KnowsToken
<1>7. Asserted(d, tx) /\ ~Stuck(d, tx)
  BY <1>3, <1>5, <1>6 DEF Asserted, Stuck
<1>8. PICK x : x = Applied(d, tx)
  OBVIOUS
<1>9. IF IsToken(d, c)
      THEN Handed(d, x, c, v, to)
      ELSE /\ x \in Books
           /\ x.fungible = d.fungible /\ x.minter = d.minter /\ x.address = d.address
           /\ x.token = d.token /\ x.order = d.order
           /\ Payment(d.amount, x.amount, from, to, c, v)
  BY <1>2, <1>3, <1>8, TransferApplied
<1>10. CASE Fungible(c)
  <2>1. /\ x \in Books
        /\ x.fungible = d.fungible /\ x.minter = d.minter /\ x.address = d.address
        /\ x.token = d.token /\ x.order = d.order
        /\ Payment(d.amount, x.amount, from, to, c, v)
    BY <1>5, <1>9, <1>10
  <2>2. /\ CanPay(balance, from, c, v)
        /\ balance' = Received(Paid(balance, from, c, v), to, c, v)
        /\ UNCHANGED owner
    BY <1>10 DEF Transfer
  <2>3. ASSUME NEW w \in Key, NEW e \in Contract
        PROVE  balance'[w][e] = (balance[w][e] + At(w, e, from, c, -v)) + At(w, e, to, c, v)
    <3>1. Gain(Paid(balance, from, c, v), to, c, v) = v
      BY <1>1, <1>4, <2>2, PaymentGain
    <3>2. /\ balance'[w][e] = balance[w][e] - At(w, e, from, c, v) + At(w, e, to, c, v)
          /\ balance[w][e] \in Nat
      BY <1>1, <1>4, <2>2, <3>1, BalanceOfPayment
    <3> QED
      BY <1>3, <3>2 DEF At
  <2>4. KnowsBalances(x)'
    <3>1. \A w \in Key, e \in Contract : d.amount[w][e] = balance[w][e]
      BY DEF Reflects, KnowsBalances
    <3> QED
      BY <2>1, <2>3, <3>1 DEF KnowsBalances, Payment
  <2>5. Reflects(x)'
    BY <1>4, <2>1, <2>2, <2>4, ContractsKept, ClientsKept, TokensKept, OrdersKept
    DEF Reflects
  <2> QED
    BY <1>2, <1>7, <1>8, <2>1, <2>5 DEF Shown
<1>11. CASE ~Fungible(c)
  <2>1. Handed(d, x, c, v, to)
    BY <1>5, <1>9, <1>11
  <2>2. GiveToken(c, v, to) /\ UNCHANGED balance
    BY <1>11 DEF Transfer
  <2>3. ~InEscrow(c, v)
    BY <1>1, <1>6, <1>11, OwnedNotEscrowed
  <2>4. KnowsTokens(x)'
    BY <1>1, <1>4, <2>1, <2>2, <2>3, TokensHanded DEF Handed, Reflects
  <2>5. Reflects(x)'
    BY <1>4, <2>1, <2>2, <2>4, ContractsKept, ClientsKept, BalancesKept, OrdersKept
    DEF Reflects, Handed
  <2> QED
    BY <1>2, <1>7, <1>8, <2>1, <2>5 DEF Shown, Handed
<1> QED
  BY <1>10, <1>11

\* Where an order is written, the other tokens are offered as before.
LEMMA AsksOfOthers ==
  ASSUME NEW o \in OrderId, NEW c \in Contract, NEW t \in Felt,
         \A p \in OrderId : p # o => order'[p] = order[p],
         order'[o].base_contract = c, order'[o].base_token_id = t,
         Open(order[o]) => order[o].base_contract = c /\ order[o].base_token_id = t
  PROVE  \A p \in OrderId, e \in Contract, s \in Felt :
           p # o \/ e # c \/ s # t =>
             /\ AskFor(p, e, s)' <=> AskFor(p, e, s)
             /\ AskFor(p, e, s) => order'[p].user = order[p].user
BY DEF AskFor

LEMMA CreateOrderShown ==
  ASSUME CustodyInv, NEW sig \in User, NEW o \in OrderId, NEW user \in User,
         NEW bid, NEW bc \in Contract, NEW t \in Felt, NEW qc \in Contract, NEW q \in Felt,
         CreateOrder(sig, o, user, bid, bc, t, qc, q),
         NEW d \in Books, Reflects(d),
         NEW tx, tx = [f |-> "create_order", order_id |-> o, user |-> user, bid |-> bid,
                       contract |-> bc, value |-> t, quote_contract |-> qc,
                       quote_amount |-> q]
  PROVE  tx \in CreateTx /\ Shown(d, tx)
<1>1. /\ L2TypeOK /\ EscrowBacked /\ BoundedInv
      /\ user \in Key /\ user # Nobody /\ Nobody \in Key
  BY KeyTyping, L2Assumption DEF CustodyInv, BoundedInv
<1>2. /\ bid \in {ASK, BID} /\ AssertNN(q) /\ order[o].user = Nobody
      /\ description[bc].kind = KIND_ERC721 /\ description[qc].kind = KIND_ERC20
      /\ UNCHANGED <<description, client>> /\ ASK # BID
  BY DEF CreateOrder, ASK, BID
<1>3. tx \in CreateTx
  <2> HIDE DEF ASK, BID, Felt
  <2> QED
    BY <1>2 DEF CreateTx
<1>4. /\ tx.f = "create_order" /\ tx.order_id = o /\ tx.user = user /\ tx.bid = bid
      /\ tx.contract = bc /\ tx.value = t /\ tx.quote_contract = qc /\ tx.quote_amount = q
      /\ q \in Int
  BY DEF Felt
<1>5. PICK ord : ord = [user |-> user, bid |-> bid, base_contract |-> bc, base_token_id |-> t,
                        quote_contract |-> qc, quote_amount |-> q, state |-> STATE_NEW]
  OBVIOUS
<1>6. /\ ord.user = user /\ ord.bid = bid /\ ord.base_contract = bc /\ ord.base_token_id = t
      /\ ord.quote_contract = qc /\ ord.quote_amount = q /\ ord.state = STATE_NEW
  BY <1>5
<1>7. order'[o] = ord /\ \A p \in OrderId : p # o => order'[p] = order[p]
  BY <1>1, <1>5 DEF CreateOrder, L2TypeOK
<1>8. Known(d, bc) /\ Known(d, qc)
  BY <1>2, Recognized DEF Reflects, Kind
<1>9. KnowsToken(d, bc, t)
  BY DEF Reflects, KnowsTokens
<1>10. bid = ASK => owner[bc][t] = user /\ d.token[bc][t].owner = user
  <2>1. bid = ASK => owner[bc][t] = user
    BY <1>2 DEF CreateOrder
  <2> QED
    BY <1>1, <1>9, <2>1 DEF KnowsToken
<1>11. d.order[o] = NoRow
  BY <1>2 DEF Reflects, KnowsOrders
<1>12. Asserted(d, tx) /\ ~Stuck(d, tx)
  BY <1>4, <1>8, <1>10, <1>11 DEF Asserted, Stuck
<1>13. PICK x : x = Applied(d, tx)
  OBVIOUS
<1>14. /\ x \in Books
       /\ x.fungible = d.fungible /\ x.minter = d.minter /\ x.address = d.address
       /\ Put(d.order, x.order, o, NewRow(tx))
       /\ IF bid = ASK
          THEN /\ x.amount = d.amount
               /\ Shift(d.token, x.token, bc, t, d.token[bc][t].owner, o)
          ELSE /\ Credit(d.amount, x.amount, user, qc, -q)
               /\ Shift(d.token, x.token, bc, t, d.token[bc][t].owner, d.token[bc][t].ask)
  <2> HIDE DEF CreateTx
  <2> QED
    BY <1>3, <1>4, <1>13, CreateApplied
<1>15. KnowsOrders(x)'
  <2>1. NewRow(tx) = RowOf(order'[o])
    <3>1. STATE_NEW # STATE_FULFILLED
      BY DEF STATE_NEW, STATE_FULFILLED
    <3>2. RowOf(ord) = NewRow(tx)
      BY <1>4, <1>6, <3>1 DEF NewRow, RowOf
    <3> QED
      BY <1>7, <3>2
  <2>2. order'[o].user # Nobody
    BY <1>1, <1>6, <1>7
  <2>3. Put(d.order, x.order, o, RowOf(order'[o]))
    BY <1>14, <2>1
  <2> QED
    BY <1>7, <2>2, <2>3, OrdersPut DEF Reflects
<1>16. ~Open(order[o])
  BY <1>2 DEF Open
<1>17. \A p \in OrderId, e \in Contract, s \in Felt :
         p # o \/ e # bc \/ s # t =>
           /\ AskFor(p, e, s)' <=> AskFor(p, e, s)
           /\ AskFor(p, e, s) => order'[p].user = order[p].user
  BY <1>6, <1>7, <1>16, AsksOfOthers
<1>18. CASE bid = ASK
  <2>1. GiveToken(bc, t, Nobody) /\ UNCHANGED balance
    BY <1>2, <1>18 DEF CreateOrder
  <2>2. \A p \in OrderId : ~AskFor(p, bc, t)
    BY <1>1, <1>10, <1>18, OwnedNotEscrowed DEF InEscrow
  <2>3. AskFor(o, bc, t)' /\ \A p \in OrderId : p # o => ~AskFor(p, bc, t)'
    BY <1>1, <1>6, <1>7, <1>17, <1>18, <2>2 DEF AskFor, Open
  <2>4. owner'[bc][t] = Nobody
    BY <1>1, <2>1 DEF GiveToken, L2TypeOK
  <2>5. InEscrow(bc, t)'
    BY <2>3 DEF InEscrow
  <2>6. x.token[bc][t].owner = user /\ x.token[bc][t].ask = o
    BY <1>10, <1>14, <1>18 DEF Shift
  <2>7. KnowsToken(x, bc, t)'
    BY <1>6, <1>7, <2>3, <2>4, <2>5, <2>6 DEF KnowsToken
  <2>8. ASSUME NEW e \in Contract, NEW s \in Felt, e # bc \/ s # t
        PROVE  KnowsToken(x, e, s)'
    <3>1. owner'[e][s] = owner[e][s]
      BY <1>1, <2>1, <2>8 DEF GiveToken, L2TypeOK
    <3>2. x.token[e][s] = d.token[e][s]
      BY <1>14, <1>18, <2>8 DEF Shift
    <3>3. KnowsToken(d, e, s)
      BY DEF Reflects, KnowsTokens
    <3> QED
      BY <1>17, <2>8, <3>1, <3>2, <3>3, TokenKept
  <2>9. KnowsTokens(x)'
    BY <2>7, <2>8 DEF KnowsTokens
  <2>10. Reflects(x)'
    BY <1>2, <1>14, <1>15, <1>18, <2>1, <2>9, ContractsKept, ClientsKept, BalancesKept
    DEF Reflects
  <2> QED
    BY <1>3, <1>12, <1>13, <1>14, <2>10 DEF Shown
<1>19. CASE bid = BID
  <2>1. /\ CanPay(balance, user, qc, q) /\ balance' = Paid(balance, user, qc, q)
        /\ UNCHANGED owner
    BY <1>2, <1>19 DEF CreateOrder
  <2>2. \A w \in Key, e \in Contract : balance'[w][e] = balance[w][e] + At(w, e, user, qc, -q)
    <3>1. balance \in [Key -> [Contract -> Felt]]
      BY <1>1 DEF L2TypeOK
    <3>2. \A w \in Key, e \in Contract :
            /\ Paid(balance, user, qc, q)[w][e] = balance[w][e] - At(w, e, user, qc, q)
            /\ balance[w][e] \in Nat
      BY <1>1, <1>2, <2>1, <3>1, PaidMoves
    <3> QED
      BY <1>4, <2>1, <3>2 DEF At
  <2>3. KnowsBalances(x)'
    <3>1. -q \in Int /\ Credit(d.amount, x.amount, user, qc, -q)
      BY <1>2, <1>4, <1>14, <1>19
    <3> QED
      BY <1>1, <2>2, <3>1, BalancesCredited DEF Reflects
  <2>4. ~AskFor(o, bc, t) /\ ~AskFor(o, bc, t)'
    BY <1>2, <1>6, <1>7, <1>16, <1>19 DEF AskFor
  <2>5. ASSUME NEW e \in Contract, NEW s \in Felt PROVE KnowsToken(x, e, s)'
    <3>1. /\ x.token[e][s].owner = d.token[e][s].owner
          /\ x.token[e][s].ask = d.token[e][s].ask
      BY <1>2, <1>14, <1>19 DEF Shift
    <3>2. \A p \in OrderId : AskFor(p, e, s)' <=> AskFor(p, e, s)
      BY <1>17, <2>4
    <3>3. \A p \in OrderId : AskFor(p, e, s) => order'[p].user = order[p].user
      BY <1>17, <2>4
    <3>4. KnowsToken(d, e, s)
      BY DEF Reflects, KnowsTokens
    <3>5. InEscrow(e, s)' <=> InEscrow(e, s)
      BY <3>2 DEF InEscrow
    <3> QED
      BY <2>1, <3>1, <3>2, <3>3, <3>4, <3>5 DEF KnowsToken
  <2>6. Reflects(x)'
    BY <1>2, <1>14, <1>15, <2>3, <2>5, ContractsKept, ClientsKept DEF Reflects, KnowsTokens
  <2> QED
    BY <1>3, <1>12, <1>13, <1>14, <2>6 DEF Shown
<1> QED
  BY <1>2, <1>18, <1>19

\* The row of an order that L2 knows
LEMMA RowShown ==
  ASSUME L2TypeOK, NEW d \in Books, Reflects(d), NEW o \in OrderId, Open(order[o])
  PROVE  /\ d.order[o] = RowOf(order[o]) /\ d.order[o] # NoRow
         /\ d.order[o].user = order[o].user
         /\ (d.order[o].bid <=> order[o].bid = BID)
         /\ d.order[o].contract = order[o].base_contract
         /\ d.order[o].token = order[o].base_token_id
         /\ d.order[o].quote_contract = order[o].quote_contract
         /\ d.order[o].quote_amount = order[o].quote_amount
         /\ d.order[o].fulfilled = NoRow
<1>1. d.order[o] = RowOf(order[o])
  BY DEF Reflects, KnowsOrders, Open
<1>2. RowOf(order[o]) \in OrderRow
  <2>1. /\ order[o].user \in Key /\ order[o].base_contract \in Contract
        /\ order[o].base_token_id \in Felt /\ order[o].quote_contract \in Contract
        /\ order[o].quote_amount \in Felt
    <3> HIDE DEF Key, Felt
    <3> QED
      BY DEF L2TypeOK, LimitOrder
  <2> HIDE DEF Key, Felt
  <2> QED
    BY <2>1 DEF RowOf, OrderRow
<1>3. d.order[o] # NoRow
  BY <1>1, <1>2, NoRowAssumption
<1>4. PICK ord : ord = order[o]
  OBVIOUS
<1>5. d.order[o] = RowOf(ord)
  BY <1>1, <1>4
<1>6. /\ RowOf(ord).user = ord.user
      /\ (RowOf(ord).bid <=> ord.bid = BID)
      /\ RowOf(ord).contract = ord.base_contract
      /\ RowOf(ord).token = ord.base_token_id
      /\ RowOf(ord).quote_contract = ord.quote_contract
      /\ RowOf(ord).quote_amount = ord.quote_amount
  BY DEF RowOf
<1>7. RowOf(ord).fulfilled = NoRow
  BY <1>4 DEF RowOf, Open
<1> QED
  BY <1>3, <1>4, <1>5, <1>6, <1>7

\* A row of limit_order
Row(u, b, c, t, qc, q, f) ==
  [user |-> u, bid |-> b, contract |-> c, token |-> t, quote_contract |-> qc,
   quote_amount |-> q, fulfilled |-> f]

Marked(row, outcome) == [row EXCEPT !.fulfilled = outcome]

LEMMA RowUpdate ==
  ASSUME NEW u, NEW b, NEW c, NEW t, NEW qc, NEW q, NEW f, NEW g
  PROVE  Marked(Row(u, b, c, t, qc, q, f), g) = Row(u, b, c, t, qc, q, g)
BY DEF Row, Marked

\* An order is closed in its row as on L2.
LEMMA RowClosed ==
  ASSUME NEW ord \in LimitOrder
  PROVE  /\ [RowOf(ord) EXCEPT !.fulfilled = TRUE]
              = RowOf([ord EXCEPT !.state = STATE_FULFILLED])
         /\ [RowOf(ord) EXCEPT !.fulfilled = FALSE]
              = RowOf([ord EXCEPT !.state = STATE_CANCELLED])
<1>1. /\ STATE_NEW # STATE_FULFILLED /\ STATE_NEW # STATE_CANCELLED
      /\ STATE_CANCELLED # STATE_FULFILLED
  BY DEF STATE_NEW, STATE_FULFILLED, STATE_CANCELLED
<1> DEFINE full == [ord EXCEPT !.state = STATE_FULFILLED]
           can == [ord EXCEPT !.state = STATE_CANCELLED]
<1>2. /\ full.user = ord.user /\ full.bid = ord.bid
      /\ full.base_contract = ord.base_contract /\ full.base_token_id = ord.base_token_id
      /\ full.quote_contract = ord.quote_contract /\ full.quote_amount = ord.quote_amount
      /\ full.state = STATE_FULFILLED
  BY DEF LimitOrder
<1>3. /\ can.user = ord.user /\ can.bid = ord.bid
      /\ can.base_contract = ord.base_contract /\ can.base_token_id = ord.base_token_id
      /\ can.quote_contract = ord.quote_contract /\ can.quote_amount = ord.quote_amount
      /\ can.state = STATE_CANCELLED
  BY DEF LimitOrder
<1> HIDE DEF full, can
<1>4. Marked(RowOf(ord), TRUE) = RowOf(full)
  <2>1. (IF full.state = STATE_NEW THEN NoRow ELSE full.state = STATE_FULFILLED) = TRUE
    BY <1>1, <1>2
  <2>2. PICK b, f : b = (ord.bid = BID) /\ RowOf(ord) =
          Row(ord.user, b, ord.base_contract, ord.base_token_id, ord.quote_contract,
              ord.quote_amount, f)
    BY DEF RowOf, Row
  <2>3. RowOf(full) =
          Row(ord.user, b, ord.base_contract, ord.base_token_id, ord.quote_contract,
              ord.quote_amount, TRUE)
    BY <1>2, <2>1, <2>2 DEF RowOf, Row
  <2>4. \A g : Marked(RowOf(ord), g) =
          Row(ord.user, b, ord.base_contract, ord.base_token_id, ord.quote_contract,
              ord.quote_amount, g)
    BY <2>2, RowUpdate
  <2> QED
    BY <2>3, <2>4
<1>5. Marked(RowOf(ord), FALSE) = RowOf(can)
  <2>1. (IF can.state = STATE_NEW THEN NoRow ELSE can.state = STATE_FULFILLED) = FALSE
    BY <1>1, <1>3
  <2>2. PICK b, f : b = (ord.bid = BID) /\ RowOf(ord) =
          Row(ord.user, b, ord.base_contract, ord.base_token_id, ord.quote_contract,
              ord.quote_amount, f)
    BY DEF RowOf, Row
  <2>3. RowOf(can) =
          Row(ord.user, b, ord.base_contract, ord.base_token_id, ord.quote_contract,
              ord.quote_amount, FALSE)
    BY <1>3, <2>1, <2>2 DEF RowOf, Row
  <2>4. \A g : Marked(RowOf(ord), g) =
          Row(ord.user, b, ord.base_contract, ord.base_token_id, ord.quote_contract,
              ord.quote_amount, g)
    BY <2>2, RowUpdate
  <2> QED
    BY <2>3, <2>4
<1> QED
  BY <1>4, <1>5 DEF full, can, Marked

LEMMA FulfillOrderShown ==
  ASSUME CustodyInv, NEW sig \in User, NEW o \in OrderId, NEW user \in User,
         FulfillOrder(sig, o, user), NEW d \in Books, Reflects(d),
         NEW tx, tx = [f |-> "fulfill_order", order_id |-> o, user |-> user]
  PROVE  tx \in FulfillTx /\ Asserted(d, tx) /\ (Stuck(d, tx) \/ Shown(d, tx))
<1>1. /\ L2TypeOK /\ EscrowBacked /\ BoundedInv
      /\ user \in Key /\ user # Nobody /\ Nobody \in Key
  BY KeyTyping, L2Assumption DEF CustodyInv, BoundedInv
<1>2. tx \in FulfillTx /\ tx.f = "fulfill_order" /\ tx.order_id = o /\ tx.user = user
  BY DEF FulfillTx
<1>3. PICK bc, t, qc, q, w :
        /\ bc = order[o].base_contract /\ t = order[o].base_token_id
        /\ qc = order[o].quote_contract /\ q = order[o].quote_amount
        /\ w = order[o].user
  OBVIOUS
<1>4. /\ bc \in Contract /\ t \in Felt /\ qc \in Contract /\ q \in Felt /\ w \in Key
      /\ q \in Int
  <2>1. /\ bc \in Contract /\ t \in Felt /\ qc \in Contract /\ q \in Felt /\ w \in Key
    BY <1>1, <1>3 DEF L2TypeOK, LimitOrder
  <2> QED
    BY <2>1 DEF Felt
<1>5. Open(order[o]) /\ w # Nobody /\ Close(o, STATE_FULFILLED)
      /\ UNCHANGED <<description, client>>
  BY <1>3 DEF FulfillOrder, Open
<1>6. PICK ord : ord = d.order[o]
  OBVIOUS
<1>7. /\ ord # NoRow /\ ord = RowOf(order[o]) /\ ord.user = w
      /\ (ord.bid <=> order[o].bid = BID) /\ ord.contract = bc /\ ord.token = t
      /\ ord.quote_contract = qc /\ ord.quote_amount = q
  BY <1>1, <1>3, <1>5, <1>6, RowShown
<1>8. Asserted(d, tx)
  BY <1>2, <1>6, <1>7 DEF Asserted
<1>9. CASE Stuck(d, tx)
  BY <1>2, <1>8, <1>9
<1>10. CASE ~Stuck(d, tx)
  <2>1. order[o].bid = BID /\ ASK # BID
    <3>1. d.order[o].bid
      BY <1>2, <1>10 DEF Stuck
    <3>2. ord.bid
      BY <1>6, <3>1
    <3> QED
      BY <1>7, <3>2 DEF ASK, BID
  <2>2. /\ owner[bc][t] = user /\ GiveToken(bc, t, w)
        /\ balance' = Received(balance, user, qc, q)
    BY <1>3, <2>1 DEF FulfillOrder
  <2>3. PICK x : x = Applied(d, tx)
    OBVIOUS
  <2>4. /\ x \in Books
        /\ x.fungible = d.fungible /\ x.minter = d.minter /\ x.address = d.address
        /\ Put(d.order, x.order, o, [ord EXCEPT !.fulfilled = TRUE])
        /\ Credit(d.amount, x.amount, user, qc, q)
        /\ Shift(d.token, x.token, bc, t, w, NoRow)
    <3>1. tx \in FulfillTx /\ ord = d.order[tx.order_id] /\ ord # NoRow
      BY <1>2, <1>6, <1>7
    <3>2. /\ x \in Books
          /\ x.fungible = d.fungible /\ x.minter = d.minter /\ x.address = d.address
          /\ Put(d.order, x.order, tx.order_id, [ord EXCEPT !.fulfilled = TRUE])
          /\ Credit(d.amount, x.amount, tx.user, ord.quote_contract, ord.quote_amount)
          /\ Shift(d.token, x.token, ord.contract, ord.token, ord.user, NoRow)
      BY <2>3, <3>1, FulfillApplied
    <3>3. /\ tx.order_id = o /\ tx.user = user /\ ord.quote_contract = qc
          /\ ord.quote_amount = q /\ ord.contract = bc /\ ord.token = t /\ ord.user = w
      BY <1>2, <1>7
    <3> QED
      BY <3>2, <3>3
  <2>5. /\ order'[o] = [order[o] EXCEPT !.state = STATE_FULFILLED]
        /\ \A p \in OrderId : p # o => order'[p] = order[p]
    BY <1>1, <1>5 DEF Close, L2TypeOK
  <2>6. /\ order'[o].user = w /\ order'[o].bid = BID /\ order'[o].state = STATE_FULFILLED
        /\ order'[o].base_contract = bc /\ order'[o].base_token_id = t
    BY <1>1, <1>3, <2>1, <2>5 DEF L2TypeOK, LimitOrder
  <2>7. KnowsOrders(x)'
    <3>1. [ord EXCEPT !.fulfilled = TRUE] = RowOf(order'[o])
      <4>1. order[o] \in LimitOrder
        BY <1>1 DEF L2TypeOK
      <4>2. ord = RowOf(order[o]) /\ order'[o] = [order[o] EXCEPT !.state = STATE_FULFILLED]
        BY <1>7, <2>5
      <4> QED
        BY <4>1, <4>2, RowClosed
    <3> QED
      BY <1>5, <2>4, <2>5, <2>6, <3>1, OrdersPut DEF Reflects
  <2>8. KnowsBalances(x)'
    <3>1. q \in Nat /\ q < RangeCheckBound
      BY <1>1, <1>3, <1>4, FieldAssumption DEF BoundedInv, OrdersInRange, AssertNN, Felt
    <3>2. balance[user][qc] \in Nat /\ balance[user][qc] < RangeCheckBound
      <4>1. /\ balance[user][qc] \in Nat /\ Reserved(user, qc) \in Nat
            /\ balance[user][qc] + Reserved(user, qc) < RangeCheckBound
        BY <1>1, <1>4, WithinSupply
      <4> QED
        BY <4>1, FieldAssumption
    <3>3. balance \in [Key -> [Contract -> Felt]]
      BY <1>1 DEF L2TypeOK
    <3>4. Gain(balance, user, qc, q) = q
      BY <1>1, <1>4, <3>1, <3>2, <3>3, GainIsExact
    <3>5. \A u \in Key, e \in Contract :
            Received(balance, user, qc, q)[u][e]
              = balance[u][e] + At(u, e, user, qc, Gain(balance, user, qc, q))
      <4>1. user \in Key /\ qc \in Contract /\ q \in Felt
        BY <1>1, <1>4
      <4> QED
        BY <3>3, <4>1, ReceivedMoves
    <3>6. \A u \in Key, e \in Contract :
            balance'[u][e] = balance[u][e] + At(u, e, user, qc, q)
      BY <2>2, <3>4, <3>5
    <3> QED
      BY <1>1, <1>4, <2>4, <3>6, BalancesCredited DEF Reflects
  <2>9. \A p \in OrderId, e \in Contract, s \in Felt :
          p # o \/ e # bc \/ s # t =>
            /\ AskFor(p, e, s)' <=> AskFor(p, e, s)
            /\ AskFor(p, e, s) => order'[p].user = order[p].user
    <3>1. /\ \A p \in OrderId : p # o => order'[p] = order[p]
          /\ order'[o].base_contract = bc /\ order'[o].base_token_id = t
          /\ order[o].base_contract = bc /\ order[o].base_token_id = t
      BY <1>3, <2>5, <2>6
    <3>2. o \in OrderId /\ bc \in Contract /\ t \in Felt
      BY <1>1, <1>4
    <3> QED
      BY <3>1, <3>2 DEF AskFor
  <2>10. KnowsToken(x, bc, t)'
    <3>1. \A p \in OrderId : ~AskFor(p, bc, t)
      BY <1>1, <1>4, <2>2, OwnedNotEscrowed DEF InEscrow
    <3>2. ~AskFor(o, bc, t)'
      BY <2>1, <2>6 DEF AskFor
    <3>3. \A p \in OrderId : ~AskFor(p, bc, t)'
      BY <1>4, <2>9, <3>1, <3>2
    <3>4. owner'[bc][t] = w
      BY <1>1, <1>4, <2>2 DEF GiveToken, L2TypeOK
    <3>5. x.token[bc][t].owner = w /\ x.token[bc][t].ask = NoRow
      BY <2>4 DEF Shift
    <3> QED
      BY <1>5, <3>3, <3>4, <3>5, MirrorAssumption DEF KnowsToken
  <2>11. ASSUME NEW e \in Contract, NEW s \in Felt, e # bc \/ s # t
         PROVE  KnowsToken(x, e, s)'
    <3>1. owner'[e][s] = owner[e][s]
      BY <1>1, <2>2, <2>11 DEF GiveToken, L2TypeOK
    <3>2. x.token[e][s] = d.token[e][s]
      BY <2>4, <2>11 DEF Shift
    <3>3. KnowsToken(d, e, s)
      BY DEF Reflects, KnowsTokens
    <3> QED
      BY <2>9, <2>11, <3>1, <3>2, <3>3, TokenKept
  <2>12. Reflects(x)'
    BY <1>5, <2>4, <2>7, <2>8, <2>10, <2>11, ContractsKept, ClientsKept
    DEF Reflects, KnowsTokens
  <2> QED
    BY <1>2, <1>8, <1>10, <2>3, <2>4, <2>12 DEF Shown
<1> QED
  BY <1>9, <1>10

LEMMA CancelOrderShown ==
  ASSUME CustodyInv, NEW sig \in User, NEW o \in OrderId,
         CancelOrder(sig, o), NEW d \in Books, Reflects(d),
         NEW tx, tx = [f |-> "cancel_order", order_id |-> o]
  PROVE  tx \in CancelTx /\ Shown(d, tx)
<1>1. L2TypeOK /\ EscrowBacked /\ BoundedInv
  BY DEF CustodyInv, BoundedInv
<1>2. tx \in CancelTx /\ tx.f = "cancel_order" /\ tx.order_id = o
  BY DEF CancelTx
<1>3. PICK bc, t, qc, q, w :
        /\ bc = order[o].base_contract /\ t = order[o].base_token_id
        /\ qc = order[o].quote_contract /\ q = order[o].quote_amount
        /\ w = order[o].user
  OBVIOUS
<1>4. /\ bc \in Contract /\ t \in Felt /\ qc \in Contract /\ q \in Felt /\ w \in Key
      /\ q \in Int /\ order[o].bid \in {ASK, BID} /\ ASK # BID
  <2>1. /\ bc \in Contract /\ t \in Felt /\ qc \in Contract /\ q \in Felt /\ w \in Key
        /\ order[o].bid \in {ASK, BID}
    BY <1>1, <1>3 DEF L2TypeOK, LimitOrder
  <2> QED
    BY <2>1 DEF Felt, ASK, BID
<1>5. Open(order[o]) /\ w # Nobody /\ Close(o, STATE_CANCELLED)
      /\ UNCHANGED <<description, client>>
  BY <1>3 DEF CancelOrder, Open
<1>6. PICK ord : ord = d.order[o]
  OBVIOUS
<1>7. /\ ord # NoRow /\ ord = RowOf(order[o]) /\ ord.user = w
      /\ (ord.bid <=> order[o].bid = BID) /\ ord.contract = bc /\ ord.token = t
      /\ ord.quote_contract = qc /\ ord.quote_amount = q
  BY <1>1, <1>3, <1>5, <1>6, RowShown
<1>8. Asserted(d, tx) /\ ~Stuck(d, tx)
  BY <1>2, <1>6, <1>7 DEF Asserted, Stuck
<1>9. PICK x : x = Applied(d, tx)
  OBVIOUS
<1>10. /\ x \in Books
       /\ x.fungible = d.fungible /\ x.minter = d.minter /\ x.address = d.address
       /\ Put(d.order, x.order, o, [ord EXCEPT !.fulfilled = FALSE])
       /\ IF ord.bid
          THEN /\ x.token = d.token
               /\ Credit(d.amount, x.amount, w, qc, q)
          ELSE /\ x.amount = d.amount
               /\ Shift(d.token, x.token, bc, t, d.token[bc][t].owner, NoRow)
  <2>1. tx \in CancelTx /\ ord = d.order[tx.order_id] /\ ord # NoRow
    BY <1>2, <1>6, <1>7
  <2>2. /\ x \in Books
        /\ x.fungible = d.fungible /\ x.minter = d.minter /\ x.address = d.address
        /\ Put(d.order, x.order, tx.order_id, [ord EXCEPT !.fulfilled = FALSE])
        /\ IF ord.bid
           THEN /\ x.token = d.token
                /\ Credit(d.amount, x.amount, ord.user, ord.quote_contract,
                          ord.quote_amount)
           ELSE /\ x.amount = d.amount
                /\ Shift(d.token, x.token, ord.contract, ord.token,
                         d.token[ord.contract][ord.token].owner, NoRow)
    BY <1>9, <2>1, CancelApplied
  <2>3. /\ tx.order_id = o /\ ord.quote_contract = qc
        /\ ord.quote_amount = q /\ ord.contract = bc /\ ord.token = t /\ ord.user = w
    BY <1>2, <1>7
  <2> QED
    BY <2>2, <2>3
<1>11. /\ order'[o] = [order[o] EXCEPT !.state = STATE_CANCELLED]
       /\ \A p \in OrderId : p # o => order'[p] = order[p]
  BY <1>1, <1>5 DEF Close, L2TypeOK
<1>12. /\ order'[o].user = w /\ order'[o].bid = order[o].bid
       /\ order'[o].state = STATE_CANCELLED
       /\ order'[o].base_contract = bc /\ order'[o].base_token_id = t
  BY <1>1, <1>3, <1>11 DEF L2TypeOK, LimitOrder
<1>13. KnowsOrders(x)'
  <2>1. [ord EXCEPT !.fulfilled = FALSE] = RowOf(order'[o])
    <3>1. order[o] \in LimitOrder
      BY <1>1 DEF L2TypeOK
    <3>2. ord = RowOf(order[o]) /\ order'[o] = [order[o] EXCEPT !.state = STATE_CANCELLED]
      BY <1>7, <1>11
    <3> QED
      BY <3>1, <3>2, RowClosed
  <2> QED
    BY <1>5, <1>10, <1>11, <1>12, <2>1, OrdersPut DEF Reflects
<1>14. \A p \in OrderId, e \in Contract, s \in Felt :
         p # o \/ e # bc \/ s # t =>
           /\ AskFor(p, e, s)' <=> AskFor(p, e, s)
           /\ AskFor(p, e, s) => order'[p].user = order[p].user
  <2>1. /\ \A p \in OrderId : p # o => order'[p] = order[p]
        /\ order'[o].base_contract = bc /\ order'[o].base_token_id = t
        /\ order[o].base_contract = bc /\ order[o].base_token_id = t
    BY <1>3, <1>11, <1>12
  <2> QED
    BY <1>4, <2>1, AsksOfOthers
<1>15. ~AskFor(o, bc, t)'
  <2>1. STATE_NEW # STATE_CANCELLED
    BY DEF STATE_NEW, STATE_CANCELLED
  <2> QED
    BY <1>12, <2>1 DEF AskFor, Open
<1>16. CASE order[o].bid = ASK
  <2>1. GiveToken(bc, t, w) /\ UNCHANGED balance
    BY <1>3, <1>4, <1>16 DEF CancelOrder
  <2>2. AskFor(o, bc, t)
    BY <1>3, <1>5, <1>16 DEF AskFor
  <2>3. \A p \in OrderId : ~AskFor(p, bc, t)'
    BY <1>1, <1>4, <1>14, <1>15, <2>2 DEF EscrowBacked
  <2>4. x.token[bc][t].owner = w /\ x.token[bc][t].ask = NoRow
    <3>1. KnowsToken(d, bc, t)
      BY <1>4 DEF Reflects, KnowsTokens
    <3>2. d.token[bc][t].owner = w
      BY <1>3, <2>2, <3>1 DEF KnowsToken
    <3> QED
      BY <1>4, <1>7, <1>10, <1>16, <3>2 DEF Shift
  <2>5. owner'[bc][t] = w
    BY <1>1, <1>4, <2>1 DEF GiveToken, L2TypeOK
  <2>6. KnowsToken(x, bc, t)'
    BY <1>5, <2>3, <2>4, <2>5, MirrorAssumption DEF KnowsToken
  <2>7. ASSUME NEW e \in Contract, NEW s \in Felt, e # bc \/ s # t
        PROVE  KnowsToken(x, e, s)'
    <3>1. owner'[e][s] = owner[e][s]
      BY <1>1, <2>1, <2>7 DEF GiveToken, L2TypeOK
    <3>2. x.token[e][s] = d.token[e][s]
      BY <1>4, <1>7, <1>10, <1>16, <2>7 DEF Shift
    <3>3. KnowsToken(d, e, s)
      BY DEF Reflects, KnowsTokens
    <3> QED
      BY <1>14, <2>7, <3>1, <3>2, <3>3, TokenKept
  <2>8. x.amount = d.amount
    BY <1>4, <1>7, <1>10, <1>16
  <2>9. Reflects(x)'
    BY <1>5, <1>10, <1>13, <2>1, <2>6, <2>7, <2>8, ContractsKept, ClientsKept, BalancesKept
    DEF Reflects, KnowsTokens
  <2> QED
    BY <1>2, <1>8, <1>9, <1>10, <2>9 DEF Shown
<1>17. CASE order[o].bid = BID
  <2>1. balance' = Received(balance, w, qc, q) /\ UNCHANGED owner
    BY <1>3, <1>4, <1>17 DEF CancelOrder
  <2>2. x.token = d.token /\ Credit(d.amount, x.amount, w, qc, q)
    BY <1>7, <1>10, <1>17
  <2>3. KnowsBalances(x)'
    <3>1. q \in Nat /\ q < RangeCheckBound
      BY <1>1, <1>3, <1>4, FieldAssumption DEF BoundedInv, OrdersInRange, AssertNN, Felt
    <3>2. balance[w][qc] \in Nat /\ balance[w][qc] < RangeCheckBound
      <4>1. /\ balance[w][qc] \in Nat /\ Reserved(w, qc) \in Nat
            /\ balance[w][qc] + Reserved(w, qc) < RangeCheckBound
        BY <1>1, <1>4, WithinSupply
      <4> QED
        BY <4>1, FieldAssumption
    <3>3. balance \in [Key -> [Contract -> Felt]]
      BY <1>1 DEF L2TypeOK
    <3>4. Gain(balance, w, qc, q) = q
      BY <1>1, <1>4, <3>1, <3>2, <3>3, GainIsExact
    <3>5. \A u \in Key, e \in Contract :
            Received(balance, w, qc, q)[u][e]
              = balance[u][e] + At(u, e, w, qc, Gain(balance, w, qc, q))
      BY <1>1, <1>4, <3>3, ReceivedMoves
    <3>6. \A u \in Key, e \in Contract :
            balance'[u][e] = balance[u][e] + At(u, e, w, qc, q)
      BY <2>1, <3>4, <3>5
    <3> QED
      BY <1>4, <2>2, <3>6, BalancesCredited DEF Reflects
  <2>4. ~AskFor(o, bc, t)
    BY <1>4, <1>17 DEF AskFor
  <2>5. ASSUME NEW e \in Contract, NEW s \in Felt PROVE KnowsToken(x, e, s)'
    <3>1. \A p \in OrderId : /\ AskFor(p, e, s)' <=> AskFor(p, e, s)
                             /\ AskFor(p, e, s) => order'[p].user = order[p].user
      BY <1>14, <1>15, <2>4
    <3>2. KnowsToken(d, e, s)
      BY DEF Reflects, KnowsTokens
    <3>3. owner'[e][s] = owner[e][s] /\ x.token[e][s] = d.token[e][s]
      BY <2>1, <2>2
    <3> QED
      BY <3>1, <3>2, <3>3, TokenKept
  <2>6. Reflects(x)'
    BY <1>5, <1>10, <1>13, <2>3, <2>5, ContractsKept, ClientsKept DEF Reflects, KnowsTokens
  <2> QED
    BY <1>2, <1>8, <1>9, <1>10, <2>6 DEF Shown
<1> QED
  BY <1>4, <1>16, <1>17

-----------------------------------------------------------------------------
(***************************************************************************)
(* The exchange behind the mirror is the exchange of Custody.              *)
(***************************************************************************)
LEMMA ExchangeIsL2 == [Next]_vars => [BoundedNext]_l2vars
<1> SUFFICES ASSUME [Next]_vars PROVE [BoundedNext]_l2vars
  OBVIOUS
<1>1. CASE Upstream
  <2>1. SupplyBounded'
    BY <1>1 DEF Upstream
  <2>2. CASE L1Step
    BY <2>1, <2>2 DEF BoundedNext, L2Next
  <2>3. CASE \E m \in DOMAIN toL2 : StoreHandler(m)
    <3>1. L1Handler
      BY <2>3 DEF StoreHandler, L1Handler
    <3> QED
      BY <2>1, <3>1 DEF BoundedNext, L2Next
  <2>4. ASSUME NEW sig \in User, Relay(sig)
        PROVE  Minting(sig) \/ Transaction(sig)
    <3>1. CASE \E user \in Registrant, a \in Address : RelayRegisterClient(sig, user, a)
      BY <3>1 DEF RelayRegisterClient, Transaction
    <3>2. ASSUME NEW c \in Contract, NEW v \in Inputs[c], NEW user \in Recipient,
                 RelayMint(sig, user, v, c)
          PROVE  Minting(sig)
      BY <3>2 DEF RelayMint, Minting
    <3>3. ASSUME NEW c \in Contract, NEW v \in Inputs[c], NEW user \in User,
                 NEW a \in Address, RelayWithdraw(sig, user, v, c, a)
          PROVE  Transaction(sig)
      BY <3>3 DEF RelayWithdraw, Transaction
    <3>4. ASSUME NEW c \in Contract, NEW v \in Inputs[c], NEW from \in User,
                 NEW to \in Recipient, RelayTransfer(sig, from, to, v, c)
          PROVE  Transaction(sig)
      BY <3>4 DEF RelayTransfer, Transaction
    <3>5. ASSUME NEW o \in OrderId, NEW user \in User, NEW bid \in Side,
                 NEW bc \in Contract, NEW qc \in Contract, NEW t \in Inputs[bc],
                 NEW q \in Inputs[qc], RelayCreateOrder(sig, o, user, bid, bc, t, qc, q)
          PROVE  Transaction(sig)
      <4>1. bid \in {ASK, BID}
        BY MirrorAssumption
      <4>2. CreateOrder(sig, o, user, bid, bc, t, qc, q)
        BY <3>5 DEF RelayCreateOrder
      <4> QED
        BY <4>1, <4>2 DEF Transaction
    <3>6. ASSUME NEW o \in OrderId, NEW user \in User, RelayFulfillOrder(sig, o, user)
          PROVE  Transaction(sig)
      BY <3>6 DEF RelayFulfillOrder, Transaction
    <3>7. ASSUME NEW o \in OrderId, RelayCancelOrder(sig, o)
          PROVE  Transaction(sig)
      BY <3>7 DEF RelayCancelOrder, Transaction
    <3> QED
      BY <2>4, <3>1, <3>2, <3>3, <3>4, <3>5, <3>6, <3>7 DEF Relay
  <2> QED
    BY <1>1, <2>1, <2>2, <2>3, <2>4 DEF Upstream, BoundedNext, L2Next
<1>2. CASE Interpret \/ Commit \/ Crash \/ UNCHANGED vars
  BY <1>2 DEF Interpret, Commit, Crash, vars, l2vars
<1> QED
  BY <1>1, <1>2 DEF Next

\* So the escrow is sound and the supply bounded.
LEMMA CustodySound == FreshOnly /\ Spec => []CustodyInv
<1> SUFFICES ASSUME FreshOnly PROVE Spec => []CustodyInv
  OBVIOUS
<1>1. Init => L2Init
  BY DEF Init
<1>2. Spec => BoundedSpec
  BY <1>1, ExchangeIsL2, PTL DEF Spec, BoundedSpec
<1>3. [BoundedNext]_l2vars => [L2Next]_l2vars
  BY DEF BoundedNext
<1>4. BoundedSpec => L2Spec
  BY <1>3, PTL DEF BoundedSpec, L2Spec
<1> QED
  BY <1>2, <1>4, BoundedInvariant, EscrowSound, PTL DEF CustodyInv

\* What L1 does changes nothing that the tables show.
LEMMA L1StepKeeps == L1Step => UNCHANGED storage
BY DEF L1Step, L1Sends, L1Consumes

\* A transaction whose handler the interpreter runs on tables that show what L2
\* was before it
Mirrored(tx) ==
  \A d \in Books : Reflects(d) => Asserted(d, tx) /\ (Stuck(d, tx) \/ Shown(d, tx))

\* What keeps the books balanced: a token that comes is not there yet, one that
\* goes is, and nothing goes to the key 0.
Fits(d, tx) ==
  /\ tx.f = "mint" \/ (tx.f = "deposit" /\ IsToken(d, tx.contract)) =>
       tx.user # Nobody /\ d.token[tx.contract][tx.value].owner \notin Key
  /\ tx.f = "transfer" => tx.to # Nobody
  /\ tx.f = "fulfill_order" =>
       LET ord == d.order[tx.order_id]
       IN ord.user # Nobody /\ d.token[ord.contract][ord.token].owner \in Key
  /\ tx.f \in {"fulfill_order", "cancel_order"} =>
       d.order[tx.order_id].fulfilled = NoRow

Fitting(tx) ==
  \A d \in Books :
    Nobody \notin Recipient /\ Sound(d) /\ Reflects(d) => Stuck(d, tx) \/ Fits(d, tx)

Recorded(tx) == Stored(tx) /\ Mirrored(tx) /\ Fitting(tx)

\* A token without an owner on L2 belongs to nobody in the tables.
LEMMA NotHeld ==
  ASSUME NEW d \in Books, Sound(d), Reflects(d), NEW c \in Contract, NEW t \in Felt,
         owner[c][t] = Nobody, ~InEscrow(c, t)
  PROVE  d.token[c][t].owner \notin Key
<1>1. KnowsToken(d, c, t)
  BY DEF Reflects, KnowsTokens
<1>2. d.token[c][t].owner # Nobody
  BY DEF Sound
<1>3. NoRow \notin Key
  BY MirrorAssumption
<1> QED
  BY <1>1, <1>2, <1>3 DEF KnowsToken

LEMMA HandlerMirrored ==
  ASSUME CustodyInv, RegistrationsAgree, Announced, FreshOnly,
         NEW m \in DOMAIN toL2, StoreHandler(m)
  PROVE  \E tx \in Txs : Recorded(tx)
<1>0. L2TypeOK /\ m \in RegisterMessage \cup DepositMessage
  BY DEF CustodyInv, BoundedInv, L2TypeOK, Message
<1>1. ASSUME RegisterContract(m),
             Stored([f |-> "register_contract", contract |-> m.contract,
                     kind |-> m.kind, mint |-> m.mint])
      PROVE  \E tx \in Txs : Recorded(tx)
  <2>1. PICK tx : tx = [f |-> "register_contract", contract |-> m.contract,
                        kind |-> m.kind, mint |-> m.mint]
    OBVIOUS
  <2>2. Stored(tx)
    BY <1>1, <2>1
  <2>3. m.contract \in Contract /\ m.kind \in Kind /\ m.mint \in Key
    BY <1>0, <1>1 DEF RegisterContract, RegisterMessage, DepositMessage
  <2>4. tx \in Txs
    <3> HIDE DEF Kind, Key
    <3> QED
      BY <2>1, <2>3 DEF ContractTx, Txs
  <2>5. Mirrored(tx)
    BY <1>0, <1>1, <2>1, RegisterContractShown DEF Mirrored, Shown
  <2>9. Fitting(tx)
    BY <2>1 DEF Fitting, Fits
  <2> QED
    BY <2>2, <2>4, <2>5, <2>9 DEF Recorded
<1>2. ASSUME m.type = "deposit", MayIntroduce(m.contract, m.value), Deposit(m),
             StoredFlow([f |-> "deposit", user |-> m.user, contract |-> m.contract,
                         value |-> m.value, org |-> 0])
      PROVE  \E tx \in Txs : Recorded(tx)
  <2>1. PICK tx : tx = [f |-> "deposit", user |-> m.user, contract |-> m.contract,
                        value |-> m.value, org |-> 0]
    OBVIOUS
  <2>2. Stored(tx)
    BY <1>2, <2>1 DEF StoredFlow
  <2>3. m.contract \in Contract /\ m.value \in Felt /\ m.user \in Key
    BY <1>0, <1>2 DEF RegisterMessage, DepositMessage
  <2>4. tx \in Txs
    <3> HIDE DEF Felt, Key
    <3> QED
      BY <2>1, <2>3 DEF FlowTx, Txs
  <2>5. ~InEscrow(m.contract, m.value)
    BY <1>2 DEF MayIntroduce
  <2>6. Mirrored(tx)
    BY <1>2, <2>1, <2>5, DepositShown DEF Mirrored, Shown
  <2>7. ASSUME NEW d \in Books, Nobody \notin Recipient, Sound(d), Reflects(d),
               IsToken(d, m.contract)
        PROVE  m.user # Nobody /\ d.token[m.contract][m.value].owner \notin Key
    <3>1. m.user # Nobody
      BY <1>2, <2>7 DEF Announced
    <3>2. ~Fungible(m.contract)
      BY <1>2, <2>3, <2>7, Recognized DEF Deposit, Reflects
    <3>3. owner[m.contract][m.value] = Nobody
      BY <1>2, <3>2 DEF Deposit
    <3> QED
      BY <2>3, <2>5, <2>7, <3>1, <3>3, NotHeld
  <2>8. /\ tx.f = "deposit" /\ tx.user = m.user /\ tx.contract = m.contract
        /\ tx.value = m.value
    BY <2>1
  <2>9. Fitting(tx)
    BY <2>7, <2>8 DEF Fitting, Fits
  <2> QED
    BY <2>2, <2>4, <2>6, <2>9 DEF Recorded
<1> QED
  BY <1>1, <1>2 DEF StoreHandler

LEMMA FlowMirrored ==
  ASSUME CustodyInv, FreshOnly, NEW sig \in User, NEW c \in Contract, NEW v \in Inputs[c],
         \/ \E user \in Recipient : RelayMint(sig, user, v, c)
         \/ \E user \in User, a \in Address : RelayWithdraw(sig, user, v, c, a)
         \/ \E from \in User, to \in Recipient : RelayTransfer(sig, from, to, v, c)
  PROVE  \E tx \in Txs : Recorded(tx)
<1>0. L2TypeOK /\ v \in Felt /\ User \subseteq Key /\ Recipient \subseteq Key
  BY InputsAreFelts, KeyTyping, L2Assumption DEF CustodyInv, BoundedInv
<1>1. ASSUME NEW user \in Recipient, RelayMint(sig, user, v, c)
      PROVE  \E tx \in Txs : Recorded(tx)
  <2>1. PICK tx : tx = [f |-> "mint", user |-> user, contract |-> c, value |-> v,
                        org |-> 0]
    OBVIOUS
  <2>2. Stored(tx)
    BY <1>1, <2>1 DEF RelayMint, StoredFlow
  <2>3. user \in Key
    BY <1>0
  <2>4. tx \in Txs
    <3> HIDE DEF Felt, Key
    <3> QED
      BY <1>0, <2>1, <2>3 DEF FlowTx, Txs
  <2>5. Mint(sig, user, v, c) /\ ~InEscrow(c, v)
    BY <1>1 DEF RelayMint, MayIntroduce
  <2>6. Mirrored(tx)
    BY <1>0, <2>1, <2>3, <2>5, MintShown DEF Mirrored, Shown
  <2>7. owner[c][v] = Nobody
    BY <2>5 DEF Mint
  <2>8. \A d \in Books : Sound(d) /\ Reflects(d) => d.token[c][v].owner \notin Key
    BY <1>0, <2>5, <2>7, NotHeld
  <2>9. Fitting(tx)
    <3>1. tx.f = "mint" /\ tx.user = user /\ tx.contract = c /\ tx.value = v
      BY <2>1
    <3> QED
      BY <2>8, <3>1 DEF Fitting, Fits
  <2> QED
    BY <2>2, <2>4, <2>6, <2>9 DEF Recorded
<1>2. ASSUME NEW user \in User, NEW a \in Address, RelayWithdraw(sig, user, v, c, a)
      PROVE  \E tx \in Txs : Recorded(tx)
  <2>1. PICK tx, org : /\ org = origin[c][v]
                       /\ tx = [f |-> "withdraw", user |-> user, contract |-> c,
                                value |-> v, org |-> org]
    OBVIOUS
  <2>2. Stored(tx)
    BY <1>2, <2>1 DEF RelayWithdraw, StoredFlow
  <2>3. user \in Key /\ org \in {0, 1}
    BY <1>0, <2>1 DEF L2TypeOK
  <2>4. tx \in Txs
    <3> HIDE DEF Felt, Key
    <3> QED
      BY <1>0, <2>1, <2>3 DEF FlowTx, Txs
  <2>5. Withdraw(sig, user, v, c, a)
    BY <1>2 DEF RelayWithdraw
  <2>6. Mirrored(tx)
    BY <1>0, <2>1, <2>3, <2>5, WithdrawShown DEF Mirrored, Shown
  <2>9. Fitting(tx)
    BY <2>1 DEF Fitting, Fits
  <2> QED
    BY <2>2, <2>4, <2>6, <2>9 DEF Recorded
<1>3. ASSUME NEW from \in User, NEW to \in Recipient, RelayTransfer(sig, from, to, v, c)
      PROVE  \E tx \in Txs : Recorded(tx)
  <2>1. PICK tx : tx = [f |-> "transfer", from |-> from, to |-> to, contract |-> c,
                        value |-> v, org |-> 0]
    OBVIOUS
  <2>2. Stored(tx)
    BY <1>3, <2>1 DEF RelayTransfer, StoredFlow
  <2>3. from \in Key /\ to \in Key
    BY <1>0
  <2>4. tx \in Txs
    <3> HIDE DEF Felt, Key
    <3> QED
      BY <1>0, <2>1, <2>3 DEF TransferTx, Txs
  <2>5. Transfer(sig, from, to, v, c)
    BY <1>3 DEF RelayTransfer
  <2>6. Mirrored(tx)
    BY <1>0, <2>1, <2>3, <2>5, TransferShown DEF Mirrored, Shown
  <2>9. Fitting(tx)
    BY <2>1 DEF Fitting, Fits
  <2> QED
    BY <2>2, <2>4, <2>6, <2>9 DEF Recorded
<1> QED
  BY <1>1, <1>2, <1>3

LEMMA OrderMirrored ==
  ASSUME CustodyInv, NEW sig \in User, NEW o \in OrderId,
         \/ \E user \in User, bid \in Side, bc, qc \in Contract :
              \E t \in Inputs[bc], q \in Inputs[qc] :
                RelayCreateOrder(sig, o, user, bid, bc, t, qc, q)
         \/ \E user \in User : RelayFulfillOrder(sig, o, user)
         \/ RelayCancelOrder(sig, o)
  PROVE  \E tx \in Txs : Recorded(tx)
<1>1. ASSUME NEW user \in User, NEW bid \in Side, NEW bc \in Contract, NEW qc \in Contract,
             NEW t \in Inputs[bc], NEW q \in Inputs[qc],
             RelayCreateOrder(sig, o, user, bid, bc, t, qc, q)
      PROVE  \E tx \in Txs : Recorded(tx)
  <2>1. PICK tx : tx = [f |-> "create_order", order_id |-> o, user |-> user, bid |-> bid,
                        contract |-> bc, value |-> t, quote_contract |-> qc,
                        quote_amount |-> q]
    OBVIOUS
  <2>2. Stored(tx)
    BY <1>1, <2>1 DEF RelayCreateOrder
  <2>3. t \in Felt /\ q \in Felt /\ bid \in {ASK, BID}
    BY InputsAreFelts, MirrorAssumption
  <2>4. tx \in Txs
    <3> HIDE DEF Felt
    <3> QED
      BY <2>1, <2>3 DEF CreateTx, Txs
  <2>5. CreateOrder(sig, o, user, bid, bc, t, qc, q)
    BY <1>1 DEF RelayCreateOrder
  <2>6. Mirrored(tx)
    <3> HIDE DEF Felt
    <3> QED
      BY <2>1, <2>3, <2>5, CreateOrderShown DEF Mirrored, Shown
  <2>9. Fitting(tx)
    BY <2>1 DEF Fitting, Fits
  <2> QED
    BY <2>2, <2>4, <2>6, <2>9 DEF Recorded
<1>2. ASSUME NEW user \in User, RelayFulfillOrder(sig, o, user)
      PROVE  \E tx \in Txs : Recorded(tx)
  <2>1. PICK tx : tx = [f |-> "fulfill_order", order_id |-> o, user |-> user]
    OBVIOUS
  <2>2. Stored(tx) /\ FulfillOrder(sig, o, user)
    BY <1>2, <2>1 DEF RelayFulfillOrder
  <2>3. tx \in Txs
    BY <2>1 DEF FulfillTx, Txs
  <2>4. Mirrored(tx)
    BY <2>1, <2>2, FulfillOrderShown DEF Mirrored, Shown
  <2>5. ASSUME NEW d \in Books, Sound(d), Reflects(d), ~Stuck(d, tx),
               NEW ord, ord = d.order[o]
        PROVE  /\ ord.user # Nobody /\ d.token[ord.contract][ord.token].owner \in Key
               /\ ord.fulfilled = NoRow
    <3>1. L2TypeOK /\ Open(order[o])
      BY <2>2 DEF CustodyInv, BoundedInv, FulfillOrder
    <3>2. /\ ord.user = order[o].user /\ (ord.bid <=> order[o].bid = BID)
          /\ ord.contract = order[o].base_contract
          /\ ord.token = order[o].base_token_id
          /\ ord.fulfilled = NoRow
      BY <2>5, <3>1, RowShown
    <3>3. order[o].bid = BID
      BY <2>1, <2>5, <3>2 DEF Stuck
    <3>4. PICK c, t : c = order[o].base_contract /\ t = order[o].base_token_id
      OBVIOUS
    <3>5. owner[c][t] = user
      BY <2>2, <3>3, <3>4 DEF FulfillOrder, ASK, BID
    <3>6. order[o] \in LimitOrder
      BY <3>1 DEF L2TypeOK
    <3>7. c \in Contract /\ t \in Felt
      <4> HIDE DEF Felt
      <4> QED
        BY <3>4, <3>6 DEF LimitOrder
    <3>8. user # Nobody /\ user \in Key
      BY KeyTyping, L2Assumption
    <3>9. KnowsToken(d, c, t)
      BY <2>5, <3>7 DEF Reflects, KnowsTokens
    <3>10. d.token[c][t].owner = user
      BY <3>5, <3>8, <3>9 DEF KnowsToken
    <3> QED
      BY <3>1, <3>2, <3>4, <3>8, <3>10 DEF Open
  <2>6. tx.f = "fulfill_order" /\ tx.order_id = o
    BY <2>1
  <2>7. Fitting(tx)
    BY <2>5, <2>6 DEF Fitting, Fits
  <2> QED
    BY <2>2, <2>3, <2>4, <2>7 DEF Recorded
<1>3. ASSUME RelayCancelOrder(sig, o)
      PROVE  \E tx \in Txs : Recorded(tx)
  <2>1. PICK tx : tx = [f |-> "cancel_order", order_id |-> o]
    OBVIOUS
  <2>2. Stored(tx) /\ CancelOrder(sig, o)
    BY <1>3, <2>1 DEF RelayCancelOrder
  <2>3. tx \in Txs
    BY <2>1 DEF CancelTx, Txs
  <2>4. Mirrored(tx)
    BY <2>1, <2>2, CancelOrderShown DEF Mirrored, Shown
  <2>5. ASSUME NEW d \in Books, Reflects(d)
        PROVE  d.order[o].fulfilled = NoRow
    <3>1. L2TypeOK /\ Open(order[o])
      BY <2>2 DEF CustodyInv, BoundedInv, CancelOrder
    <3> QED
      BY <2>5, <3>1, RowShown
  <2>6. tx.f = "cancel_order" /\ tx.order_id = o
    BY <2>1
  <2>9. Fitting(tx)
    BY <2>5, <2>6 DEF Fitting, Fits
  <2> QED
    BY <2>2, <2>3, <2>4, <2>9 DEF Recorded
<1> QED
  BY <1>1, <1>2, <1>3

\* The exchange acts on L1, or runs a transaction that the crawler stores.
LEMMA ExchangeMirrored ==
  ASSUME CustodyInv, RegistrationsAgree, Announced, FreshOnly, Upstream
  PROVE  \/ L1Step /\ UNCHANGED mirror
         \/ \E tx \in Txs : Recorded(tx)
<1>1. ASSUME NEW sig \in User, Relay(sig)
      PROVE  \E tx \in Txs : Recorded(tx)
  <2>1. ASSUME NEW user \in Registrant, NEW a \in Address, RelayRegisterClient(sig, user, a)
        PROVE  \E tx \in Txs : Recorded(tx)
    <3>1. PICK tx : tx = [f |-> "register_client", user |-> user, address |-> a]
      OBVIOUS
    <3>2. Stored(tx) /\ RegisterClient(sig, user, a)
      BY <2>1, <3>1 DEF RelayRegisterClient
    <3>3. user \in User /\ L2TypeOK
      BY L2Assumption DEF CustodyInv, BoundedInv
    <3>4. tx \in Txs
      BY <3>1, <3>3 DEF ClientTx, Txs
    <3>5. Mirrored(tx)
      BY <3>1, <3>2, <3>3, RegisterClientShown DEF Mirrored, Shown
    <3>6. Fitting(tx)
      BY <3>1 DEF Fitting, Fits
    <3> QED
      BY <3>2, <3>4, <3>5, <3>6 DEF Recorded
  <2>2. ASSUME NEW c \in Contract, NEW v \in Inputs[c],
               \/ \E user \in Recipient : RelayMint(sig, user, v, c)
               \/ \E user \in User, a \in Address : RelayWithdraw(sig, user, v, c, a)
               \/ \E from \in User, to \in Recipient : RelayTransfer(sig, from, to, v, c)
        PROVE  \E tx \in Txs : Recorded(tx)
    BY <2>2, FlowMirrored
  <2>3. ASSUME NEW o \in OrderId,
               \/ \E user \in User, bid \in Side, bc, qc \in Contract :
                    \E t \in Inputs[bc], q \in Inputs[qc] :
                      RelayCreateOrder(sig, o, user, bid, bc, t, qc, q)
               \/ \E user \in User : RelayFulfillOrder(sig, o, user)
               \/ RelayCancelOrder(sig, o)
        PROVE  \E tx \in Txs : Recorded(tx)
    BY <2>3, OrderMirrored
  <2> QED
    BY <1>1, <2>1, <2>2, <2>3 DEF Relay
<1> QED
  BY <1>1, HandlerMirrored DEF Upstream

-----------------------------------------------------------------------------
(***************************************************************************)
(* The books, table by table.                                              *)
(***************************************************************************)
LEMMA FlowsAreBags ==
  ASSUME NEW d \in Books
  PROVE  IsABag(d.flows) /\ \A r \in DOMAIN d.flows : r.value \in Nat
<1>1. d.flows \in FlowBags
  <2> HIDE DEF FlowBags, OrderRow, TokenRow, Felt, Key
  <2> QED
    BY DEF Books
<1>2. PICK S \in SUBSET FlowRow : d.flows \in [S -> Nat \ {0}]
  BY <1>1 DEF FlowBags
<1>3. \A r \in FlowRow : r.value \in Nat
  BY FieldAssumption DEF FlowRow, Felt
<1> QED
  BY <1>2, <1>3 DEF IsABag

\* A row of flows adds its value to the flows of its contract.
LEMMA FlowedAdd ==
  ASSUME NEW d \in Books, IsFiniteSet(DOMAIN d.flows), NEW type, NEW u,
         NEW tx, tx.value \in Nat, NEW x, x.flows = BagAdd(d.flows, FlowOf(type, u, tx)),
         NEW kind, NEW c
  PROVE  /\ IsFiniteSet(DOMAIN x.flows)
         /\ Flowed(d, kind, c) \in Int
         /\ Flowed(x, kind, c)
              = Flowed(d, kind, c) + (IF kind = type /\ c = tx.contract THEN tx.value ELSE 0)
<1> DEFINE B == d.flows
           r == FlowOf(type, u, tx)
           N == {s \in DOMAIN x.flows : s.type = kind /\ s.contract = c}
           M == {s \in DOMAIN d.flows : s.type = kind /\ s.contract = c}
<1>1. IsABag(B) /\ \A s \in DOMAIN B : s.value \in Nat
  BY FlowsAreBags
<1>2. r.type = type /\ r.contract = tx.contract /\ r.value = tx.value
  BY DEF FlowOf
<1> HIDE DEF r
<1>3. DOMAIN x.flows = DOMAIN B \cup {r} /\ IsFiniteSet(DOMAIN x.flows)
  BY <1>1, BagDomains, BagFinite DEF r
<1>4. /\ N \subseteq DOMAIN B \cup {r} /\ IsFiniteSet(N) /\ M = N \cap DOMAIN B
      /\ M \subseteq DOMAIN B /\ IsFiniteSet(M)
  BY <1>3, FS_Subset
<1>5. \A s \in N : s.value \in Nat
  BY <1>1, <1>2, <1>4
<1>6. r \in N <=> kind = type /\ c = tx.contract
  BY <1>2, <1>3
<1>7. Flowed(d, kind, c) = Carried(B, M) /\ Flowed(x, kind, c) = Carried(x.flows, N)
  BY DEF Flowed
<1>8. x.flows = BagAdd(B, r)
  BY DEF r
<1> HIDE DEF B, N, M
<1>9. Carried(BagAdd(B, r), N) = Carried(B, M) + (IF r \in N THEN r.value ELSE 0)
  BY <1>1, <1>4, <1>5, CarriedAdd
<1>10. Carried(B, M) \in Nat
  BY <1>1, <1>4, <1>5, CarriedNat
<1> QED
  BY <1>2, <1>3, <1>6, <1>7, <1>8, <1>9, <1>10

LEMMA FlowedInt ==
  ASSUME NEW d \in Books, IsFiniteSet(DOMAIN d.flows), NEW kind, NEW c
  PROVE  Flowed(d, kind, c) \in Int
<1>1. PICK tx, x : tx = [contract |-> 0, value |-> 0, org |-> 0]
                   /\ x = [flows |-> BagAdd(d.flows, FlowOf(0, 0, tx))]
  OBVIOUS
<1>2. tx.value \in Nat /\ x.flows = BagAdd(d.flows, FlowOf(0, 0, tx))
  BY <1>1
<1> QED
  BY <1>2, FlowedAdd

LEMMA CashInt ==
  ASSUME NEW d \in Books, NEW c \in Contract
  PROVE  /\ [u \in Key |-> d.amount[u][c]] \in [Key -> Int]
         /\ Cash(d, c) \in Int
<1>1. d.amount \in [Key -> [Contract -> Int]]
  BY DEF Books
<1> HIDE DEF Key
<1>2. [u \in Key |-> d.amount[u][c]] \in [Key -> Int]
  BY <1>1
<1>3. IsFiniteSet(Key)
  BY FiniteKeys
<1> QED
  BY <1>2, <1>3, SumType DEF Cash, SumFunction

\* What one user gets, all of them have more.
LEMMA CashCredited ==
  ASSUME NEW d \in Books, NEW x \in Books, NEW u \in Key, NEW e \in Contract, NEW v \in Int,
         Credit(d.amount, x.amount, u, e, v), NEW c \in Contract
  PROVE  Cash(x, c) = Cash(d, c) + (IF c = e THEN v ELSE 0)
<1> DEFINE f == [w \in Key |-> d.amount[w][c]]
           g == [w \in Key |-> x.amount[w][c]]
<1>1. f \in [Key -> Int] /\ g \in [Key -> Int] /\ IsFiniteSet(Key)
  BY CashInt, FiniteKeys
<1>2. \A w \in Key : g[w] = f[w] + At(w, c, u, e, v)
  BY DEF Credit
<1>3. Cash(d, c) = SumFunction(f) /\ Cash(x, c) = SumFunction(g)
  BY DEF Cash
<1> HIDE DEF f, g, Key
<1>4. f[u] \in Int /\ g[u] = f[u] + (IF c = e THEN v ELSE 0)
  BY <1>1, <1>2 DEF At
<1>5. \A w \in Key \ {u} : g[w] = f[w]
  BY <1>1, <1>2 DEF At
<1>6. SumFunction(g) = SumFunction(f) - f[u] + g[u] /\ SumFunction(f) \in Int
  BY <1>1, <1>5, SumFunctionUpdate
<1> QED
  BY <1>3, <1>4, <1>6

\* What one user pays another, all of them keep.
LEMMA CashPaid ==
  ASSUME NEW d \in Books, NEW x \in Books, NEW u \in Key, NEW w \in Key,
         NEW e \in Contract, NEW v \in Int,
         Payment(d.amount, x.amount, u, w, e, v), NEW c \in Contract
  PROVE  Cash(x, c) = Cash(d, c)
<1> DEFINE f == [s \in Key |-> d.amount[s][c]]
           g == [s \in Key |-> x.amount[s][c]]
<1>1. f \in [Key -> Int] /\ g \in [Key -> Int] /\ IsFiniteSet(Key)
  BY CashInt, FiniteKeys
<1>2. \A s \in Key : g[s] = (f[s] + At(s, c, u, e, -v)) + At(s, c, w, e, v)
  BY DEF Payment
<1>3. Cash(d, c) = SumFunction(f) /\ Cash(x, c) = SumFunction(g)
  BY DEF Cash
<1> HIDE DEF f, g, Key
<1>4. f[u] \in Int /\ f[w] \in Int
  BY <1>1
<1>5. CASE u = w
  <2>1. \A s \in Key : g[s] = f[s]
    BY <1>1, <1>2, <1>5 DEF At
  <2>2. f = g
    BY <1>1, <2>1
  <2> QED
    BY <1>3, <2>2
<1>6. CASE u # w
  <2>1. \A s \in Key \ {u, w} : g[s] = f[s]
    BY <1>1, <1>2 DEF At
  <2>2. /\ SumFunction(g) = SumFunction(f) - f[u] - f[w] + g[u] + g[w]
        /\ SumFunction(f) \in Int
    BY <1>1, <1>6, <2>1, SumFunctionUpdateTwo
  <2>3. g[u] = f[u] + (IF c = e THEN -v ELSE 0) /\ g[w] = f[w] + (IF c = e THEN v ELSE 0)
    BY <1>4, <1>2, <1>6 DEF At
  <2> QED
    BY <1>3, <1>4, <2>2, <2>3
<1> QED
  BY <1>5, <1>6

LEMMA ReserveInt ==
  ASSUME NEW d \in Books, NEW c \in Contract
  PROVE  /\ OpenRows(d, c) \subseteq OrderId /\ IsFiniteSet(OpenRows(d, c))
         /\ [o \in OpenRows(d, c) |-> d.order[o].quote_amount] \in [OpenRows(d, c) -> Int]
         /\ Reserve(d, c) \in Int
<1>1. OpenRows(d, c) \subseteq OrderId
  BY DEF OpenRows
<1>2. IsFiniteSet(OpenRows(d, c))
  BY <1>1, L2Assumption, FS_Subset
<1>3. \A o \in OpenRows(d, c) : d.order[o].quote_amount \in Int
  <2> HIDE DEF Books
  <2> QED
    BY OrderRowFields DEF OpenRows
<1> QED
  BY <1>1, <1>2, <1>3, SumType DEF Reserve, SumFunction

\* The row of one order changes.
LEMMA ReservePut ==
  ASSUME NEW d \in Books, NEW x \in Books, NEW o \in OrderId, NEW row,
         Put(d.order, x.order, o, row), NEW c \in Contract
  PROVE  /\ Reserve(d, c) \in Int
         /\ Reserve(x, c)
              = Reserve(d, c)
                  - (IF o \in OpenRows(d, c) THEN d.order[o].quote_amount ELSE 0)
                  + (IF o \in OpenRows(x, c) THEN x.order[o].quote_amount ELSE 0)
<1> DEFINE S == OpenRows(d, c)
           T == OpenRows(x, c)
           f == [p \in S |-> d.order[p].quote_amount]
           g == [p \in T |-> x.order[p].quote_amount]
<1>1. IsFiniteSet(S) /\ IsFiniteSet(T) /\ f \in [S -> Int] /\ g \in [T -> Int]
  <2> HIDE DEF Books
  <2> QED
    BY ReserveInt
<1>2. \A p \in OrderId : p # o => x.order[p] = d.order[p]
  BY DEF Put
<1>3. S \ {o} = T \ {o}
  BY <1>2 DEF OpenRows
<1>4. \A p \in S \ {o} : g[p] = f[p]
  <2>1. \A p \in S \ {o} : p \in OrderId /\ p \in T
    BY <1>3 DEF OpenRows
  <2> QED
    BY <1>2, <2>1
<1>5. /\ o \in S => f[o] = d.order[o].quote_amount
      /\ o \in T => g[o] = x.order[o].quote_amount
  OBVIOUS
<1>6. Reserve(d, c) = SumFunction(f) /\ Reserve(x, c) = SumFunction(g)
  BY DEF Reserve
<1> HIDE DEF f, g, S, T
<1>7. /\ SumFunction(f) \in Int
      /\ SumFunction(g) = SumFunction(f) - (IF o \in S THEN f[o] ELSE 0)
                                         + (IF o \in T THEN g[o] ELSE 0)
  BY <1>1, <1>3, <1>4, SumFunctionChange
<1> QED
  BY <1>5, <1>6, <1>7 DEF S, T

LEMMA StockInt ==
  ASSUME NEW d, NEW c \in Contract
  PROVE  /\ IsFiniteSet(HeldTokens(d, c))
         /\ [t \in HeldTokens(d, c) |-> t] \in [HeldTokens(d, c) -> Int]
         /\ Stock(d, c) \in Int
<1>1. HeldTokens(d, c) \subseteq Felt
  BY DEF HeldTokens
<1>2. IsFiniteSet(Felt) /\ Felt \subseteq Int
  BY FieldAssumption, FS_Interval DEF Felt
<1>3. IsFiniteSet(HeldTokens(d, c))
  BY <1>1, <1>2, FS_Subset
<1> QED
  BY <1>1, <1>2, <1>3, SumType DEF Stock, SumFunction

\* How the stock grows when token t of c goes to u
Gained(d, c, t, u) ==
  (IF u \in Key THEN t ELSE 0) - (IF d.token[c][t].owner \in Key THEN t ELSE 0)

\* One token changes hands, comes or goes.
LEMMA StockShift ==
  ASSUME NEW d, NEW x, NEW e \in Contract, NEW t \in Felt, NEW u, NEW o,
         Shift(d.token, x.token, e, t, u, o), NEW c \in Contract
  PROVE  /\ Stock(d, c) \in Int
         /\ Stock(x, c) = Stock(d, c) + (IF c = e THEN Gained(d, e, t, u) ELSE 0)
         /\ Gained(d, e, t, u) \in Int
<1> DEFINE S == HeldTokens(d, c)
           T == HeldTokens(x, c)
           f == [s \in S |-> s]
           g == [s \in T |-> s]
<1>1. IsFiniteSet(S) /\ IsFiniteSet(T) /\ f \in [S -> Int] /\ g \in [T -> Int]
  BY StockInt
<1>2. \A s \in Felt : c # e \/ s # t => x.token[c][s] = d.token[c][s]
  BY DEF Shift
<1>3. S \ {t} = T \ {t} /\ (c # e => S = T)
  BY <1>2 DEF HeldTokens
<1>4. \A s \in S \ {t} : g[s] = f[s]
  BY <1>3
<1>5. (t \in S => f[t] = t) /\ (t \in T => g[t] = t)
  OBVIOUS
<1>6. c = e => /\ t \in S <=> d.token[e][t].owner \in Key
               /\ t \in T <=> u \in Key
  BY DEF HeldTokens, Shift
<1>7. Stock(d, c) = SumFunction(f) /\ Stock(x, c) = SumFunction(g)
  BY DEF Stock
<1>8. t \in Int
  BY FieldAssumption DEF Felt
<1> HIDE DEF f, g, S, T, Key
<1>9. /\ SumFunction(f) \in Int
      /\ SumFunction(g) = SumFunction(f) - (IF t \in S THEN f[t] ELSE 0)
                                         + (IF t \in T THEN g[t] ELSE 0)
  BY <1>1, <1>3, <1>4, SumFunctionChange
<1>10. CASE c = e
  BY <1>5, <1>6, <1>7, <1>8, <1>9, <1>10 DEF Gained
<1>11. CASE c # e
  <2>1. f = g
    BY <1>1, <1>3, <1>11 DEF f, g
  <2> QED
    BY <1>7, <1>8, <1>9, <1>11, <2>1 DEF Gained
<1> QED
  BY <1>10, <1>11

LEMMA SameMoney ==
  ASSUME NEW d, NEW x, NEW c, x.amount = d.amount
  PROVE  Cash(x, c) = Cash(d, c)
BY DEF Cash

LEMMA SameReserve ==
  ASSUME NEW d, NEW x, NEW c, x.order = d.order
  PROVE  Reserve(x, c) = Reserve(d, c)
<1>1. OpenRows(x, c) = OpenRows(d, c)
  BY DEF OpenRows
<1> QED
  BY <1>1 DEF Reserve

LEMMA SameStock ==
  ASSUME NEW d, NEW x, NEW c, x.token = d.token
  PROVE  Stock(x, c) = Stock(d, c)
<1>1. HeldTokens(x, c) = HeldTokens(d, c)
  BY DEF HeldTokens
<1> QED
  BY <1>1 DEF Stock

LEMMA SameFlows ==
  ASSUME NEW d, NEW x, x.flows = d.flows
  PROVE  \A kind, c : Flowed(x, kind, c) = Flowed(d, kind, c) /\ Net(x, c) = Net(d, c)
BY DEF Flowed, Net

\* A token of another owner than the key 0
LEMMA OwnersShift ==
  ASSUME NEW d, Sound(d), NEW x, NEW c \in Contract, NEW t \in Felt, NEW u, NEW o,
         u # Nobody, Shift(d.token, x.token, c, t, u, o)
  PROVE  \A e \in Contract, s \in Felt : x.token[e][s].owner # Nobody
BY DEF Sound, Shift

-----------------------------------------------------------------------------
(***************************************************************************)
(* Every handler leaves the books balanced.                                *)
(***************************************************************************)

\* Arithmetic
LEMMA SameGap ==
  ASSUME NEW a \in Int, NEW b \in Int, NEW m \in Int, NEW n \in Int, NEW p \in Int,
         NEW q \in Int, b - a = n + q - m - p, a = m + p
  PROVE  b = n + q
OBVIOUS

LEMMA BothGrow ==
  ASSUME NEW a \in Int, NEW r \in Int, NEW n \in Int, NEW v \in Int, a + r = n
  PROVE  (a + v) + r = n + v /\ (a + 0) + r = n + 0
OBVIOUS

LEMMA ContractSound ==
  ASSUME NEW d \in Books, NEW tx \in ContractTx
  PROVE  Sound(d) => Sound(Applied(d, tx))
<1>0. PICK x : x = Applied(d, tx)
  OBVIOUS
<1>1. /\ x \in Books
      /\ x.address = d.address /\ x.amount = d.amount /\ x.token = d.token
      /\ x.order = d.order /\ x.flows = d.flows
      /\ Known(d, tx.contract) => x = d
      /\ ~Known(d, tx.contract) =>
           /\ x.fungible = [d.fungible EXCEPT ![tx.contract] = (tx.kind # KIND_ERC721)]
           /\ x.minter = [d.minter EXCEPT ![tx.contract] =
                            IF tx.kind # KIND_ERC721 THEN NoRow ELSE tx.mint]
  BY <1>0, ContractApplied
<1> SUFFICES ASSUME Sound(d) PROVE Sound(x)
  BY <1>0
<1>2. d.fungible \in [Contract -> BOOLEAN \cup {NoRow}]
  BY DEF Books
<1>3. \A c \in Contract :
        /\ x.fungible[c] # FALSE => d.fungible[c] # FALSE
        /\ x.fungible[c] # TRUE => d.fungible[c] # TRUE
  <2>1. CASE Known(d, tx.contract)
    BY <1>1, <2>1
  <2>2. CASE ~Known(d, tx.contract)
    <3>1. d.fungible[tx.contract] \notin BOOLEAN
      BY <2>2, MirrorAssumption DEF Known
    <3>2. \A c \in Contract : c # tx.contract => x.fungible[c] = d.fungible[c]
      BY <1>1, <1>2, <2>2
    <3> QED
      BY <3>1, <3>2
  <2> QED
    BY <2>1, <2>2
<1>4. \A c \in Contract : Balanced(x, c)
  <2>1. ASSUME NEW c \in Contract PROVE Balanced(x, c)
    <3>1. Balanced(d, c)
      BY DEF Sound
    <3>2. Cash(x, c) = Cash(d, c) /\ Reserve(x, c) = Reserve(d, c) /\ Stock(x, c) = Stock(d, c)
      BY <1>1, SameMoney, SameReserve, SameStock
    <3>3. Flowed(x, "MINT", c) = Flowed(d, "MINT", c) /\ Net(x, c) = Net(d, c)
      BY <1>1, SameFlows
    <3> QED
      BY <1>3, <3>1, <3>2, <3>3 DEF Balanced
  <2> QED
    BY <2>1
<1> QED
  BY <1>0, <1>1, <1>4 DEF Sound

LEMMA ClientSound ==
  ASSUME NEW d \in Books, NEW tx \in ClientTx
  PROVE  Sound(d) => Sound(Applied(d, tx))
<1>0. PICK x : x = Applied(d, tx)
  OBVIOUS
<1>1. /\ x \in Books
      /\ x.fungible = d.fungible /\ x.minter = d.minter
      /\ x.amount = d.amount /\ x.token = d.token
      /\ x.order = d.order /\ x.flows = d.flows
      /\ x.address = [d.address EXCEPT ![tx.user] = tx.address]
  BY <1>0, ClientApplied
<1> SUFFICES ASSUME Sound(d) PROVE Sound(x)
  BY <1>0
<1>2. ASSUME NEW c \in Contract PROVE Balanced(x, c)
  <2>1. Balanced(d, c)
    BY DEF Sound
  <2>2. Cash(x, c) = Cash(d, c) /\ Reserve(x, c) = Reserve(d, c) /\ Stock(x, c) = Stock(d, c)
    BY <1>1, SameMoney, SameReserve, SameStock
  <2>3. Flowed(x, "MINT", c) = Flowed(d, "MINT", c) /\ Net(x, c) = Net(d, c)
    BY <1>1, SameFlows
  <2> QED
    BY <1>1, <2>1, <2>2, <2>3 DEF Balanced
<1> QED
  BY <1>0, <1>1, <1>2 DEF Sound

\* Of c, v more came in than went out, and m was minted; of no other contract
Entered(d, x, c, v, m) ==
  /\ IsFiniteSet(DOMAIN x.flows)
  /\ \A e \in Contract :
       /\ Net(d, e) \in Int /\ Flowed(d, "MINT", e) \in Int
       /\ Net(x, e) = Net(d, e) + (IF e = c THEN v ELSE 0)
       /\ Flowed(x, "MINT", e) = Flowed(d, "MINT", e) + (IF e = c THEN m ELSE 0)

\* What a row of flows says
LEMMA FlowEntered ==
  ASSUME NEW d \in Books, Sound(d), NEW type, NEW u,
         NEW tx, NEW c, c = tx.contract, NEW t \in Nat, t = tx.value,
         NEW x, x.flows = BagAdd(d.flows, FlowOf(type, u, tx))
  PROVE  /\ type = "DEPOSIT" => Entered(d, x, c, t, 0)
         /\ type = "WITHDRAWAL" => Entered(d, x, c, -t, 0)
         /\ type = "MINT" => Entered(d, x, c, 0, t)
         /\ type = "TRANSFER" => Entered(d, x, c, 0, 0)
<1>1. IsFiniteSet(DOMAIN d.flows)
  BY DEF Sound
<1>2. /\ IsFiniteSet(DOMAIN x.flows)
      /\ \A kind, e :
           /\ Flowed(d, kind, e) \in Int
           /\ Flowed(x, kind, e)
                = Flowed(d, kind, e) + (IF kind = type /\ e = c THEN t ELSE 0)
  <2>1. IsFiniteSet(DOMAIN x.flows)
    <3> HIDE DEF Books
    <3> QED
      BY <1>1, FlowedAdd
  <2>2. ASSUME NEW kind, NEW e
        PROVE  /\ Flowed(d, kind, e) \in Int
               /\ Flowed(x, kind, e)
                    = Flowed(d, kind, e) + (IF kind = type /\ e = c THEN t ELSE 0)
    <3> HIDE DEF Books
    <3> QED
      BY <1>1, FlowedAdd
  <2> QED
    BY <2>1, <2>2
<1>3. ASSUME NEW e
      PROVE  /\ Net(d, e) \in Int
             /\ type = "DEPOSIT" => Net(x, e) = Net(d, e) + (IF e = c THEN t ELSE 0)
             /\ type = "WITHDRAWAL" => Net(x, e) = Net(d, e) + (IF e = c THEN -t ELSE 0)
             /\ type \notin {"DEPOSIT", "WITHDRAWAL"} => Net(x, e) = Net(d, e)
  BY <1>2 DEF Net
<1> QED
  BY <1>2, <1>3 DEF Entered

LEMMA HandedStock ==
  ASSUME NEW d, NEW c \in Contract, NEW t \in Felt, NEW x, NEW u,
         Handed(d, x, c, t, u), NEW e \in Contract
  PROVE  /\ Stock(d, e) \in Int
         /\ Stock(x, e) = Stock(d, e) + (IF e = c THEN Gained(d, c, t, u) ELSE 0)
         /\ Gained(d, c, t, u) \in Int
<1>1. PICK o : o = d.token[c][t].ask
  OBVIOUS
<1>2. Shift(d.token, x.token, c, t, u, o)
  BY <1>1 DEF Handed
<1> QED
  BY <1>2, StockShift

\* That v more of c came in than went out, and m was minted, explains why token t
\* goes to u.
Explains(d, c, t, u, v, m) ==
  /\ v \in Int /\ m \in Int
  /\ d.fungible[c] # FALSE => v = 0
  /\ v + m = Gained(d, c, t, u)

\* A token comes to a user, or leaves one.
LEMMA HandedSound ==
  ASSUME NEW d \in Books, Sound(d), NEW c \in Contract, NEW t \in Felt, NEW x, NEW u,
         Handed(d, x, c, t, u), u # Nobody,
         NEW v, NEW m, Explains(d, c, t, u, v, m), Entered(d, x, c, v, m)
  PROVE  Sound(x)
<1>0. /\ v \in Int /\ m \in Int
      /\ d.fungible[c] # FALSE => v = 0
      /\ v + m = Gained(d, c, t, u)
  BY DEF Explains
<1>1. /\ x.fungible = d.fungible /\ x.amount = d.amount /\ x.order = d.order
      /\ Shift(d.token, x.token, c, t, u, d.token[c][t].ask)
  BY DEF Handed
<1>2. ASSUME NEW e \in Contract PROVE Balanced(x, e)
  <2>1. Balanced(d, e)
    BY DEF Sound
  <2>2. Cash(x, e) = Cash(d, e) /\ Reserve(x, e) = Reserve(d, e)
    BY <1>1, SameMoney, SameReserve
  <2>3. /\ Stock(d, e) \in Int
        /\ Stock(x, e) = Stock(d, e) + (IF e = c THEN Gained(d, c, t, u) ELSE 0)
        /\ Gained(d, c, t, u) \in Int
    BY HandedStock, Zenon
  <2>4. t \in Int
    BY FieldAssumption DEF Felt
  <2>5. /\ Net(d, e) \in Int /\ Flowed(d, "MINT", e) \in Int
        /\ Net(x, e) = Net(d, e) + (IF e = c THEN v ELSE 0)
        /\ Flowed(x, "MINT", e) = Flowed(d, "MINT", e) + (IF e = c THEN m ELSE 0)
    BY DEF Entered
  <2> HIDE DEF Felt, Key, Books
  <2>6. d.fungible[e] # FALSE => Net(x, e) = Net(d, e)
    <3>1. CASE e = c
      BY <1>0, <2>5, <3>1
    <3>2. CASE e # c
      BY <1>0, <2>5, <3>2
    <3> QED
      BY <3>1, <3>2
  <2>7. Stock(x, e) - Stock(d, e)
          = Net(x, e) + Flowed(x, "MINT", e) - Net(d, e) - Flowed(d, "MINT", e)
    <3>1. CASE e = c
      BY <1>0, <2>3, <2>4, <2>5, <3>1
    <3>2. CASE e # c
      BY <2>3, <2>5, <3>2
    <3> QED
      BY <3>1, <3>2
  <2>8. Stock(x, e) \in Int /\ Net(x, e) \in Int /\ Flowed(x, "MINT", e) \in Int
    BY <1>0, <2>3, <2>4, <2>5
  <2>9. Stock(d, e) = Net(d, e) + Flowed(d, "MINT", e)
          => Stock(x, e) = Net(x, e) + Flowed(x, "MINT", e)
    BY <2>3, <2>5, <2>7, <2>8, SameGap
  <2> QED
    BY <1>1, <2>1, <2>2, <2>6, <2>9 DEF Balanced
<1>3. \A e \in Contract, s \in Felt : x.token[e][s].owner # Nobody
  BY <1>1, OwnersShift
<1> QED
  BY <1>2, <1>3 DEF Sound, Entered

\* An amount comes to a user, or leaves one.
LEMMA CreditedSound ==
  ASSUME NEW d \in Books, Sound(d), NEW u \in Key, NEW c \in Contract, NEW v \in Int, NEW x,
         Credited(d, x, u, c, v), Entered(d, x, c, v, 0), d.fungible[c] = TRUE
  PROVE  Sound(x)
<1>1. /\ x.fungible = d.fungible /\ x.token = d.token /\ x.order = d.order
      /\ x \in Books /\ Credit(d.amount, x.amount, u, c, v)
  BY DEF Credited
<1>2. ASSUME NEW e \in Contract PROVE Balanced(x, e)
  <2>1. Balanced(d, e)
    BY DEF Sound
  <2>2. Stock(x, e) = Stock(d, e) /\ Reserve(x, e) = Reserve(d, e)
    BY <1>1, SameStock, SameReserve
  <2>3. Cash(x, e) = Cash(d, e) + (IF e = c THEN v ELSE 0)
    <3> HIDE DEF Books, Key
    <3> QED
      BY <1>1, CashCredited
  <2>4. Cash(d, e) \in Int /\ Reserve(d, e) \in Int
    BY CashInt, ReserveInt
  <2>5. /\ Net(d, e) \in Int /\ Flowed(d, "MINT", e) \in Int
        /\ Net(x, e) = Net(d, e) + (IF e = c THEN v ELSE 0)
        /\ Flowed(x, "MINT", e) = Flowed(d, "MINT", e)
    BY DEF Entered
  <2> HIDE DEF Books, Key
  <2>6. Cash(d, e) + Reserve(d, e) = Net(d, e) => Cash(x, e) + Reserve(x, e) = Net(x, e)
    <3>1. CASE e = c
      BY <2>2, <2>3, <2>4, <2>5, <3>1, BothGrow
    <3>2. CASE e # c
      BY <2>2, <2>3, <2>4, <2>5, <3>2, BothGrow
    <3> QED
      BY <3>1, <3>2
  <2>7. d.fungible[e] # TRUE => Net(x, e) = Net(d, e)
    <3>1. CASE e = c
      BY <3>1
    <3>2. CASE e # c
      BY <2>5, <3>2
    <3> QED
      BY <3>1, <3>2
  <2> QED
    BY <1>1, <2>1, <2>2, <2>5, <2>6, <2>7 DEF Balanced
<1> QED
  BY <1>1, <1>2 DEF Sound, Entered

\* Mints, deposits and withdrawals
LEMMA FlowSound ==
  ASSUME NEW d \in Books, Sound(d), NEW tx \in FlowTx, Asserted(d, tx), Fits(d, tx)
  PROVE  Sound(Applied(d, tx))
<1>0. PICK x : x = Applied(d, tx)
  OBVIOUS
<1>1. /\ tx.f \in {"mint", "deposit", "withdraw"} /\ tx.user \in Key
      /\ tx.contract \in Contract /\ tx.value \in Felt /\ tx.value \in Nat
      /\ tx.value \in Int /\ -tx.value \in Int
  BY FlowTxFields, FieldAssumption DEF Felt
<1>2. PICK c, t, u : c = tx.contract /\ t = tx.value /\ u = tx.user
  OBVIOUS
<1>3. /\ c \in Contract /\ t \in Felt /\ t \in Nat /\ t \in Int /\ -t \in Int /\ u \in Key
      /\ NoRow \notin Key /\ NoRow # Nobody
  BY <1>1, <1>2, KeyTyping, MirrorAssumption
<1>4. d.fungible[c] \in BOOLEAN \cup {NoRow} /\ NoRow \notin BOOLEAN
  BY <1>3, MirrorAssumption DEF Books
<1>5. ~IsToken(d, c) /\ Known(d, c) => d.fungible[c] = TRUE
  BY <1>4 DEF IsToken, Known
<1>6. IsToken(d, c) => d.fungible[c] = FALSE
  BY DEF IsToken
<1> HIDE DEF Books, FlowTx, Felt, Key, IsToken
<1>7. CASE tx.f = "mint"
  <2>1. Handed(d, x, c, t, u) /\ x.flows = BagAdd(d.flows, FlowOf("MINT", u, tx))
    BY <1>2, <1>7, <1>0, MintApplied
  <2>2. u # Nobody /\ d.token[c][t].owner \notin Key
    BY <1>2, <1>7 DEF Fits
  <2>3. Entered(d, x, c, 0, t)
    BY <1>2, <1>3, <2>1, FlowEntered
  <2>4. Explains(d, c, t, u, 0, t)
    BY <1>3, <2>2 DEF Gained, Explains
  <2> QED
    BY <1>0, <1>3, <2>1, <2>2, <2>3, <2>4, HandedSound
<1>8. CASE tx.f = "deposit"
  <2>1. x.flows = BagAdd(d.flows, FlowOf("DEPOSIT", u, tx))
    BY <1>2, <1>8, <1>0, DepositApplied
  <2>2. Entered(d, x, c, t, 0)
    BY <1>2, <1>3, <2>1, FlowEntered
  <2>3. CASE IsToken(d, c)
    <3>1. Handed(d, x, c, t, u)
      BY <1>2, <1>8, <2>3, <1>0, DepositApplied
    <3>2. u # Nobody /\ d.token[c][t].owner \notin Key
      BY <1>2, <1>8, <2>3 DEF Fits
    <3>3. Explains(d, c, t, u, t, 0)
      <4>1. t + 0 = Gained(d, c, t, u)
        BY <1>3, <3>2 DEF Gained
      <4>2. ~(d.fungible[c] # FALSE)
        BY <1>6, <2>3
      <4>3. d.fungible[c] # FALSE => t = 0
        BY <4>2, Zenon
      <4>4. 0 \in Int
        OBVIOUS
      <4> QED
        BY <1>3, <4>1, <4>3, <4>4, Zenon DEF Explains
    <3> QED
      BY <1>0, <1>3, <2>2, <3>1, <3>2, <3>3, HandedSound
  <2>4. CASE ~IsToken(d, c)
    <3>1. Credited(d, x, u, c, t)
      BY <1>2, <1>8, <2>4, <1>0, DepositApplied
    <3>2. Known(d, c)
      BY <1>2, <1>8 DEF Asserted
    <3> QED
      BY <1>3, <1>5, <2>2, <2>4, <3>1, <3>2, <1>0, CreditedSound
  <2> QED
    BY <2>3, <2>4
<1>9. CASE tx.f = "withdraw"
  <2>1. x.flows = BagAdd(d.flows, FlowOf("WITHDRAWAL", u, tx))
    BY <1>2, <1>9, <1>0, WithdrawApplied
  <2>2. Entered(d, x, c, -t, 0)
    BY <1>2, <1>3, <2>1, FlowEntered
  <2>3. CASE IsToken(d, c)
    <3>1. Handed(d, x, c, t, NoRow)
      BY <1>2, <1>9, <2>3, <1>0, WithdrawApplied
    <3>2. d.token[c][t].owner \in Key
      BY <1>2, <1>3, <1>9, <2>3 DEF Asserted
    <3>3. PICK v, u0 : v = -t /\ u0 = NoRow
      OBVIOUS
    <3>4. Explains(d, c, t, u0, v, 0)
      <4>1. v + 0 = Gained(d, c, t, u0) /\ v \in Int
        BY <1>3, <3>2, <3>3 DEF Gained
      <4>2. ~(d.fungible[c] # FALSE)
        BY <1>6, <2>3
      <4>3. d.fungible[c] # FALSE => v = 0
        BY <4>2, Zenon
      <4>4. 0 \in Int
        OBVIOUS
      <4> QED
        BY <4>1, <4>3, <4>4, Zenon DEF Explains
    <3>5. Entered(d, x, c, v, 0) /\ Handed(d, x, c, t, u0) /\ u0 # Nobody
      BY <1>3, <2>2, <3>1, <3>3
    <3> QED
      BY <1>0, <1>3, <3>4, <3>5, HandedSound
  <2>4. CASE ~IsToken(d, c)
    <3>1. Credited(d, x, u, c, -t)
      BY <1>2, <1>9, <2>4, <1>0, WithdrawApplied
    <3>2. Known(d, c)
      BY <1>2, <1>9 DEF Asserted
    <3>3. PICK v : v = -t
      OBVIOUS
    <3>4. v \in Int /\ Entered(d, x, c, v, 0) /\ Credited(d, x, u, c, v)
      BY <1>3, <2>2, <3>1, <3>3
    <3> QED
      BY <1>3, <1>5, <2>4, <3>2, <3>4, <1>0, CreditedSound
  <2> QED
    BY <2>3, <2>4
<1> QED
  BY <1>1, <1>7, <1>8, <1>9

LEMMA TransferSound ==
  ASSUME NEW d \in Books, Sound(d), NEW tx \in TransferTx, Asserted(d, tx), Fits(d, tx)
  PROVE  Sound(Applied(d, tx))
<1>0. PICK x : x = Applied(d, tx)
  OBVIOUS
<1>1. /\ tx.f = "transfer" /\ tx.from \in Key /\ tx.to \in Key
      /\ tx.contract \in Contract /\ tx.value \in Felt /\ tx.value \in Nat
      /\ tx.value \in Int
  BY TransferTxFields, FieldAssumption DEF Felt
<1>2. PICK c, t, u, w : c = tx.contract /\ t = tx.value /\ u = tx.from /\ w = tx.to
  OBVIOUS
<1>3. c \in Contract /\ t \in Felt /\ t \in Nat /\ t \in Int /\ u \in Key /\ w \in Key
  BY <1>1, <1>2
<1> HIDE DEF Books, TransferTx, Felt, Key
<1>4. CASE IsToken(d, c)
  <2>1. Handed(d, x, c, t, w) /\ x.flows = BagAdd(d.flows, FlowOf("TRANSFER", w, tx))
    BY <1>2, <1>4, <1>0, TransferApplied
  <2>2. w # Nobody /\ d.token[c][t].owner \in Key
    BY <1>1, <1>2, <1>3, <1>4 DEF Fits, Asserted
  <2>3. Entered(d, x, c, 0, 0)
    BY <1>2, <1>3, <2>1, FlowEntered
  <2>4. Explains(d, c, t, w, 0, 0)
    BY <1>3, <2>2 DEF Gained, Explains
  <2> QED
    BY <1>0, <1>3, <2>1, <2>2, <2>3, <2>4, HandedSound
<1>5. CASE ~IsToken(d, c)
  <2>1. /\ x \in Books
        /\ x.fungible = d.fungible /\ x.token = d.token
        /\ x.order = d.order /\ x.flows = d.flows
        /\ Payment(d.amount, x.amount, u, w, c, t)
    BY <1>2, <1>5, <1>0, TransferApplied
  <2>2. ASSUME NEW e \in Contract PROVE Balanced(x, e)
    <3>1. Balanced(d, e)
      BY DEF Sound
    <3>2. Stock(x, e) = Stock(d, e) /\ Reserve(x, e) = Reserve(d, e)
      BY <2>1, SameStock, SameReserve
    <3>3. Cash(x, e) = Cash(d, e)
      BY <1>3, <2>1, CashPaid
    <3>4. Flowed(x, "MINT", e) = Flowed(d, "MINT", e) /\ Net(x, e) = Net(d, e)
      BY <2>1, SameFlows
    <3> QED
      BY <2>1, <3>1, <3>2, <3>3, <3>4 DEF Balanced
  <2> QED
    BY <1>0, <2>1, <2>2 DEF Sound
<1> QED
  BY <1>4, <1>5

LEMMA StockKept ==
  ASSUME NEW d, NEW x, NEW c \in Contract, NEW t \in Felt, NEW u, NEW o,
         Shift(d.token, x.token, c, t, u, o), NEW e \in Contract
  PROVE  Gained(d, c, t, u) = 0 => Stock(x, e) = Stock(d, e)
<1>1. /\ Stock(d, e) \in Int
      /\ Stock(x, e) = Stock(d, e) + (IF e = c THEN Gained(d, c, t, u) ELSE 0)
      /\ Gained(d, c, t, u) \in Int
  BY StockShift, Zenon
<1> QED
  BY <1>1

\* What a sale or a loan leaves as it is: of a contract, the money together with
\* what the open bids hold, and of a collection the tokens that have an owner.
LEMMA TradeSound ==
  ASSUME NEW d \in Books, Sound(d), NEW x,
         x.fungible = d.fungible, x.flows = d.flows,
         NEW c \in Contract, NEW t \in Felt, NEW u, NEW o,
         Shift(d.token, x.token, c, t, u, o), u # Nobody, Gained(d, c, t, u) = 0,
         \A e \in Contract : Cash(x, e) + Reserve(x, e) = Cash(d, e) + Reserve(d, e)
  PROVE  Sound(x)
<1>1. ASSUME NEW e \in Contract PROVE Balanced(x, e)
  <2>1. Balanced(d, e)
    BY DEF Sound
  <2>2. Stock(x, e) = Stock(d, e)
    BY StockKept
  <2>3. Flowed(x, "MINT", e) = Flowed(d, "MINT", e) /\ Net(x, e) = Net(d, e)
    BY SameFlows
  <2> QED
    BY <2>1, <2>2, <2>3 DEF Balanced
<1>2. \A e \in Contract, s \in Felt : x.token[e][s].owner # Nobody
  BY OwnersShift
<1> QED
  BY <1>1, <1>2 DEF Sound

\* An owner stays, or one user follows another.
LEMMA NothingGained ==
  ASSUME NEW d, NEW c, NEW t \in Felt, NEW u,
         u \in Key <=> d.token[c][t].owner \in Key
  PROVE  Gained(d, c, t, u) = 0
<1>1. t \in Int
  BY FieldAssumption DEF Felt
<1> HIDE DEF Key, Felt
<1> QED
  BY <1>1 DEF Gained

\* A bid is placed: its amount leaves the user's balance.
LEMMA BidPlaced ==
  ASSUME NEW d \in Books, NEW x \in Books, NEW o \in OrderId, NEW row,
         Put(d.order, x.order, o, row), d.order[o] = NoRow, row # NoRow,
         row.bid = TRUE, row.fulfilled = NoRow,
         NEW e \in Contract, row.quote_contract = e,
         NEW q \in Int, row.quote_amount = q,
         NEW u \in Key, NEW v \in Int, v = -q, Credit(d.amount, x.amount, u, e, v),
         NEW c \in Contract
  PROVE  Cash(x, c) + Reserve(x, c) = Cash(d, c) + Reserve(d, c)
<1>1. Cash(x, c) = Cash(d, c) + (IF c = e THEN v ELSE 0) /\ Cash(d, c) \in Int
  <2> HIDE DEF Key, Books
  <2> QED
    BY CashCredited, CashInt
<1>2. /\ Reserve(d, c) \in Int
      /\ Reserve(x, c)
           = Reserve(d, c)
               - (IF o \in OpenRows(d, c) THEN d.order[o].quote_amount ELSE 0)
               + (IF o \in OpenRows(x, c) THEN x.order[o].quote_amount ELSE 0)
  <2> HIDE DEF Key, Books
  <2> QED
    BY ReservePut
<1>3. x.order[o] = row
  BY DEF Put
<1>4. o \notin OpenRows(d, c) /\ (o \in OpenRows(x, c) <=> c = e)
  BY <1>3 DEF OpenRows
<1> HIDE DEF Key, Books
<1> QED
  BY <1>1, <1>2, <1>3, <1>4

\* Order o is a bid of q of e that is open.
OpenBid(d, o, e, q) ==
  /\ d.order[o] # NoRow /\ d.order[o].bid = TRUE /\ d.order[o].fulfilled = NoRow
  /\ d.order[o].quote_contract = e /\ d.order[o].quote_amount = q

\* A bid is closed: its amount goes to the balance of a user.
LEMMA BidClosed ==
  ASSUME NEW d \in Books, NEW x \in Books, NEW o \in OrderId, NEW row,
         Put(d.order, x.order, o, row), row.fulfilled # NoRow,
         NEW e \in Contract, NEW q \in Int, OpenBid(d, o, e, q),
         NEW u \in Key, Credit(d.amount, x.amount, u, e, q),
         NEW c \in Contract
  PROVE  Cash(x, c) + Reserve(x, c) = Cash(d, c) + Reserve(d, c)
<1>1. Cash(x, c) = Cash(d, c) + (IF c = e THEN q ELSE 0) /\ Cash(d, c) \in Int
  <2> HIDE DEF Key, Books
  <2> QED
    BY CashCredited, CashInt
<1>2. /\ Reserve(d, c) \in Int
      /\ Reserve(x, c)
           = Reserve(d, c)
               - (IF o \in OpenRows(d, c) THEN d.order[o].quote_amount ELSE 0)
               + (IF o \in OpenRows(x, c) THEN x.order[o].quote_amount ELSE 0)
  <2> HIDE DEF Key, Books
  <2> QED
    BY ReservePut
<1>3. x.order[o] = row
  BY DEF Put
<1>4. /\ o \notin OpenRows(x, c) /\ (o \in OpenRows(d, c) <=> c = e)
      /\ d.order[o].quote_amount = q
  BY <1>3 DEF OpenRows, OpenBid
<1> HIDE DEF Key, Books
<1> QED
  BY <1>1, <1>2, <1>3, <1>4

\* An ask is placed or closed: no money moves.
LEMMA AskPut ==
  ASSUME NEW d \in Books, NEW x \in Books, NEW o \in OrderId, NEW row,
         Put(d.order, x.order, o, row),
         d.order[o] = NoRow \/ d.order[o].bid # TRUE, row.bid # TRUE,
         x.amount = d.amount, NEW c \in Contract
  PROVE  Cash(x, c) + Reserve(x, c) = Cash(d, c) + Reserve(d, c)
<1>1. /\ Reserve(d, c) \in Int
      /\ Reserve(x, c)
           = Reserve(d, c)
               - (IF o \in OpenRows(d, c) THEN d.order[o].quote_amount ELSE 0)
               + (IF o \in OpenRows(x, c) THEN x.order[o].quote_amount ELSE 0)
  <2> HIDE DEF Key, Books
  <2> QED
    BY ReservePut
<1>2. x.order[o] = row
  BY DEF Put
<1>3. o \notin OpenRows(d, c) /\ o \notin OpenRows(x, c)
  BY <1>2 DEF OpenRows
<1>4. Cash(x, c) = Cash(d, c)
  BY SameMoney
<1> HIDE DEF Key, Books
<1> QED
  BY <1>1, <1>3, <1>4

LEMMA CreateSound ==
  ASSUME NEW d \in Books, Sound(d), NEW tx \in CreateTx, Asserted(d, tx)
  PROVE  Sound(Applied(d, tx))
<1>0. PICK x : x = Applied(d, tx)
  OBVIOUS
<1>1. /\ tx.f = "create_order" /\ tx.order_id \in OrderId /\ tx.user \in Key
      /\ tx.bid \in {ASK, BID} /\ tx.contract \in Contract /\ tx.value \in Felt
      /\ tx.quote_contract \in Contract /\ tx.quote_amount \in Int /\ -tx.quote_amount \in Int
  BY CreateTxFields
<1>2. PICK o, c, t, u, e, q :
        /\ o = tx.order_id /\ c = tx.contract /\ t = tx.value /\ u = tx.user
        /\ e = tx.quote_contract /\ q = tx.quote_amount
  OBVIOUS
<1>3. /\ o \in OrderId /\ c \in Contract /\ t \in Felt /\ u \in Key /\ e \in Contract
      /\ q \in Int /\ -q \in Int
  BY <1>1, <1>2
<1>4. PICK row : row = NewRow(tx)
  OBVIOUS
<1>5. /\ x \in Books
      /\ x.fungible = d.fungible /\ x.flows = d.flows
      /\ Put(d.order, x.order, o, row)
      /\ IF tx.bid = ASK
         THEN /\ x.amount = d.amount
              /\ Shift(d.token, x.token, c, t, d.token[c][t].owner, o)
         ELSE /\ Credit(d.amount, x.amount, u, e, -q)
              /\ Shift(d.token, x.token, c, t, d.token[c][t].owner, d.token[c][t].ask)
  <2> HIDE DEF CreateTx, Books, Key, Felt
  <2> QED
    BY <1>0, <1>2, <1>4, CreateApplied
<1>6. /\ row.bid = (tx.bid = BID) /\ row.quote_contract = e /\ row.quote_amount = q
      /\ row.fulfilled = NoRow
  BY <1>2, <1>4 DEF NewRow
<1>7. d.order[o] = NoRow /\ row # NoRow
  <2>1. row \in OrderRow
    <3> HIDE DEF Key, Felt
    <3> QED
      BY <1>1, <1>4, CreateTxFields DEF OrderRow, NewRow
  <2> QED
    BY <1>1, <1>2, <2>1, NoRowAssumption DEF Asserted
<1>8. PICK w : w = d.token[c][t].owner
  OBVIOUS
<1>9. w # Nobody /\ Gained(d, c, t, w) = 0
  <2>1. w # Nobody
    BY <1>3, <1>8 DEF Sound
  <2> QED
    BY <1>3, <1>8, <2>1, NothingGained
<1>10. CASE tx.bid = ASK
  <2>1. row.bid # TRUE /\ x.amount = d.amount /\ Shift(d.token, x.token, c, t, w, o)
    <3>1. tx.bid # BID
      BY <1>10 DEF ASK, BID
    <3>2. row.bid # TRUE
      BY <1>6, <3>1
    <3> QED
      BY <1>5, <1>8, <1>10, <3>2
  <2>2. \A i \in Contract : Cash(x, i) + Reserve(x, i) = Cash(d, i) + Reserve(d, i)
    <3> HIDE DEF Key, Books
    <3> QED
      BY <1>3, <1>5, <1>7, <2>1, AskPut
  <2>3. Sound(x)
    <3> HIDE DEF Key, Felt, Books, CreateTx
    <3> QED
      BY <1>3, <1>5, <1>9, <2>1, <2>2, TradeSound
  <2> QED
    BY <1>0, <2>3
<1>11. CASE tx.bid # ASK
  <2>1. PICK v, a : v = -q /\ a = d.token[c][t].ask
    OBVIOUS
  <2>2. row.bid = TRUE /\ Credit(d.amount, x.amount, u, e, v) /\ Shift(d.token, x.token, c, t, w, a)
    BY <1>1, <1>5, <1>6, <1>8, <1>11, <2>1
  <2>3. v \in Int
    BY <1>3, <2>1
  <2>4. \A i \in Contract : Cash(x, i) + Reserve(x, i) = Cash(d, i) + Reserve(d, i)
    <3> HIDE DEF Key, Books
    <3> QED
      BY <1>3, <1>5, <1>6, <1>7, <2>1, <2>2, <2>3, BidPlaced
  <2>5. Sound(x)
    <3> HIDE DEF Key, Felt, Books, CreateTx
    <3> QED
      BY <1>3, <1>5, <1>9, <2>2, <2>4, TradeSound
  <2> QED
    BY <1>0, <2>5
<1> QED
  BY <1>10, <1>11

LEMMA FulfillSound ==
  ASSUME NEW d \in Books, Sound(d), NEW tx \in FulfillTx, Asserted(d, tx),
         ~Stuck(d, tx), Fits(d, tx)
  PROVE  Sound(Applied(d, tx))
<1>0. PICK x, ord, o : x = Applied(d, tx) /\ ord = d.order[tx.order_id] /\ o = tx.order_id
  OBVIOUS
<1>1. tx.f = "fulfill_order" /\ o \in OrderId /\ tx.user \in Key
  <2>1. tx.f = "fulfill_order" /\ o \in OrderId /\ tx.user \in User
    BY <1>0 DEF FulfillTx
  <2> QED
    BY <2>1, KeyTyping
<1>2. ord # NoRow
  BY <1>0, <1>1 DEF Asserted
<1>3. PICK c, t, e, q, u, w, row :
        /\ c = ord.contract /\ t = ord.token /\ e = ord.quote_contract
        /\ q = ord.quote_amount /\ u = tx.user /\ w = ord.user
        /\ row = [ord EXCEPT !.fulfilled = TRUE]
  OBVIOUS
<1>4. /\ ord \in OrderRow
      /\ ord.bid \in BOOLEAN /\ w \in Key /\ c \in Contract /\ t \in Felt
      /\ e \in Contract /\ q \in Int /\ u \in Key
  <2> HIDE DEF Key, Felt, Books
  <2> QED
    BY <1>0, <1>1, <1>2, <1>3, OrderRowFields
<1>5. /\ x \in Books /\ x.fungible = d.fungible /\ x.flows = d.flows
      /\ Put(d.order, x.order, o, row)
      /\ Credit(d.amount, x.amount, u, e, q)
      /\ Shift(d.token, x.token, c, t, w, NoRow)
  <2> HIDE DEF Key, Felt, Books, FulfillTx
  <2> QED
    BY <1>0, <1>2, <1>3, FulfillApplied
<1>6. ord.bid = TRUE /\ ord.fulfilled = NoRow /\ w # Nobody /\ d.token[c][t].owner \in Key
  <2>1. ord.bid
    BY <1>0, <1>1 DEF Stuck
  <2>2. ord.bid = TRUE
    BY <1>4, <2>1
  <2> QED
    BY <1>0, <1>1, <1>3, <2>2 DEF Fits
<1>7. row.fulfilled # NoRow
  <2>1. row.fulfilled = TRUE
    BY <1>3, <1>4 DEF OrderRow
  <2> QED
    BY <2>1, MirrorAssumption
<1>8. Gained(d, c, t, w) = 0
  BY <1>4, <1>6, NothingGained
<1>9. d.order[o] = ord
  BY <1>0
<1>10. \A i \in Contract : Cash(x, i) + Reserve(x, i) = Cash(d, i) + Reserve(d, i)
  <2>1. OpenBid(d, o, e, q)
    BY <1>2, <1>3, <1>6, <1>9 DEF OpenBid
  <2> HIDE DEF Key, Books
  <2> QED
    BY <1>1, <1>4, <1>5, <1>7, <2>1, BidClosed
<1>11. Sound(x)
  <2> HIDE DEF Key, Felt, Books, FulfillTx
  <2> QED
    BY <1>4, <1>5, <1>6, <1>8, <1>10, TradeSound
<1> QED
  BY <1>0, <1>11

LEMMA CancelSound ==
  ASSUME NEW d \in Books, Sound(d), NEW tx \in CancelTx, Asserted(d, tx), Fits(d, tx)
  PROVE  Sound(Applied(d, tx))
<1>0. PICK x, ord, o : x = Applied(d, tx) /\ ord = d.order[tx.order_id] /\ o = tx.order_id
  OBVIOUS
<1>1. tx.f = "cancel_order" /\ o \in OrderId
  BY <1>0 DEF CancelTx
<1>2. ord # NoRow
  BY <1>0, <1>1 DEF Asserted
<1>3. PICK c, t, e, q, w, row :
        /\ c = ord.contract /\ t = ord.token /\ e = ord.quote_contract
        /\ q = ord.quote_amount /\ w = ord.user
        /\ row = [ord EXCEPT !.fulfilled = FALSE]
  OBVIOUS
<1>4. /\ ord \in OrderRow
      /\ ord.bid \in BOOLEAN /\ w \in Key /\ c \in Contract /\ t \in Felt
      /\ e \in Contract /\ q \in Int
  <2> HIDE DEF Key, Felt, Books
  <2> QED
    BY <1>0, <1>1, <1>2, <1>3, OrderRowFields
<1>5. /\ x \in Books /\ x.fungible = d.fungible /\ x.flows = d.flows
      /\ Put(d.order, x.order, o, row)
      /\ IF ord.bid
         THEN x.token = d.token /\ Credit(d.amount, x.amount, w, e, q)
         ELSE /\ x.amount = d.amount
              /\ Shift(d.token, x.token, c, t, d.token[c][t].owner, NoRow)
  <2> HIDE DEF Key, Felt, Books, CancelTx
  <2> QED
    BY <1>0, <1>2, <1>3, CancelApplied
<1>6. row.fulfilled = FALSE /\ row.bid = ord.bid
  BY <1>3, <1>4 DEF OrderRow
<1>7. /\ d.order[o] # NoRow /\ d.order[o].bid = ord.bid /\ d.order[o].fulfilled = NoRow
      /\ d.order[o].quote_contract = e /\ d.order[o].quote_amount = q
  BY <1>0, <1>1, <1>2, <1>3 DEF Fits
<1>8. PICK v : v = d.token[c][t].owner
  OBVIOUS
<1>9. v # Nobody /\ Gained(d, c, t, v) = 0
  <2>1. v # Nobody
    BY <1>4, <1>8 DEF Sound
  <2> QED
    BY <1>4, <1>8, <2>1, NothingGained
<1>10. CASE ord.bid
  <2>1. ord.bid = TRUE /\ row.fulfilled # NoRow
    BY <1>4, <1>6, <1>10, MirrorAssumption
  <2>2. OpenBid(d, o, e, q)
    BY <1>7, <2>1 DEF OpenBid
  <2>3. x.token = d.token /\ Credit(d.amount, x.amount, w, e, q)
    BY <1>5, <1>10
  <2>4. \A i \in Contract : Cash(x, i) + Reserve(x, i) = Cash(d, i) + Reserve(d, i)
    <3> HIDE DEF Key, Books
    <3> QED
      BY <1>1, <1>4, <1>5, <1>7, <2>1, <2>2, <2>3, BidClosed
  <2>5. PICK a : a = d.token[c][t].ask
    OBVIOUS
  <2>6. Shift(d.token, x.token, c, t, v, a)
    <3>1. d.token \in [Contract -> [Felt -> TokenRow]]
      BY DEF Books
    <3> QED
      BY <1>8, <2>3, <2>5, <3>1 DEF Shift
  <2>7. Sound(x)
    <3> HIDE DEF Key, Felt, Books, CancelTx
    <3> QED
      BY <1>4, <1>5, <1>9, <2>4, <2>6, TradeSound
  <2> QED
    BY <1>0, <2>7
<1>11. CASE ~ord.bid
  <2>1. row.bid # TRUE /\ d.order[o].bid # TRUE
    BY <1>6, <1>7, <1>11
  <2>2. x.amount = d.amount /\ Shift(d.token, x.token, c, t, v, NoRow)
    BY <1>5, <1>8, <1>11
  <2>3. \A i \in Contract : Cash(x, i) + Reserve(x, i) = Cash(d, i) + Reserve(d, i)
    <3> HIDE DEF Key, Books
    <3> QED
      BY <1>1, <1>5, <2>1, <2>2, AskPut
  <2>4. Sound(x)
    <3> HIDE DEF Key, Felt, Books, CancelTx
    <3> QED
      BY <1>4, <1>5, <1>9, <2>2, <2>3, TradeSound
  <2> QED
    BY <1>0, <2>4
<1> QED
  BY <1>10, <1>11

\* Whatever the interpreter does not stumble over leaves the books balanced.
LEMMA AppliedSound ==
  ASSUME NEW d \in Books, Sound(d), NEW tx \in Txs, Asserted(d, tx), ~Stuck(d, tx),
         Fits(d, tx)
  PROVE  Sound(Applied(d, tx))
<1> HIDE DEF Books, FlowTx, TransferTx, ContractTx, ClientTx, CreateTx, FulfillTx, CancelTx
<1>1. CASE tx \in FlowTx
  BY <1>1, FlowSound
<1>2. CASE tx \in TransferTx
  BY <1>2, TransferSound
<1>3. CASE tx \in ContractTx
  BY <1>3, ContractSound
<1>4. CASE tx \in ClientTx
  BY <1>4, ClientSound
<1>5. CASE tx \in CreateTx
  BY <1>5, CreateSound
<1>6. CASE tx \in FulfillTx
  BY <1>6, FulfillSound
<1>7. CASE tx \in CancelTx
  BY <1>7, CancelSound
<1> QED
  BY <1>1, <1>2, <1>3, <1>4, <1>5, <1>6, <1>7 DEF Txs

-----------------------------------------------------------------------------
(***************************************************************************)
(* What is announced stays announced.                                      *)
(***************************************************************************)
LEMMA AnnouncedStep ==
  ASSUME L2TypeOK, Announced, [Next]_vars
  PROVE  Announced'
<1>1. CASE UNCHANGED toL2
  BY <1>1 DEF Announced
<1>2. ASSUME NEW m \in DOMAIN toL2, toL2' = BagRemove(toL2, m)
      PROVE  Announced'
  BY <1>2, BagDomains DEF Announced, L2TypeOK
<1>3. ASSUME NEW m, toL2' = BagAdd(toL2, m),
             m.type = "register_contract" =>
               \E x \in Registration :
                 m.contract = x.contract /\ m.kind = x.kind /\ m.mint = x.mint,
             m.type = "deposit" => m.user \in Recipient
      PROVE  Announced'
  <2>1. DOMAIN toL2' = DOMAIN toL2 \cup {m}
    BY <1>3, BagDomains DEF L2TypeOK
  <2> QED
    BY <1>3, <2>1 DEF Announced
<1>4. CASE L1Step
  <2>1. ASSUME NEW from \in L1Sender, NEW r \in Registration,
               L1Sends([type |-> "register_contract", from |-> from,
                        contract |-> r.contract, kind |-> r.kind, mint |-> r.mint])
        PROVE  Announced'
    <3>1. PICK m : m = [type |-> "register_contract", from |-> from,
                        contract |-> r.contract, kind |-> r.kind, mint |-> r.mint]
      OBVIOUS
    <3>2. toL2' = BagAdd(toL2, m)
      BY <2>1, <3>1 DEF L1Sends, SendMessageToL2
    <3>3. /\ m.type = "register_contract" /\ m.contract = r.contract
          /\ m.kind = r.kind /\ m.mint = r.mint
      BY <3>1
    <3> QED
      BY <1>3, <3>2, <3>3
  <2>2. ASSUME NEW from \in L1Sender, NEW c \in Contract, NEW v \in Inputs[c],
               NEW u \in Recipient,
               L1Sends([type |-> "deposit", from |-> from, user |-> u,
                        value |-> v, contract |-> c])
        PROVE  Announced'
    <3>1. PICK m : m = [type |-> "deposit", from |-> from, user |-> u,
                        value |-> v, contract |-> c]
      OBVIOUS
    <3>2. toL2' = BagAdd(toL2, m)
      BY <2>2, <3>1 DEF L1Sends, SendMessageToL2
    <3>3. m.type = "deposit" /\ m.user = u
      BY <3>1
    <3> QED
      BY <1>3, <3>2, <3>3
  <2>3. ASSUME NEW m \in DOMAIN toL1, L1Consumes(m) PROVE Announced'
    BY <1>1, <2>3 DEF L1Consumes
  <2> QED
    BY <1>4, <2>1, <2>2, <2>3 DEF L1Step
<1>5. ASSUME NEW m \in DOMAIN toL2, StoreHandler(m) PROVE Announced'
  <2>1. toL2' = BagRemove(toL2, m)
    BY <1>5 DEF StoreHandler, RegisterContract, Deposit, HandleMessageFromL1
  <2> QED
    BY <1>2, <2>1
<1>6. ASSUME NEW sig \in User, Relay(sig) PROVE Announced'
  <2>1. UNCHANGED toL2
    <3>1. \A user, a : RelayRegisterClient(sig, user, a) => UNCHANGED toL2
      BY DEF RelayRegisterClient, RegisterClient
    <3>2. \A user, v, c : RelayMint(sig, user, v, c) => UNCHANGED toL2
      BY DEF RelayMint, Mint
    <3>3. \A user, v, c, a : RelayWithdraw(sig, user, v, c, a) => UNCHANGED toL2
      BY DEF RelayWithdraw, Withdraw
    <3>4. \A from, to, v, c : RelayTransfer(sig, from, to, v, c) => UNCHANGED toL2
      BY DEF RelayTransfer, Transfer
    <3>5. \A o, user, bid, bc, qc, t, q :
            RelayCreateOrder(sig, o, user, bid, bc, t, qc, q) => UNCHANGED toL2
      BY DEF RelayCreateOrder, CreateOrder
    <3>6. \A o, user : RelayFulfillOrder(sig, o, user) => UNCHANGED toL2
      BY DEF RelayFulfillOrder, FulfillOrder
    <3>7. \A o : RelayCancelOrder(sig, o) => UNCHANGED toL2
      BY DEF RelayCancelOrder, CancelOrder
    <3> QED
      BY <1>6, <3>1, <3>2, <3>3, <3>4, <3>5, <3>6, <3>7 DEF Relay
  <2> QED
    BY <1>1, <2>1
<1>7. CASE Interpret \/ Commit \/ Crash \/ UNCHANGED vars
  <2>1. UNCHANGED toL2
    BY <1>7 DEF Interpret, Commit, Crash, vars, l2vars
  <2> QED
    BY <1>1, <2>1
<1> QED
  BY <1>4, <1>5, <1>6, <1>7 DEF Next, Upstream

-----------------------------------------------------------------------------
(***************************************************************************)
(* What the interpreter does with a transaction.                           *)
(***************************************************************************)
LEMMA InterpretCases ==
  ASSUME MTypeOK, Interpret, NEW tx, tx = log[at + 1]
  PROVE  /\ at < Len(log) /\ tx \in Txs
         /\ UNCHANGED <<l2vars, log, db, crashes>>
         /\ \/ /\ session' \in Books /\ at' = at + 1
               /\ skipped < MaxSkips /\ skipped' = skipped + 1
            \/ Restarted /\ skipped' = skipped
            \/ /\ session' \in Books /\ at' = at + 1 /\ Leads(session, tx, session')
               /\ skipped' = skipped
<1>1. at < Len(log) /\ UNCHANGED <<l2vars, log, db, crashes>>
  BY DEF Interpret
<1>2. tx \in Txs
  <2>1. at + 1 \in 1 .. Len(log) /\ log \in Seq(Txs)
    BY <1>1, LenProperties DEF MTypeOK
  <2> HIDE DEF Txs
  <2> QED
    BY <2>1, ElementOfSeq
<1>3. CASE ~Asserted(session, tx)
  BY <1>1, <1>2, <1>3 DEF Interpret
<1>4. CASE Asserted(session, tx) /\ LiftsToken(session, tx)
  <2>1. PICK m \in Metadata : WithMetadata(m, session, tx)
    BY <1>4 DEF Interpret
  <2>3. ~Stuck(session, tx)
    BY <1>4 DEF LiftsToken, Stuck
  <2>4. CASE m = "valid"
    <3>1. session' = Applied(session, tx) /\ at' = at + 1 /\ skipped' = skipped
      BY <1>4, <2>1, <2>4 DEF WithMetadata, Proceed, Applied
    <3>2. session' \in Books
      BY <1>2, <1>4, <3>1, AppliedTyping DEF MTypeOK
    <3>3. Leads(session, tx, session')
      BY <1>4, <2>3, <3>1 DEF Leads
    <3> QED
      BY <1>1, <1>2, <3>1, <3>2, <3>3
  <2>5. CASE m = "partial"
    <3>1. /\ skipped < MaxSkips /\ skipped' = skipped + 1 /\ at' = at + 1
          /\ session' = LiftToken(session, tx.contract, tx.value)
      BY <2>1, <2>5 DEF WithMetadata, Proceed
    <3>2. tx.contract \in Contract /\ tx.value \in Felt
      <4>1. tx \in FlowTx \cup TransferTx \cup CreateTx
        <5>1. tx.f \in {"mint", "withdraw", "deposit", "transfer", "create_order"}
          BY <1>4 DEF LiftsToken
        <5>2. tx \notin ContractTx \cup ClientTx \cup FulfillTx \cup CancelTx
          BY <5>1 DEF ContractTx, ClientTx, FulfillTx, CancelTx
        <5> HIDE DEF FlowTx, TransferTx, CreateTx, ContractTx, ClientTx, FulfillTx, CancelTx
        <5> QED
          BY <1>2, <5>2 DEF Txs
      <4> HIDE DEF FlowTx, TransferTx, CreateTx
      <4> QED
        BY <4>1, FlowTxFields, TransferTxFields, CreateTxFields
    <3>3. session' \in Books
      <4>1. session \in Books
        BY DEF MTypeOK
      <4> HIDE DEF Books, Felt
      <4> QED
        BY <3>1, <3>2, <4>1, LiftTables
    <3> QED
      BY <1>1, <1>2, <3>1, <3>3
  <2>6. CASE m = "unreachable"
    BY <1>1, <1>2, <2>1, <2>6 DEF WithMetadata
  <2> QED
    BY <2>1, <2>4, <2>5, <2>6 DEF WithMetadata
<1>5. CASE Asserted(session, tx) /\ ~LiftsToken(session, tx)
  <2>1. PICK resident \in Resident :
          IF Fails(session, tx, resident) THEN Restarted ELSE Proceed(Handled(session, tx))
    BY <1>5 DEF Interpret
  <2>2. skipped' = skipped
    BY <1>5 DEF Interpret
  <2>3. CASE Fails(session, tx, resident)
    BY <1>1, <1>2, <2>1, <2>2, <2>3
  <2>4. CASE ~Fails(session, tx, resident)
    <3>1. session' = Applied(session, tx) /\ at' = at + 1
      BY <1>5, <2>1, <2>4 DEF Proceed, Applied
    <3>2. session' \in Books
      BY <1>2, <1>5, <3>1, AppliedTyping DEF MTypeOK
    <3>3. ~Stuck(session, tx)
      BY <2>4 DEF Stuck, Fails
    <3>4. Leads(session, tx, session')
      BY <1>5, <3>1, <3>3 DEF Leads
    <3> QED
      BY <1>1, <1>2, <2>2, <3>1, <3>2, <3>4
  <2> QED
    BY <2>3, <2>4
<1> QED
  BY <1>3, <1>4, <1>5

-----------------------------------------------------------------------------
(***************************************************************************)
(* Types.                                                                  *)
(***************************************************************************)
LEMMA LogTyping ==
  ASSUME MTypeOK
  PROVE  /\ Len(log) \in Nat /\ at \in Nat
         /\ \A i \in 1 .. Len(log) : log[i] \in Txs
<1> HIDE DEF Txs
<1>1. log \in Seq(Txs)
  BY DEF MTypeOK
<1>2. Len(log) \in Nat
  BY <1>1, LenProperties
<1>3. \A i \in 1 .. Len(log) : log[i] \in Txs
  BY <1>1, ElementOfSeq
<1> QED
  BY <1>2, <1>3 DEF MTypeOK

LEMMA CommitCuts ==
  ASSUME MTypeOK, Commit
  PROVE  /\ log' \in Seq(Txs) /\ Len(log') = Len(log) - at
         /\ \A i \in 1 .. Len(log) - at : log'[i] = log[i + at]
<1>1. PICK n, m : n = Len(log) /\ m = at + 1
  OBVIOUS
<1>2. n \in Int /\ m \in Int /\ at \in Nat /\ at <= n
  BY <1>1, LogTyping DEF MTypeOK
<1>3. \A i \in m .. n : log[i] \in Txs
  BY <1>1, <1>2, LogTyping
<1>4. log' = SubSeq(log, m, n)
  BY <1>1 DEF Commit
<1> HIDE DEF Txs
<1>5. /\ SubSeq(log, m, n) \in Seq(Txs)
      /\ Len(SubSeq(log, m, n)) = IF m <= n THEN n - m + 1 ELSE 0
      /\ \A i \in 1 .. n - m + 1 : SubSeq(log, m, n)[i] = log[m + i - 1]
  BY <1>2, <1>3, SubSeqProperties
<1>6. n - m + 1 = n - at
  BY <1>1, <1>2
<1>7. \A i \in 1 .. n - at : m + i - 1 = i + at
  BY <1>1, <1>2
<1> QED
  BY <1>1, <1>2, <1>4, <1>5, <1>6, <1>7

LEMMA StoredAppends ==
  ASSUME MTypeOK, NEW tx \in Txs, Stored(tx)
  PROVE  /\ log' \in Seq(Txs) /\ Len(log') = Len(log) + 1
         /\ \A i \in 1 .. Len(log) : log'[i] = log[i]
         /\ log'[Len(log) + 1] = tx
         /\ UNCHANGED <<at, db, session, skipped, crashes>>
<1>1. log \in Seq(Txs)
  BY DEF MTypeOK
<1>2. log' = Append(log, tx) /\ UNCHANGED <<at, db, session, skipped, crashes>>
  BY DEF Stored
<1> HIDE DEF Txs
<1> QED
  BY <1>1, <1>2, AppendProperties

\* The tables before the first transaction
LEMMA OpeningTyping ==
  ASSUME NEW r \in Registered \cup {NoRow}
  PROVE  Opening(r) \in Books
<1>1. PICK f, m, a, b, k, o, e :
        /\ f = [c \in Contract |-> IF c = Ether THEN TRUE
                                   ELSE IF r # NoRow /\ c = r.contract THEN FALSE
                                   ELSE NoRow]
        /\ m = [c \in Contract |-> IF r # NoRow /\ c = r.contract THEN r.mint
                                   ELSE NoRow]
        /\ a = [u \in Key |-> NoRow]
        /\ b = [u \in Key |-> [c \in Contract |-> 0]]
        /\ k = [c \in Contract |-> [t \in Felt |-> NoToken]]
        /\ o = [i \in OrderId |-> NoRow]
        /\ e = EmptyBag
  OBVIOUS
<1>2. Opening(r) = [fungible |-> f, minter |-> m, address |-> a, amount |-> b,
                    token |-> k, order |-> o, flows |-> e]
  BY <1>1 DEF Opening
<1>3. r # NoRow => r.mint \in Key
  BY MirrorAssumption, L2Assumption
<1>4. NoToken \in TokenRow
  <2> HIDE DEF Key
  <2> QED
    BY DEF NoToken, TokenRow
<1>5. EmptyBag \in FlowBags
  <2>1. EmptyBag \in [{} -> Nat \ {0}]
    BY DEF EmptyBag, SetToBag
  <2> QED
    BY <2>1 DEF FlowBags
<1> HIDE DEF Key, Felt, TokenRow, OrderRow, FlowBags, NoToken
<1>6. /\ f \in [Contract -> BOOLEAN \cup {NoRow}]
      /\ m \in [Contract -> Key \cup {NoRow}]
      /\ a \in [Key -> Address \cup {NoRow}]
      /\ b \in [Key -> [Contract -> Int]]
      /\ k \in [Contract -> [Felt -> TokenRow]]
      /\ o \in [OrderId -> OrderRow \cup {NoRow}]
  BY <1>1, <1>3, <1>4
<1> QED
  BY <1>1, <1>2, <1>5, <1>6 DEF Books

LEMMA MTypeInit == Init => MTypeOK
<1> SUFFICES ASSUME Init PROVE MTypeOK
  OBVIOUS
<1> HIDE DEF Txs, Books
<1>1. db \in Books /\ session = db
  BY OpeningTyping DEF Init
<1>2. log \in Seq(Txs) /\ Len(log) = 0
  BY EmptySeq DEF Init
<1>3. at = 0 /\ skipped = 0 /\ crashes = 0
  BY DEF Init
<1>4. MaxSkips \in Nat /\ MaxCrashes \in Nat
  BY MirrorAssumption
<1>5. at \in 0 .. Len(log) /\ skipped \in 0 .. MaxSkips /\ crashes \in 0 .. MaxCrashes
  BY <1>2, <1>3, <1>4
<1> QED
  BY <1>1, <1>2, <1>3, <1>5 DEF MTypeOK

LEMMA MTypeStep ==
  ASSUME MTypeOK, CustodyInv, RegistrationsAgree, Announced, FreshOnly, [Next]_vars
  PROVE  MTypeOK'
<1> HIDE DEF Txs, Books
<1>0. Len(log) \in Nat /\ at \in Nat /\ at <= Len(log)
  BY LogTyping DEF MTypeOK
<1>1. CASE UNCHANGED mirror
  BY <1>1 DEF mirror, MTypeOK
<1>2. CASE Upstream
  <2>1. CASE L1Step /\ UNCHANGED mirror
    BY <1>1, <2>1
  <2>2. ASSUME NEW tx \in Txs, Recorded(tx) PROVE MTypeOK'
    BY <1>0, <2>2, StoredAppends DEF Recorded, MTypeOK
  <2> QED
    BY <1>2, <2>1, <2>2, ExchangeMirrored
<1>3. CASE Interpret
  <2>1. PICK tx : tx = log[at + 1]
    OBVIOUS
  <2>2. /\ at < Len(log) /\ UNCHANGED <<log, db, crashes>>
        /\ session' \in Books /\ at' \in 0 .. Len(log)
        /\ skipped' \in 0 .. MaxSkips
    <3>1. db \in Books /\ skipped \in 0 .. MaxSkips /\ MaxSkips \in Nat
      BY MirrorAssumption DEF MTypeOK
    <3>2. at < Len(log) => at + 1 \in 0 .. Len(log) /\ 0 \in 0 .. Len(log)
      BY <1>0
    <3>3. skipped < MaxSkips => skipped + 1 \in 0 .. MaxSkips
      BY <3>1
    <3> QED
      BY <1>3, <2>1, <3>1, <3>2, <3>3, InterpretCases DEF Restarted
  <2> QED
    BY <2>2 DEF MTypeOK
<1>4. CASE Commit
  <2>1. log' \in Seq(Txs) /\ Len(log') = Len(log) - at
    BY <1>4, CommitCuts
  <2>2. /\ db' = session /\ at' = 0 /\ UNCHANGED <<session, skipped, crashes>>
    BY <1>4 DEF Commit
  <2>3. at' \in 0 .. Len(log')
    BY <1>0, <2>1, <2>2
  <2> QED
    BY <2>1, <2>2, <2>3 DEF MTypeOK
<1>5. CASE Crash
  <2>1. /\ session' = db /\ at' = 0 /\ UNCHANGED <<log, db, skipped>>
        /\ crashes < MaxCrashes /\ crashes' = crashes + 1
    BY <1>5 DEF Crash, Restarted
  <2>2. crashes' \in 0 .. MaxCrashes
    BY <2>1, MirrorAssumption DEF MTypeOK
  <2>3. at' \in 0 .. Len(log)
    BY <1>0, <2>1
  <2> QED
    BY <2>1, <2>2, <2>3 DEF MTypeOK
<1> QED
  BY <1>1, <1>2, <1>3, <1>4, <1>5 DEF Next, vars

-----------------------------------------------------------------------------
(***************************************************************************)
(* The trail.                                                              *)
(***************************************************************************)

\* At the start: L2 is empty, and so are the tables.
LEMMA OpeningReflects ==
  ASSUME L2Init, NEW r \in Registered \cup {NoRow}
  PROVE  Reflects(Opening(r))
<1>1. PICK d : d = Opening(r)
  OBVIOUS
<1>2. /\ d.fungible = [c \in Contract |-> IF c = Ether THEN TRUE
                                         ELSE IF r # NoRow /\ c = r.contract THEN FALSE
                                         ELSE NoRow]
      /\ d.minter = [c \in Contract |-> IF r # NoRow /\ c = r.contract THEN r.mint
                                       ELSE NoRow]
      /\ d.address = [u \in Key |-> NoRow]
      /\ d.amount = [u \in Key |-> [c \in Contract |-> 0]]
      /\ d.token = [c \in Contract |-> [t \in Felt |-> NoToken]]
      /\ d.order = [o \in OrderId |-> NoRow]
  BY <1>1 DEF Opening
<1>3. KnowsContracts(d)
  <2>1. \A c \in Contract : description[c].kind = IF c = Ether THEN KIND_ERC20 ELSE 0
    BY DEF L2Init, StorageInit
  <2>2. ASSUME NEW c \in Contract, c = Ether
        PROVE  d.fungible[c] = TRUE /\ description[c].kind = KIND_ERC20
    BY <1>2, <2>1, <2>2
  <2>3. ASSUME NEW c \in Contract, c # Ether, d.fungible[c] # NoRow
        PROVE  /\ d.fungible[c] = FALSE
               /\ \E s \in Registered : s.contract = c /\ d.minter[c] = s.mint
    <3>1. r # NoRow /\ c = r.contract
      BY <1>2, <2>3
    <3>2. d.fungible[c] = FALSE /\ d.minter[c] = r.mint
      BY <1>2, <2>3, <3>1
    <3> QED
      BY <3>1, <3>2
  <2>4. ASSUME NEW c \in Contract, description[c].kind # 0
        PROVE  /\ d.fungible[c] = (description[c].kind = KIND_ERC20)
               /\ description[c].kind # KIND_ERC721
    <3>1. c = Ether
      BY <2>1, <2>4
    <3>2. d.fungible[c] = TRUE /\ description[c].kind = KIND_ERC20
      BY <2>2, <3>1
    <3>3. (description[c].kind = KIND_ERC20) = TRUE
      BY <3>2
    <3>4. d.fungible[c] = (description[c].kind = KIND_ERC20)
      BY <3>2, <3>3, Zenon
    <3> QED
      BY <3>2, <3>4 DEF KIND_ERC20, KIND_ERC721
  <2>5. \A c \in Contract : description[c].kind = 0 => c # Ether
    BY <2>1 DEF KIND_ERC20
  <2> QED
    BY <2>3, <2>4, <2>5, Zenon DEF KnowsContracts
<1>4. KnowsClients(d)
  BY <1>2 DEF KnowsClients
<1>5. KnowsBalances(d)
  <2> HIDE DEF Key
  <2> QED
    BY <1>2 DEF KnowsBalances, L2Init, StorageInit
<1>6. \A o \in OrderId : order[o].user = Nobody
  BY DEF L2Init, StorageInit, NoOrder
<1>7. KnowsOrders(d)
  BY <1>2, <1>6 DEF KnowsOrders
<1>8. KnowsTokens(d)
  <2>1. ASSUME NEW c \in Contract, NEW t \in Felt PROVE KnowsToken(d, c, t)
    <3>1. owner[c][t] = Nobody
      <4> HIDE DEF Felt
      <4> QED
        BY DEF L2Init, StorageInit
    <3>2. \A o \in OrderId : ~AskFor(o, c, t)
      BY <1>6 DEF AskFor, Open
    <3>3. d.token[c][t] = NoToken
      <4> HIDE DEF Felt, NoToken
      <4> QED
        BY <1>2
    <3>4. d.token[c][t].owner = NoRow /\ d.token[c][t].ask = NoRow
      BY <3>3 DEF NoToken
    <3> QED
      BY <3>1, <3>2, <3>4, MirrorAssumption DEF KnowsToken
  <2> QED
    BY <2>1 DEF KnowsTokens
<1> QED
  BY <1>1, <1>3, <1>4, <1>5, <1>7, <1>8 DEF Reflects

LEMMA NothingCarried == \A B : Carried(B, {}) = 0
<1>1. \A B : [m \in {} |-> B[m] * m.value] \in [{} -> {0}]
  OBVIOUS
<1> QED
  BY <1>1, FS_EmptySet, SumFunctionZero DEF Carried

LEMMA OpeningSound ==
  ASSUME NEW r \in Registered \cup {NoRow}
  PROVE  Sound(Opening(r))
<1>1. PICK d : d = Opening(r)
  OBVIOUS
<1>2. /\ d.amount = [u \in Key |-> [c \in Contract |-> 0]]
      /\ d.token = [c \in Contract |-> [t \in Felt |-> NoToken]]
      /\ d.order = [o \in OrderId |-> NoRow]
      /\ d.flows = EmptyBag
  BY <1>1 DEF Opening
<1>3. DOMAIN d.flows = {}
  BY <1>2 DEF EmptyBag, SetToBag
<1>4. ASSUME NEW c \in Contract, NEW t \in Felt PROVE d.token[c][t].owner = NoRow
  <2>1. d.token[c][t] = NoToken
    <3> HIDE DEF Felt, NoToken
    <3> QED
      BY <1>2
  <2> QED
    BY <2>1 DEF NoToken
<1>5. NoRow \notin Key /\ NoRow # Nobody
  BY MirrorAssumption, KeyTyping
<1>6. ASSUME NEW c \in Contract PROVE Balanced(d, c)
  <2>1. \A kind : Flowed(d, kind, c) = 0
    <3>1. \A kind : {s \in DOMAIN d.flows : s.type = kind /\ s.contract = c} = {}
      BY <1>3
    <3> QED
      BY <3>1, NothingCarried DEF Flowed
  <2>2. Cash(d, c) = 0
    <3> HIDE DEF Key
    <3>1. [u \in Key |-> d.amount[u][c]] \in [Key -> {0}]
      BY <1>2
    <3> QED
      BY <3>1, FiniteKeys, SumFunctionZero DEF Cash
  <2>3. Reserve(d, c) = 0
    <3>1. OpenRows(d, c) = {}
      BY <1>2 DEF OpenRows
    <3>2. [o \in OpenRows(d, c) |-> d.order[o].quote_amount] \in [{} -> {0}]
      BY <3>1
    <3> QED
      BY <3>2, FS_EmptySet, SumFunctionZero DEF Reserve
  <2>4. Stock(d, c) = 0
    <3>1. HeldTokens(d, c) = {}
      BY <1>4, <1>5 DEF HeldTokens
    <3>2. [t \in HeldTokens(d, c) |-> t] \in [{} -> {0}]
      BY <3>1
    <3> QED
      BY <3>2, FS_EmptySet, SumFunctionZero DEF Stock
  <2>5. Flowed(d, "DEPOSIT", c) = 0 /\ Flowed(d, "WITHDRAWAL", c) = 0
        /\ Flowed(d, "MINT", c) = 0
    BY <2>1
  <2>6. Net(d, c) = 0
    BY <2>5 DEF Net
  <2>7. /\ Cash(d, c) + Reserve(d, c) = Net(d, c)
        /\ Stock(d, c) = Net(d, c) + Flowed(d, "MINT", c)
    BY <2>2, <2>3, <2>4, <2>5, <2>6
  <2> QED
    BY <2>7 DEF Balanced
<1> QED
  BY <1>1, <1>3, <1>4, <1>5, <1>6, FS_EmptySet DEF Sound

\* Tables that agree with L2 on the sides of orders go on to do so, and tables
\* that show what L2 is do.
LEMMA SidesKept ==
  ASSUME NEW d, SidesAgree(d), OrdersStay
  PROVE  SidesAgree(d)'
BY DEF SidesAgree, OrdersStay

LEMMA SidesReflected ==
  ASSUME NEW d
  PROVE  /\ Reflects(d) => SidesAgree(d)
         /\ Reflects(d)' => SidesAgree(d)'
<1>1. ASSUME NEW ord PROVE RowOf(ord).bid = (ord.bid = BID)
  BY Zenon DEF RowOf
<1>2. ASSUME NEW o \in OrderId, KnowsOrders(d), d.order[o] # NoRow
      PROVE  order[o].user # Nobody /\ d.order[o].bid = (order[o].bid = BID)
  <2>1. d.order[o] = IF order[o].user = Nobody THEN NoRow ELSE RowOf(order[o])
    BY <1>2 DEF KnowsOrders
  <2>2. order[o].user # Nobody /\ d.order[o] = RowOf(order[o])
    BY <1>2, <2>1
  <2> QED
    BY <1>1, <2>2, Zenon
<1>3. ASSUME NEW o \in OrderId, KnowsOrders(d)', d.order[o] # NoRow
      PROVE  order'[o].user # Nobody /\ d.order[o].bid = (order'[o].bid = BID)
  <2>1. d.order[o] = IF order'[o].user = Nobody THEN NoRow ELSE RowOf(order'[o])
    BY <1>3 DEF KnowsOrders
  <2>2. order'[o].user # Nobody /\ d.order[o] = RowOf(order'[o])
    BY <1>3, <2>1
  <2> QED
    BY <1>1, <2>2, Zenon
<1> QED
  BY <1>2, <1>3, Zenon DEF Reflects, SidesAgree

LEMMA OrdersStayStep ==
  ASSUME L2TypeOK, [Next]_vars
  PROVE  OrdersStay
<1>1. OrdersAdvance
  BY ExchangeIsL2, OrdersAdvanceStep DEF BoundedNext, L2Next
<1>2. ASSUME NEW o \in OrderId, order[o].user # Nobody
      PROVE  order'[o].user # Nobody /\ order'[o].bid = order[o].bid
  <2>1. order[o] \in LimitOrder
    BY DEF L2TypeOK
  <2> QED
    BY <1>1, <1>2, <2>1 DEF OrdersAdvance, LimitOrder
<1> QED
  BY <1>2 DEF OrdersStay

\* One transaction more
LEMMA TrailExtends ==
  ASSUME MTypeOK, OrdersStay, NEW tx \in Txs, Recorded(tx),
         NEW k \in Nat, NEW h, Trail(k, h)
  PROVE  \E l \in Nat : \E g : Trail(l, g)'
<1>0. /\ Len(log) \in Nat /\ at \in Nat /\ k \in 0 .. Len(log) /\ at <= k
      /\ h \in [0 .. k -> Books] /\ h[0] = db /\ h[at] = session
      /\ \A i \in 0 .. k : Proper(h[i]) /\ SidesAgree(h[i])
      /\ \A i \in 1 .. k : Leads(h[i - 1], log[i], h[i])
  BY LogTyping DEF Trail
<1>1. /\ Len(log') = Len(log) + 1
      /\ \A i \in 1 .. Len(log) : log'[i] = log[i]
      /\ log'[Len(log) + 1] = tx
      /\ at' = at /\ db' = db /\ session' = session
  BY StoredAppends DEF Recorded
<1> HIDE DEF Txs, Books
<1>6. \A i \in 0 .. k : Proper(h[i]) /\ SidesAgree(h[i])'
  BY <1>0, SidesKept
<1>2. \A i \in 1 .. k : log'[i] = log[i]
  BY <1>0, <1>1
<1>3. \A i \in 1 .. k : Leads(h[i - 1], log'[i], h[i])
  BY <1>0, <1>2
<1>4. CASE k < Len(log) /\ Halts(h[k], log[k + 1])
  <2>1. k < Len(log') /\ k \in 0 .. Len(log') /\ log'[k + 1] = log[k + 1]
    BY <1>0, <1>1, <1>4
  <2>2. Trail(k, h)'
    BY <1>0, <1>1, <1>3, <1>4, <1>6, <2>1 DEF Trail
  <2> QED
    BY <2>2
<1>5. CASE k = Len(log) /\ Reflects(h[k])
  <2>1. h[k] \in Books /\ log'[k + 1] = tx /\ k + 1 = Len(log')
    BY <1>0, <1>1, <1>5
  <2>2. Asserted(h[k], tx) /\ (Stuck(h[k], tx) \/ Shown(h[k], tx))
    BY <1>5, <2>1 DEF Recorded, Mirrored
  <2>3. CASE Stuck(h[k], tx)
    <3>1. k < Len(log') /\ k \in 0 .. Len(log') /\ Halts(h[k], log'[k + 1])
      BY <1>0, <1>1, <1>5, <2>1, <2>2, <2>3 DEF Halts
    <3>2. Trail(k, h)'
      BY <1>0, <1>1, <1>3, <1>6, <3>1 DEF Trail
    <3> QED
      BY <3>2
  <2>4. CASE ~Stuck(h[k], tx)
    <3>1. PICK x \in Books : x = Applied(h[k], tx) /\ Reflects(x)'
      BY <2>2, <2>4 DEF Shown
    <3>2. PICK g : g = [i \in 0 .. k + 1 |-> IF i = k + 1 THEN x ELSE h[i]]
      OBVIOUS
    <3>3. /\ g \in [0 .. k + 1 -> Books] /\ g[k + 1] = x
          /\ \A i \in 0 .. k : g[i] = h[i]
      BY <1>0, <3>1, <3>2
    <3>4. Leads(h[k], tx, x)
      BY <2>2, <2>4, <3>1 DEF Leads
    <3>5. \A i \in 1 .. k + 1 : Leads(g[i - 1], log'[i], g[i])
      <4>1. ASSUME NEW i \in 1 .. k + 1 PROVE Leads(g[i - 1], log'[i], g[i])
        <5>1. CASE i = k + 1
          <6>1. i - 1 = k /\ k \in 0 .. k
            BY <1>0, <5>1
          <6>2. g[i - 1] = h[k] /\ log'[i] = tx /\ g[i] = x
            BY <2>1, <3>3, <5>1, <6>1
          <6> QED
            BY <3>4, <6>2
        <5>2. CASE i # k + 1
          <6>1. i \in 1 .. k /\ i - 1 \in 0 .. k /\ i \in 0 .. k
            BY <1>0, <5>2
          <6>2. g[i - 1] = h[i - 1] /\ g[i] = h[i]
            BY <3>3, <6>1
          <6> QED
            BY <1>3, <6>1, <6>2
        <5> QED
          BY <5>1, <5>2
      <4> QED
        BY <4>1
    <3>6. Proper(x)
      <4>1. ASSUME Nobody \notin Recipient PROVE Sound(x)
        <5>1. Sound(h[k])
          BY <1>0, <4>1 DEF Proper
        <5>2. Fits(h[k], tx)
          BY <1>5, <2>1, <2>4, <4>1, <5>1 DEF Recorded, Fitting
        <5>3. Sound(Applied(h[k], tx))
          BY <2>1, <2>2, <2>4, <5>1, <5>2, AppliedSound
        <5> QED
          BY <3>1, <5>3
      <4> QED
        BY <4>1 DEF Proper
    <3>7. \A i \in 0 .. k + 1 : Proper(g[i]) /\ SidesAgree(g[i])'
      <4>1. SidesAgree(x)'
        BY <3>1, SidesReflected
      <4>2. ASSUME NEW i \in 0 .. k + 1 PROVE Proper(g[i]) /\ SidesAgree(g[i])'
        <5>1. i = k + 1 \/ i \in 0 .. k
          BY <1>0
        <5> QED
          BY <1>6, <3>3, <3>6, <4>1, <5>1
      <4> QED
        BY <4>2
    <3>8. /\ k + 1 \in 0 .. Len(log') /\ at' <= k + 1 /\ k + 1 \in Nat
          /\ 0 \in 0 .. k /\ at \in 0 .. k
      BY <1>0, <1>1, <2>1
    <3>9. g[0] = db' /\ g[at'] = session'
      BY <1>0, <1>1, <3>3, <3>8
    <3>10. Reflects(g[k + 1])'
      BY <3>1, <3>3
    <3>11. Trail(k + 1, g)'
      BY <2>1, <3>3, <3>5, <3>7, <3>8, <3>9, <3>10 DEF Trail
    <3> QED
      BY <3>8, <3>11
  <2> QED
    BY <2>3, <2>4
<1> QED
  BY <1>4, <1>5 DEF Trail

\* What L1 does leaves the trail.
LEMMA TrailKept ==
  ASSUME NEW k \in Nat, NEW h, Trail(k, h), UNCHANGED mirror, UNCHANGED storage
  PROVE  Trail(k, h)'
<1>1. UNCHANGED <<log, at, db, session>>
  BY DEF mirror
<1>2. Reflects(h[k]) => Reflects(h[k])'
  BY ReflectsKept DEF storage
<1>3. \A i \in 0 .. k : SidesAgree(h[i])'
  BY SidesKept DEF Trail, OrdersStay, storage
<1> QED
  BY <1>1, <1>2, <1>3 DEF Trail

\* What the next step of the trail is
LEMMA TrailLeads ==
  ASSUME MTypeOK, NEW k \in Nat, NEW h, Trail(k, h), at < k
  PROVE  Leads(session, log[at + 1], h[at + 1])
<1>1. /\ at \in Nat /\ h[at] = session
      /\ \A i \in 1 .. k : Leads(h[i - 1], log[i], h[i])
  BY LogTyping DEF Trail
<1>2. at + 1 \in 1 .. k /\ (at + 1) - 1 = at
  BY <1>1
<1>3. Leads(h[(at + 1) - 1], log[at + 1], h[at + 1])
  BY <1>1, <1>2
<1> QED
  BY <1>1, <1>2, <1>3

\* The session goes on along the trail, or starts again.
LEMMA TrailInterpreted ==
  ASSUME MTypeOK, Interpret, NEW k \in Nat, NEW h, Trail(k, h), skipped' = skipped
  PROVE  Trail(k, h)'
<1>0. /\ Len(log) \in Nat /\ at \in Nat /\ k \in 0 .. Len(log) /\ at <= k
      /\ h \in [0 .. k -> Books] /\ h[0] = db /\ h[at] = session
      /\ \A i \in 0 .. k : Proper(h[i]) /\ SidesAgree(h[i])
      /\ \A i \in 1 .. k : Leads(h[i - 1], log[i], h[i])
  BY LogTyping DEF Trail
<1>1. PICK tx : tx = log[at + 1]
  OBVIOUS
<1>2. /\ at < Len(log) /\ UNCHANGED <<l2vars, log, db>>
      /\ \/ skipped' = skipped + 1
         \/ Restarted
         \/ at' = at + 1 /\ Leads(session, tx, session')
  BY <1>1, InterpretCases
<1>3. skipped' # skipped + 1
  BY MirrorAssumption DEF MTypeOK
<1> HIDE DEF Books
<1>4. at = k => Halts(session, tx)
  <2>1. at = k => k < Len(log)
    BY <1>0, <1>2
  <2> QED
    BY <1>0, <1>1, <2>1 DEF Trail
<1>5. at < k => Leads(session, tx, h[at + 1])
  BY <1>0, <1>1, TrailLeads
<1>6. at < k \/ at = k
  BY <1>0
<1>7. UNCHANGED <<description, client, balance, owner, order>>
  BY <1>2 DEF l2vars, storage
<1>8. /\ Reflects(h[k]) => Reflects(h[k])'
      /\ \A i \in 0 .. k : SidesAgree(h[i])'
  BY <1>0, <1>7, ReflectsKept, SidesKept DEF OrdersStay
<1>9. CASE Restarted
  <2>1. at' = 0 /\ session' = db
    BY <1>9 DEF Restarted
  <2> QED
    BY <1>0, <1>2, <1>8, <2>1 DEF Trail
<1>10. CASE at' = at + 1 /\ Leads(session, tx, session')
  <2>1. at < k
    BY <1>4, <1>6, <1>10 DEF Halts, Leads
  <2>2. session' = h[at + 1]
    BY <1>5, <1>10, <2>1 DEF Leads
  <2>3. at' <= k
    BY <1>0, <1>10, <2>1
  <2> QED
    BY <1>0, <1>2, <1>8, <1>10, <2>2, <2>3 DEF Trail
<1> QED
  BY <1>2, <1>3, <1>9, <1>10

\* The trail starts where the session is.
LEMMA TrailCommitted ==
  ASSUME MTypeOK, Commit, NEW k \in Nat, NEW h, Trail(k, h)
  PROVE  \E l \in Nat : \E g : Trail(l, g)'
<1>0. /\ Len(log) \in Nat /\ at \in Nat /\ k \in 0 .. Len(log) /\ at <= k
      /\ h \in [0 .. k -> Books] /\ h[0] = db /\ h[at] = session
      /\ \A i \in 0 .. k : Proper(h[i]) /\ SidesAgree(h[i])
      /\ \A i \in 1 .. k : Leads(h[i - 1], log[i], h[i])
  BY LogTyping DEF Trail
<1>1. /\ Len(log') = Len(log) - at
      /\ \A i \in 1 .. Len(log) - at : log'[i] = log[i + at]
      /\ at' = 0 /\ db' = session /\ session' = session /\ UNCHANGED l2vars
  BY CommitCuts DEF Commit
<1>2. PICK l, g : l = k - at /\ g = [i \in 0 .. k - at |-> h[i + at]]
  OBVIOUS
<1> HIDE DEF Books
<1>3. /\ l \in Nat /\ l \in 0 .. Len(log') /\ at' <= l
      /\ \A i \in 0 .. l : i + at \in 0 .. k
      /\ \A i \in 1 .. l : /\ i + at \in 1 .. k /\ i \in 1 .. Len(log) - at
                           /\ i - 1 \in 0 .. l /\ i \in 0 .. l
                           /\ (i - 1) + at = (i + at) - 1
      /\ 0 \in 0 .. l /\ l \in 0 .. l /\ 0 + at = at /\ l + at = k
  BY <1>0, <1>1, <1>2
<1>4. g \in [0 .. l -> Books] /\ \A i \in 0 .. l : g[i] = h[i + at]
  BY <1>0, <1>2, <1>3
<1>5. g[0] = session /\ g[l] = h[k]
  BY <1>0, <1>3, <1>4
<1>6. \A i \in 0 .. l : Proper(g[i]) /\ SidesAgree(g[i])'
  <2>1. OrdersStay
    BY <1>1 DEF OrdersStay, l2vars, storage
  <2>2. ASSUME NEW i \in 0 .. l PROVE Proper(g[i]) /\ SidesAgree(g[i])
    BY <1>0, <1>3, <1>4
  <2> QED
    BY <2>1, <2>2, SidesKept
<1>7. \A i \in 1 .. l : Leads(g[i - 1], log'[i], g[i])
  <2>1. ASSUME NEW i \in 1 .. l PROVE Leads(g[i - 1], log'[i], g[i])
    <3>1. PICK j : j = i + at
      OBVIOUS
    <3>2. j \in 1 .. k /\ g[i - 1] = h[j - 1] /\ g[i] = h[j] /\ log'[i] = log[j]
      <4>1. g[i - 1] = h[(i - 1) + at]
        BY <1>3, <1>4
      <4> QED
        BY <1>1, <1>3, <1>4, <3>1, <4>1
    <3> QED
      BY <1>0, <3>2
  <2> QED
    BY <2>1
<1>8. \/ l = Len(log') /\ Reflects(g[l])'
      \/ l < Len(log') /\ Halts(g[l], log'[l + 1])
  <2>1. CASE k = Len(log) /\ Reflects(h[k])
    <3>1. UNCHANGED <<description, client, balance, owner, order>>
      BY <1>1 DEF l2vars, storage
    <3>2. Reflects(h[k])'
      BY <2>1, <3>1, ReflectsKept
    <3>3. l = Len(log')
      BY <1>0, <1>1, <1>2, <2>1
    <3> QED
      BY <1>5, <3>2, <3>3
  <2>2. CASE k < Len(log) /\ Halts(h[k], log[k + 1])
    <3>1. l < Len(log') /\ l + 1 \in 1 .. Len(log) - at /\ (l + 1) + at = k + 1
      BY <1>0, <1>1, <1>2, <2>2
    <3>2. log'[l + 1] = log[k + 1]
      BY <1>1, <3>1
    <3> QED
      BY <1>5, <2>2, <3>1, <3>2
  <2> QED
    BY <2>1, <2>2 DEF Trail
<1>9. Trail(l, g)'
  BY <1>1, <1>3, <1>4, <1>5, <1>6, <1>7, <1>8 DEF Trail
<1> QED
  BY <1>3, <1>9

LEMMA FollowsInit == Init => Follows
<1> SUFFICES ASSUME Init PROVE Follows
  OBVIOUS
<1>1. PICK r \in Registered \cup {NoRow} : db = Opening(r)
  BY DEF Init
<1>2. Reflects(db) /\ Sound(db) /\ db \in Books
  BY <1>1, OpeningReflects, OpeningSound, OpeningTyping DEF Init
<1>3. Len(log) = 0 /\ at = 0 /\ session = db
  BY DEF Init
<1>4. PICK h : h = [i \in 0 .. 0 |-> db]
  OBVIOUS
<1> HIDE DEF Books
<1>5. h \in [0 .. 0 -> Books] /\ h[0] = db /\ \A i \in 0 .. 0 : h[i] = db
  BY <1>2, <1>4
<1>6. Trail(0, h)
  <2>1. \A i \in 0 .. 0 : Proper(h[i]) /\ SidesAgree(h[i])
    BY <1>2, <1>5, SidesReflected DEF Proper
  <2>2. \A i \in 1 .. 0 : Leads(h[i - 1], log[i], h[i])
    OBVIOUS
  <2> QED
    BY <1>2, <1>3, <1>5, <2>1, <2>2 DEF Trail
<1> QED
  BY <1>3, <1>6 DEF Follows

LEMMA FollowsStep ==
  ASSUME MTypeOK, CustodyInv, RegistrationsAgree, Announced, FreshOnly, Follows,
         [Next]_vars
  PROVE  Follows'
<1>1. CASE UNCHANGED <<mirror, storage>>
  <2>1. ASSUME skipped = 0 PROVE Follows'
    <3>1. PICK k, h : k \in Nat /\ Trail(k, h)
      BY <2>1 DEF Follows
    <3>2. Trail(k, h)'
      BY <1>1, <3>1, TrailKept
    <3> QED
      BY <1>1, <2>1, <3>1, <3>2 DEF Follows, mirror
  <2> QED
    BY <1>1, <2>1 DEF Follows, mirror
<1>2. CASE Upstream
  <2>1. CASE L1Step /\ UNCHANGED mirror
    BY <1>1, <2>1, L1StepKeeps
  <2>2. ASSUME NEW tx \in Txs, Recorded(tx) PROVE Follows'
    <3>1. skipped' = skipped
      BY <2>2, StoredAppends DEF Recorded
    <3>2. ASSUME skipped = 0 PROVE \E l \in Nat : \E g : Trail(l, g)'
      <4>1. PICK k, h : k \in Nat /\ Trail(k, h)
        BY <3>2 DEF Follows
      <4>2. OrdersStay
        BY OrdersStayStep DEF CustodyInv, BoundedInv
      <4> HIDE DEF Txs
      <4> QED
        BY <2>2, <4>1, <4>2, TrailExtends
    <3> QED
      BY <3>1, <3>2 DEF Follows
  <2> QED
    BY <1>2, <2>1, <2>2, ExchangeMirrored
<1>3. CASE Interpret
  <2>1. PICK tx : tx = log[at + 1]
    OBVIOUS
  <2>2. skipped' = skipped \/ skipped' = skipped + 1
    BY <1>3, <2>1, InterpretCases
  <2>3. skipped \in Nat
    BY MirrorAssumption DEF MTypeOK
  <2>4. CASE skipped' # 0
    BY <2>4 DEF Follows
  <2>5. CASE skipped' = 0
    <3>1. skipped = 0 /\ skipped' = skipped
      BY <2>2, <2>3, <2>5
    <3>2. PICK k, h : k \in Nat /\ Trail(k, h)
      BY <3>1 DEF Follows
    <3>3. Trail(k, h)'
      BY <1>3, <3>1, <3>2, TrailInterpreted
    <3> QED
      BY <3>2, <3>3 DEF Follows
  <2> QED
    BY <2>4, <2>5
<1>4. CASE Commit
  <2>1. skipped' = skipped
    BY <1>4 DEF Commit
  <2>2. ASSUME skipped = 0 PROVE \E l \in Nat : \E g : Trail(l, g)'
    <3>1. PICK k, h : k \in Nat /\ Trail(k, h)
      BY <2>2 DEF Follows
    <3> QED
      BY <1>4, <3>1, TrailCommitted
  <2> QED
    BY <2>1, <2>2 DEF Follows
<1>5. CASE Crash
  <2>1. skipped' = skipped /\ UNCHANGED <<l2vars, log, db>>
        /\ session' = db /\ at' = 0
    BY <1>5 DEF Crash, Restarted
  <2>2. ASSUME skipped = 0 PROVE \E l \in Nat : \E g : Trail(l, g)'
    <3>1. PICK k, h : k \in Nat /\ Trail(k, h)
      BY <2>2 DEF Follows
    <3>2. Reflects(h[k]) => Reflects(h[k])'
      BY <2>1, ReflectsKept DEF l2vars, storage
    <3>3. 0 <= k
      BY <3>1
    <3>4. \A i \in 0 .. k : SidesAgree(h[i])'
      BY <2>1, <3>1, SidesKept DEF Trail, OrdersStay, l2vars, storage
    <3>5. Trail(k, h)'
      BY <2>1, <3>1, <3>2, <3>3, <3>4 DEF Trail
    <3> QED
      BY <3>1, <3>5
  <2> QED
    BY <2>1, <2>2 DEF Follows
<1>6. CASE UNCHANGED vars
  BY <1>1, <1>6 DEF vars, l2vars
<1> QED
  BY <1>2, <1>3, <1>4, <1>5, <1>6 DEF Next

-----------------------------------------------------------------------------
(***************************************************************************)
(* What follows from the trail.                                            *)
(***************************************************************************)
\* The fields of the tables
LEMMA TablesOf ==
  ASSUME NEW d \in Books
  PROVE  [f \in DOMAIN d \ {"flows"} |-> d[f]] \in Tables /\ IsABag(d.flows)
<1>1. PICK x : x = [f \in DOMAIN d \ {"flows"} |-> d[f]]
  OBVIOUS
<1> HIDE DEF Key, Felt, TokenRow, OrderRow, FlowBags
<1>2. DOMAIN d = {"fungible", "minter", "address", "amount", "token", "order", "flows"}
  BY DEF Books
<1>3. DOMAIN x = {"fungible", "minter", "address", "amount", "token", "order"}
  BY <1>1, <1>2
<1>4. /\ d.fungible \in [Contract -> BOOLEAN \cup {NoRow}]
      /\ d.minter \in [Contract -> Key \cup {NoRow}]
      /\ d.address \in [Key -> Address \cup {NoRow}]
      /\ d.amount \in [Key -> [Contract -> Int]]
      /\ d.token \in [Contract -> [Felt -> TokenRow]]
      /\ d.order \in [OrderId -> OrderRow \cup {NoRow}]
      /\ d.flows \in FlowBags
  BY DEF Books
<1>5. x = [fungible |-> d.fungible, minter |-> d.minter, address |-> d.address,
           amount |-> d.amount, token |-> d.token, order |-> d.order]
  BY <1>1, <1>2, <1>3
<1>6. x \in Tables
  BY <1>4, <1>5 DEF Tables
<1>7. IsABag(d.flows)
  <2>1. PICK S \in SUBSET FlowRow : d.flows \in [S -> Nat \ {0}]
    BY <1>4 DEF FlowBags
  <2> QED
    BY <2>1 DEF IsABag
<1> QED
  BY <1>1, <1>6, <1>7

LEMMA MirrorTyping ==
  ASSUME MTypeOK PROVE MirrorTypeOK
<1>1. db \in Books /\ session \in Books
  BY DEF MTypeOK
<1> HIDE DEF Books, Tables
<1> QED
  BY <1>1, TablesOf DEF MTypeOK, MirrorTypeOK

LEMMA CaughtUpReflects ==
  ASSUME MTypeOK, Follows, CaughtUp
  PROVE  Reflects(db)
<1>1. log = <<>> /\ skipped = 0
  BY DEF CaughtUp
<1>2. Len(log) = 0
  BY <1>1
<1>3. PICK k, h : k \in Nat /\ Trail(k, h)
  BY <1>1 DEF Follows
<1>4. k = 0
  BY <1>2, <1>3 DEF Trail
<1> QED
  BY <1>2, <1>3, <1>4 DEF Trail

\* The token that the mirror shows to its owner is the one that L2 knows.
LEMMA TokenShown ==
  ASSUME NEW d \in Books, Reflects(d), NEW c \in Contract, NEW t \in Felt, NEW u \in User
  PROVE  d.token[c][t].owner = u <=> Title(c, t) = u
<1>1. KnowsToken(d, c, t)
  BY DEF Reflects, KnowsTokens
<1>2. u # Nobody /\ u # NoRow
  BY KeyTyping, L2Assumption, MirrorAssumption
<1>3. CASE owner[c][t] # Nobody
  BY <1>1, <1>3 DEF KnowsToken, Title
<1>4. CASE owner[c][t] = Nobody /\ InEscrow(c, t)
  <2>1. PICK o : o = CHOOSE p \in OrderId : AskFor(p, c, t)
    OBVIOUS
  <2>2. o \in OrderId /\ AskFor(o, c, t)
    BY <1>4, <2>1 DEF InEscrow
  <2>3. Title(c, t) = order[o].user
    BY <1>4, <2>1 DEF Title
  <2> QED
    BY <1>1, <2>2, <2>3 DEF KnowsToken
<1>5. CASE owner[c][t] = Nobody /\ ~InEscrow(c, t)
  <2>1. Title(c, t) = Nobody
    BY <1>5 DEF Title
  <2>2. d.token[c][t].owner \in {Nobody, NoRow}
    BY <1>1, <1>5 DEF KnowsToken
  <2> QED
    BY <1>2, <2>1, <2>2
<1> QED
  BY <1>3, <1>4, <1>5

StateOf(s) == CASE s = NoRow -> STATE_NEW
                [] s = TRUE -> STATE_FULFILLED
                [] s = FALSE -> STATE_CANCELLED

\* The tables list order o; L2 would.
Listed(d, o, u, bid, s) ==
  d.order[o] # NoRow /\ d.order[o].user = u /\ d.order[o].bid = bid
    /\ d.order[o].fulfilled = s

Listable(o, u, bid, s) ==
  order[o].user = u /\ (order[o].bid = BID) = bid /\ order[o].state = StateOf(s)

\* The orders that the tables list are those of L2.
LEMMA OrderListed ==
  ASSUME L2TypeOK, NEW d \in Books, Reflects(d), NEW o \in OrderId, NEW u \in User,
         NEW bid \in BOOLEAN, NEW s \in {NoRow, TRUE, FALSE}
  PROVE  Listed(d, o, u, bid, s) <=> Listable(o, u, bid, s)
<1>1. PICK ord, row : ord = order[o] /\ row = d.order[o]
  OBVIOUS
<1>2. ord \in LimitOrder
  BY <1>1 DEF L2TypeOK
<1>3. row = IF ord.user = Nobody THEN NoRow ELSE RowOf(ord)
  BY <1>1 DEF Reflects, KnowsOrders
<1>4. u # Nobody
  BY KeyTyping, L2Assumption
<1>5. CASE ord.user = Nobody
  BY <1>1, <1>3, <1>4, <1>5 DEF Listed, Listable
<1>6. CASE ord.user # Nobody
  <2>1. row = RowOf(ord)
    BY <1>3, <1>6
  <2>2. row # NoRow
    <3>1. d.order[o] \in OrderRow \cup {NoRow}
      <4> HIDE DEF OrderRow
      <4> QED
        BY DEF Books
    <3>2. RowOf(ord) \in OrderRow
      <4>1. /\ ord.user \in Key /\ ord.base_contract \in Contract
            /\ ord.base_token_id \in Felt /\ ord.quote_contract \in Contract
            /\ ord.quote_amount \in Felt
        <5> HIDE DEF Key, Felt
        <5> QED
          BY <1>2 DEF LimitOrder
      <4> HIDE DEF Key, Felt
      <4> QED
        BY <4>1 DEF RowOf, OrderRow
    <3> QED
      BY <2>1, <3>2, NoRowAssumption
  <2>3. /\ row.user = ord.user
        /\ row.bid = (ord.bid = BID)
        /\ row.fulfilled = IF ord.state = STATE_NEW THEN NoRow
                           ELSE ord.state = STATE_FULFILLED
    BY <2>1 DEF RowOf
  <2>4. ord.state \in {STATE_NEW, STATE_FULFILLED, STATE_CANCELLED}
    <3> HIDE DEF Key, Felt
    <3> QED
      BY <1>2 DEF LimitOrder
  <2>5. /\ ord.state = STATE_NEW => row.fulfilled = NoRow
        /\ ord.state = STATE_FULFILLED => row.fulfilled = TRUE
        /\ ord.state = STATE_CANCELLED => row.fulfilled = FALSE
    <3>1. ord.state = STATE_NEW => row.fulfilled = NoRow
      BY <2>3, Zenon
    <3>2. ord.state # STATE_NEW => row.fulfilled = (ord.state = STATE_FULFILLED)
      BY <2>3, Zenon
    <3>3. ASSUME ord.state = STATE_FULFILLED PROVE row.fulfilled = TRUE
      <4>1. ord.state # STATE_NEW
        BY <3>3 DEF STATE_NEW, STATE_FULFILLED
      <4>2. (ord.state = STATE_FULFILLED) = TRUE
        BY <3>3
      <4> QED
        BY <3>2, <4>1, <4>2, Zenon
    <3>4. ASSUME ord.state = STATE_CANCELLED PROVE row.fulfilled = FALSE
      <4>1. ord.state # STATE_NEW /\ ord.state # STATE_FULFILLED
        BY <3>4 DEF STATE_NEW, STATE_FULFILLED, STATE_CANCELLED
      <4>2. (ord.state = STATE_FULFILLED) = FALSE
        BY <4>1
      <4> QED
        BY <3>2, <4>1, <4>2, Zenon
    <3> QED
      BY <3>1, <3>3, <3>4
  <2>6. NoRow # TRUE /\ NoRow # FALSE
    BY MirrorAssumption
  <2>7. /\ s = NoRow => StateOf(s) = STATE_NEW
        /\ s = TRUE => StateOf(s) = STATE_FULFILLED
        /\ s = FALSE => StateOf(s) = STATE_CANCELLED
    BY <2>6 DEF StateOf
  <2>8. row.fulfilled = s <=> ord.state = StateOf(s)
    <3>1. CASE s = NoRow
      BY <2>4, <2>5, <2>6, <2>7, <3>1 DEF STATE_NEW, STATE_FULFILLED, STATE_CANCELLED
    <3>2. CASE s = TRUE
      BY <2>4, <2>5, <2>6, <2>7, <3>2 DEF STATE_NEW, STATE_FULFILLED, STATE_CANCELLED
    <3>3. CASE s = FALSE
      BY <2>4, <2>5, <2>6, <2>7, <3>3 DEF STATE_NEW, STATE_FULFILLED, STATE_CANCELLED
    <3> QED
      BY <3>1, <3>2, <3>3
  <2> QED
    BY <1>1, <2>2, <2>3, <2>8 DEF Listed, Listable
<1> QED
  BY <1>5, <1>6

LEMMA MirrorFollows ==
  ASSUME L2TypeOK, MTypeOK, Follows
  PROVE  MirrorInv
<1>1. MirrorTypeOK
  BY MirrorTyping
<1>2. ASSUME CaughtUp PROVE Reflects(db) /\ db \in Books
  BY <1>2, CaughtUpReflects DEF MTypeOK
<1> HIDE DEF Books, Key, Felt
<1>3. WarmBalances
  BY <1>2 DEF WarmBalances, GetBalance, Reflects, KnowsBalances
<1>4. WarmTokens
  <2> SUFFICES ASSUME CaughtUp
               PROVE  /\ \A u \in User : FindTokens(u) = {ct \in Contract \X Felt :
                                                            Title(ct[1], ct[2]) = u}
                      /\ \A c \in Contract, t \in Felt :
                           GetAsk(c, t) = {o \in OrderId : AskFor(o, c, t)}
    BY DEF WarmTokens
  <2>1. ASSUME NEW u \in User, NEW ct \in Contract \X Felt
        PROVE  db.token[ct[1]][ct[2]].owner = u <=> Title(ct[1], ct[2]) = u
    BY <1>2, TokenShown
  <2>2. ASSUME NEW c \in Contract, NEW t \in Felt, NEW o \in OrderId
        PROVE  db.token[c][t].ask = o <=> AskFor(o, c, t)
    BY <1>2 DEF Reflects, KnowsTokens, KnowsToken
  <2> QED
    BY <2>1, <2>2 DEF FindTokens, GetAsk
<1>5. WarmOrders
  <2> SUFFICES ASSUME CaughtUp, NEW u \in User, NEW bid \in BOOLEAN,
                      NEW s \in {NoRow, TRUE, FALSE}
               PROVE  FindOrders(u, bid, s) =
                        {o \in OrderId :
                           /\ order[o].user = u
                           /\ (order[o].bid = BID) = bid
                           /\ order[o].state = CASE s = NoRow -> STATE_NEW
                                                 [] s = TRUE -> STATE_FULFILLED
                                                 [] s = FALSE -> STATE_CANCELLED}
    BY DEF WarmOrders
  <2>1. ASSUME NEW o \in OrderId
        PROVE  Listed(db, o, u, bid, s) <=> Listable(o, u, bid, s)
    BY <1>2, OrderListed
  <2> QED
    BY <2>1 DEF FindOrders, Listed, Listable, StateOf
<1>6. WarmClients
  BY <1>2, MirrorAssumption DEF WarmClients, GetClient, Reflects, KnowsClients
<1> QED
  BY <1>1, <1>3, <1>4, <1>5, <1>6 DEF MirrorInv

\* The rows that OpenBidsIn and TokensOf list are those that the books count.
LEMMA BooksFollow ==
  ASSUME MTypeOK, Follows, Nobody \notin Recipient
  PROVE  BooksBalance
<1> SUFFICES ASSUME skipped = 0, NEW c \in Contract
             PROVE  IF db.fungible[c] = TRUE
                    THEN SumFunction([u \in Key |-> GetBalance(u, c)])
                           + SumFunction([o \in OpenBidsIn(c) |-> db.order[o].quote_amount])
                         = FindDeposits(c) - FindWithdrawals(c)
                    ELSE SumFunction([t \in TokensOf(c) |-> t])
                         = FindDeposits(c) + FindMints(c) - FindWithdrawals(c)
  BY DEF BooksBalance
<1>1. db \in Books
  BY DEF MTypeOK
<1>2. Balanced(db, c) /\ IsFiniteSet(DOMAIN db.flows)
  <2>1. PICK k, h : k \in Nat /\ Trail(k, h)
    BY DEF Follows
  <2>2. Proper(h[0]) /\ h[0] = db
    BY <2>1 DEF Trail
  <2> QED
    BY <2>2 DEF Proper, Sound
<1>3. OpenBidsIn(c) = OpenRows(db, c)
  <2>1. \A o \in OrderId : db.order[o] # NoRow => db.order[o].user \in Key
    <3> HIDE DEF Books, Key
    <3> QED
      BY <1>1, OrderRowFields
  <2> HIDE DEF Key
  <2> QED
    BY <2>1 DEF OpenBidsIn, FindOrders, OpenRows
<1>4. TokensOf(c) = HeldTokens(db, c)
  BY DEF TokensOf, FindTokens, HeldTokens
<1>5. /\ FindDeposits(c) = Flowed(db, "DEPOSIT", c)
      /\ FindWithdrawals(c) = Flowed(db, "WITHDRAWAL", c)
      /\ FindMints(c) = Flowed(db, "MINT", c)
  BY DEF FindDeposits, FindWithdrawals, FindMints, Find, Flowed
<1>6. /\ Flowed(db, "DEPOSIT", c) \in Int /\ Flowed(db, "WITHDRAWAL", c) \in Int
      /\ Flowed(db, "MINT", c) \in Int
  <2> HIDE DEF Books
  <2> QED
    BY <1>1, <1>2, FlowedInt
<1>7. SumFunction([u \in Key |-> GetBalance(u, c)]) = Cash(db, c)
  BY DEF Cash, GetBalance
<1>8. SumFunction([o \in OpenBidsIn(c) |-> db.order[o].quote_amount]) = Reserve(db, c)
  BY <1>3 DEF Reserve
<1>9. SumFunction([t \in TokensOf(c) |-> t]) = Stock(db, c)
  BY <1>4 DEF Stock
<1>10. /\ db.fungible[c] # FALSE => Cash(db, c) + Reserve(db, c) = Net(db, c)
       /\ db.fungible[c] # TRUE => Stock(db, c) = Net(db, c) + Flowed(db, "MINT", c)
  BY <1>2 DEF Balanced
<1>13. /\ Net(db, c) = FindDeposits(c) - FindWithdrawals(c)
       /\ Net(db, c) + Flowed(db, "MINT", c)
            = FindDeposits(c) + FindMints(c) - FindWithdrawals(c)
  BY <1>5, <1>6 DEF Net
<1>11. CASE db.fungible[c] = TRUE
  <2>1. db.fungible[c] # FALSE
    BY <1>11
  <2> QED
    BY <1>7, <1>8, <1>10, <1>11, <1>13, <2>1
<1>12. CASE db.fungible[c] # TRUE
  BY <1>9, <1>10, <1>12, <1>13
<1> QED
  BY <1>11, <1>12

-----------------------------------------------------------------------------
(***************************************************************************)
(* The theorems.                                                           *)
(***************************************************************************)

\* The inductive invariant.  Whatever the interpreter has not committed, and as
\* long as it skipped nothing, it can interpret in order, without a failed
\* assertion, from the committed tables to tables that show what L2 is, or to the
\* fulfilment of an ask, over which exec stumbles again and again; the session is
\* somewhere on that way, and so it is after a crash or an unreachable token.
\* It takes for granted that a collection which the gateway knows beforehand is
\* registered on L1 as the gateway knows it.
THEOREM MirrorFaithful ==
  FreshOnly /\ RegistrationsAgree /\ Spec => [](MTypeOK /\ Announced /\ Follows)
<1> SUFFICES ASSUME FreshOnly, RegistrationsAgree
             PROVE  Spec => [](MTypeOK /\ Announced /\ Follows)
  OBVIOUS
<1>1. Init => MTypeOK /\ Announced /\ Follows
  <2>1. Init => Announced
    BY DEF Init, L2Init, CoreInit, Announced, EmptyBag, SetToBag
  <2> QED
    BY <2>1, MTypeInit, FollowsInit
<1>2. MTypeOK /\ Announced /\ Follows /\ CustodyInv /\ [Next]_vars
        => (MTypeOK /\ Announced /\ Follows)'
  BY MTypeStep, AnnouncedStep, FollowsStep DEF CustodyInv, BoundedInv
<1> QED
  BY <1>1, <1>2, CustodySound, PTL DEF Spec

\* The gateway answers warm what L2 answers cold, as soon as the mirror has caught
\* up: balances, tokens, orders and clients.
THEOREM MirrorInvHolds ==
  FreshOnly /\ RegistrationsAgree /\ Spec => []MirrorInv
<1> SUFFICES ASSUME FreshOnly, RegistrationsAgree
             PROVE  Spec => []MirrorInv
  OBVIOUS
<1>1. CustodyInv /\ MTypeOK /\ Announced /\ Follows => MirrorInv
  BY MirrorFollows DEF CustodyInv, BoundedInv
<1> QED
  BY <1>1, CustodySound, MirrorFaithful, PTL

\* The interpreter can interpret the transaction that it stands at, for any
\* contracts, users and orders and any crashes, unless it passed over one, or
\* the transaction settles an ask or cancels a bid.
THEOREM RaisesAtOrdersOnlyHolds ==
  FreshOnly /\ RegistrationsAgree /\ Spec => []RaisesAtOrdersOnly
<1> SUFFICES ASSUME FreshOnly, RegistrationsAgree
             PROVE  Spec => []RaisesAtOrdersOnly
  OBVIOUS
<1>1. CustodyInv /\ MTypeOK /\ Follows => RaisesAtOrdersOnly
  <2> SUFFICES ASSUME CustodyInv, MTypeOK, Follows, at < Len(log), skipped = 0,
                      NEW tx, tx = log[at + 1], NEW resident \in Resident
               PROVE  \/ Asserted(session, tx) /\ ~Fails(session, tx, resident)
                      \/ tx.f = "fulfill_order" /\ order[tx.order_id].bid = ASK
                      \/ /\ tx.f = "cancel_order" /\ order[tx.order_id].bid = BID
                         /\ ~resident
    BY DEF RaisesAtOrdersOnly
  <2>1. PICK k, h : k \in Nat /\ Trail(k, h)
    BY DEF Follows
  <2>2. tx.f \in {"fulfill_order", "cancel_order"} => tx.order_id \in OrderId
    <3>1. at + 1 \in 1 .. Len(log) /\ tx \in Txs
      <4> HIDE DEF Txs
      <4> QED
        BY LogTyping DEF MTypeOK
    <3>2. ASSUME tx.f \in {"fulfill_order", "cancel_order"}
          PROVE  tx \in FulfillTx \cup CancelTx
      <4>1. tx \notin FlowTx \cup TransferTx \cup ContractTx \cup ClientTx \cup CreateTx
        BY <3>2 DEF FlowTx, TransferTx, ContractTx, ClientTx, CreateTx
      <4> HIDE DEF FlowTx, TransferTx, CreateTx, ContractTx, ClientTx, FulfillTx, CancelTx
      <4> QED
        BY <3>1, <4>1 DEF Txs
    <3> QED
      BY <3>2 DEF FulfillTx, CancelTx
  <2>3. \A o \in OrderId : order[o].bid \in {ASK, BID}
    BY DEF CustodyInv, BoundedInv, L2TypeOK, LimitOrder
  <2> HIDE DEF Txs, Books
  <2>4. /\ at \in Nat /\ k \in 0 .. Len(log) /\ at <= k
        /\ h[at] = session /\ SidesAgree(session)
        /\ k = Len(log) \/ Halts(h[k], log[k + 1])
    <3>1. /\ at \in Nat /\ k \in 0 .. Len(log) /\ at <= k /\ h[at] = session
          /\ \A i \in 0 .. k : SidesAgree(h[i])
          /\ k = Len(log) \/ Halts(h[k], log[k + 1])
      BY <2>1, LogTyping DEF Trail
    <3> QED
      BY <3>1
  <2>5. Leads(session, tx, h[at + 1]) \/ Halts(session, tx)
    <3>1. CASE at < k
      BY <2>1, <3>1, TrailLeads
    <3>2. CASE at = k
      BY <2>4, <3>2, LogTyping
    <3> QED
      BY <2>4, <3>1, <3>2, LogTyping
  <2>6. Asserted(session, tx)
    BY <2>5 DEF Leads, Halts
  <2>7. ASSUME Fails(session, tx, resident)
        PROVE  \/ tx.f = "fulfill_order" /\ order[tx.order_id].bid = ASK
               \/ /\ tx.f = "cancel_order" /\ order[tx.order_id].bid = BID
                  /\ ~resident
    <3>1. tx.order_id \in OrderId
      BY <2>2, <2>7 DEF Fails
    <3>2. session.order[tx.order_id] # NoRow
      BY <2>6, <2>7 DEF Asserted, Fails
    <3>3. session.order[tx.order_id].bid = (order[tx.order_id].bid = BID)
      BY <2>4, <3>1, <3>2 DEF SidesAgree
    <3>4. ~(order[tx.order_id].bid = BID) => order[tx.order_id].bid = ASK
      BY <2>3, <3>1
    <3>5. CASE tx.f = "cancel_order" /\ session.order[tx.order_id].bid /\ ~resident
      BY <3>3, <3>5, Zenon
    <3>6. CASE tx.f = "fulfill_order" /\ ~session.order[tx.order_id].bid
      BY <3>3, <3>4, <3>6, Zenon
    <3> QED
      BY <2>7, <3>5, <3>6 DEF Fails
  <2> QED
    BY <2>6, <2>7
<1> QED
  BY <1>1, CustodySound, MirrorFaithful, PTL

\* The lists of deposits, mints and withdrawals explain the books at every commit,
\* if nobody sends anything to the key 0.
THEOREM BooksBalanceHolds ==
  FreshOnly /\ RegistrationsAgree /\ Nobody \notin Recipient /\ Spec => []BooksBalance
<1> SUFFICES ASSUME FreshOnly, RegistrationsAgree, Nobody \notin Recipient
             PROVE  Spec => []BooksBalance
  OBVIOUS
<1>1. MTypeOK /\ Announced /\ Follows => BooksBalance
  BY BooksFollow
<1> QED
  BY <1>1, MirrorFaithful, PTL
==============================================================================
