-------------------------- MODULE CollectionsProofs --------------------------
(***************************************************************************)
(* What the gateway signs for a collection stays good: for any number of   *)
(* requests, contracts, minters, direct registrations and crashes.         *)
(***************************************************************************)
EXTENDS Collections, SequenceTheorems, TLAPS

-----------------------------------------------------------------------------
(***************************************************************************)
(* The inductive invariant.                                                *)
(***************************************************************************)

\* A row refers to a blueprint that is there, and a fungible one to none.
RowsOK ==
  \A c \in Contract : contract[c] # NoRow =>
    /\ contract[c].blueprint \in 0 .. Len(blueprint)
    /\ contract[c].fungible <=> contract[c].blueprint = 0

\* The minter that a request signs for is the one of the blueprint that it has
\* found, and that of the collection as soon as it has one.
SessionOK(r) ==
  LET s == session[r]
      w == Wants[r]
  IN
  /\ s.at = "found" =>
       /\ s.use \in 0 .. Len(blueprint)
       /\ IF s.use = 0 THEN w.minter = w.signer
          ELSE blueprint[s.use].minter = w.signer
       /\ ~s.insert => MinterOf(contract[w.contract]) = w.signer
  /\ s.at = "sign" =>
       /\ s.use \in 1 .. Len(blueprint)
       /\ blueprint[s.use].minter = w.signer
       /\ MinterOf(contract[w.contract]) = w.signer

IssuedOK ==
  issued \subseteq
    [batch : Request, contract : Contract, kind : {KIND_ERC721}, mint : Key]

\* What the interpreter has once refused, the table contradicts for ever.
RaisedOK ==
  \A reg \in raised :
    contract[reg.contract] # NoRow /\ ~Agrees(contract[reg.contract], reg)

LiftedOK == lifted # "idle" => log # <<>>

CInv ==
  /\ CollectionsTypeOK /\ RowsOK /\ IssuedOK /\ SignedForMinter
  /\ RaisedOK /\ LiftedOK
  /\ \A r \in Request : SessionOK(r)

\* What a step may do to the tables: rows are added, a blueprint keeps its
\* minter, a contract that has a row keeps its kind and its minter.
Grows ==
  /\ Len(blueprint') >= Len(blueprint)
  /\ \A i \in 1 .. Len(blueprint) : blueprint'[i] = blueprint[i]
  /\ \A c \in Contract : contract[c] # NoRow =>
       /\ contract'[c] # NoRow
       /\ contract'[c].fungible = contract[c].fungible
       /\ MinterOf(contract[c])' = MinterOf(contract[c])

-----------------------------------------------------------------------------
(***************************************************************************)
(* Lemmas about the tables.                                                *)
(***************************************************************************)

\* What is wanted and what the admin sends.
LEMMA Inputs ==
  /\ \A r \in Request : /\ Wants[r].contract \in Contract
                        /\ Wants[r].signer \in Key
  /\ \A b \in BlueprintInput : b[1] \in PermanentId /\ b[2] \in Key
  /\ Direct \subseteq Registration
  /\ NoRow \notin Key /\ NoRow \notin ContractRow
BY CollectionsAssumption

\* The minter of a row is that of its blueprint; fungible contracts have none.
LEMMA MinterOfRow ==
  ASSUME CollectionsTypeOK, RowsOK, NEW c \in Contract
  PROVE  /\ contract[c] = NoRow => MinterOf(contract[c]) = NoRow
         /\ contract[c] # NoRow =>
              /\ contract[c] \in ContractRow
              /\ contract[c].fungible => MinterOf(contract[c]) = NoRow
              /\ ~contract[c].fungible =>
                   /\ contract[c].blueprint \in 1 .. Len(blueprint)
                   /\ MinterOf(contract[c]) = blueprint[contract[c].blueprint].minter
                   /\ MinterOf(contract[c]) \in Key
<1>1. /\ blueprint \in Seq(BlueprintRow) /\ Len(blueprint) \in Nat
      /\ \A i \in 1 .. Len(blueprint) : blueprint[i] \in BlueprintRow
  BY ElementOfSeq, LenProperties DEF CollectionsTypeOK
<1>2. contract[c] # NoRow => contract[c] \in ContractRow
  BY DEF CollectionsTypeOK
<1>3. CASE contract[c] = NoRow
  BY <1>3 DEF MinterOf
<1>4. CASE contract[c] # NoRow
  <2>1. /\ contract[c].blueprint \in 0 .. Len(blueprint)
        /\ contract[c].fungible <=> contract[c].blueprint = 0
        /\ contract[c].fungible \in BOOLEAN
    BY <1>2, <1>4 DEF RowsOK, ContractRow
  <2>2. ASSUME ~contract[c].fungible
        PROVE  /\ contract[c].blueprint \in 1 .. Len(blueprint)
               /\ MinterOf(contract[c]) = blueprint[contract[c].blueprint].minter
    BY <1>1, <1>4, <2>1, <2>2 DEF MinterOf
  <2>3. ASSUME ~contract[c].fungible PROVE MinterOf(contract[c]) \in Key
    BY <1>1, <2>2, <2>3 DEF BlueprintRow
  <2> QED
    BY <1>2, <1>4, <2>2, <2>3 DEF MinterOf
<1> QED
  BY <1>3, <1>4

\* The tables of blueprints and of contracts after an insert or an update.
LEMMA Written ==
  ASSUME CollectionsTypeOK, RowsOK,
         blueprint' = blueprint
           \/ \E x \in BlueprintRow : blueprint' = Append(blueprint, x),
         NEW c \in Contract, NEW new,
         contract' = [contract EXCEPT ![c] = new],
         \/ new = contract[c]
         \/ /\ new \in ContractRow /\ new.blueprint \in 0 .. Len(blueprint')
            /\ new.fungible <=> new.blueprint = 0
            /\ contract[c] # NoRow =>
                 /\ ~new.fungible /\ ~contract[c].fungible
                 /\ blueprint'[new.blueprint].minter = MinterOf(contract[c])
  PROVE  /\ Grows /\ RowsOK'
         /\ blueprint' \in Seq(BlueprintRow)
         /\ contract' \in [Contract -> ContractRow \cup {NoRow}]
         /\ contract'[c] = new
<1>1. /\ blueprint \in Seq(BlueprintRow) /\ Len(blueprint) \in Nat
      /\ contract \in [Contract -> ContractRow \cup {NoRow}]
  BY LenProperties DEF CollectionsTypeOK
<1>2. /\ blueprint' \in Seq(BlueprintRow) /\ Len(blueprint') \in Nat
      /\ Len(blueprint') >= Len(blueprint)
      /\ \A i \in 1 .. Len(blueprint) : blueprint'[i] = blueprint[i]
  <2>1. CASE blueprint' = blueprint
    BY <1>1, <2>1
  <2>2. ASSUME NEW x \in BlueprintRow, blueprint' = Append(blueprint, x)
        PROVE  /\ blueprint' \in Seq(BlueprintRow) /\ Len(blueprint') \in Nat
               /\ Len(blueprint') >= Len(blueprint)
               /\ \A i \in 1 .. Len(blueprint) : blueprint'[i] = blueprint[i]
    <3>1. /\ Append(blueprint, x) \in Seq(BlueprintRow)
          /\ Len(Append(blueprint, x)) = Len(blueprint) + 1
          /\ \A i \in 1 .. Len(blueprint) : Append(blueprint, x)[i] = blueprint[i]
      BY <1>1, AppendProperties
    <3> QED
      BY <1>1, <2>2, <3>1
  <2> QED
    BY <2>1, <2>2
<1>3. /\ contract' \in [Contract -> ContractRow \cup {NoRow}]
      /\ contract'[c] = new
      /\ \A d \in Contract : d # c => contract'[d] = contract[d]
  BY <1>1
<1>4. \A d \in Contract :
        contract[d] # NoRow =>
          /\ contract[d] \in ContractRow
          /\ contract[d].blueprint \in 0 .. Len(blueprint)
          /\ contract[d].fungible <=> contract[d].blueprint = 0
  BY <1>1 DEF RowsOK
<1>5. ASSUME NEW d \in Contract, contract[d] # NoRow, contract'[d] = contract[d]
      PROVE  MinterOf(contract[d])' = MinterOf(contract[d])
  <2>1. contract[d].blueprint \in 0 .. Len(blueprint)
    BY <1>4, <1>5
  <2> QED
    BY <1>1, <1>2, <1>5, <2>1 DEF MinterOf
<1>6. CASE new = contract[c]
  <2>1. \A d \in Contract : contract'[d] = contract[d]
    BY <1>3, <1>6
  <2>2. Grows
    BY <1>2, <1>5, <2>1 DEF Grows
  <2>3. RowsOK'
    BY <1>1, <1>2, <1>4, <2>1 DEF RowsOK
  <2> QED
    BY <1>2, <1>3, <2>2, <2>3
<1>7. CASE /\ new \in ContractRow /\ new.blueprint \in 0 .. Len(blueprint')
           /\ new.fungible <=> new.blueprint = 0
           /\ contract[c] # NoRow =>
                 /\ ~new.fungible /\ ~contract[c].fungible
                 /\ blueprint'[new.blueprint].minter = MinterOf(contract[c])
  <2>1. new # NoRow
    BY <1>7, Inputs
  <2>2. ASSUME contract[c] # NoRow
        PROVE  /\ contract'[c].fungible = contract[c].fungible
               /\ MinterOf(contract[c])' = MinterOf(contract[c])
    <3>1. new.fungible = FALSE /\ contract[c].fungible = FALSE
      BY <1>4, <1>7, <2>2 DEF ContractRow
    <3>2. MinterOf(contract[c])' = blueprint'[new.blueprint].minter
      BY <1>3, <1>7, <2>1, <3>1 DEF MinterOf
    <3> QED
      BY <1>3, <1>7, <2>2, <3>1, <3>2
  <2>3. Grows
    BY <1>2, <1>3, <1>5, <2>1, <2>2 DEF Grows
  <2>4. RowsOK'
    <3> SUFFICES ASSUME NEW d \in Contract, contract'[d] # NoRow
                 PROVE  /\ contract'[d].blueprint \in 0 .. Len(blueprint')
                        /\ contract'[d].fungible <=> contract'[d].blueprint = 0
      BY DEF RowsOK
    <3>1. CASE d = c
      BY <1>3, <1>7, <3>1
    <3>2. CASE d # c
      BY <1>1, <1>2, <1>3, <1>4, <3>2
    <3> QED
      BY <3>1, <3>2
  <2> QED
    BY <1>2, <1>3, <2>3, <2>4
<1> QED
  BY <1>6, <1>7

\* The tables are left alone.
LEMMA SameTables ==
  ASSUME CInv, UNCHANGED tables
  PROVE  /\ Grows /\ RowsOK'
         /\ blueprint' \in Seq(BlueprintRow)
         /\ contract' \in [Contract -> ContractRow \cup {NoRow}]
<1>1. UNCHANGED <<blueprint, contract>> /\ CollectionsTypeOK /\ RowsOK
  BY DEF tables, CInv
<1>2. Len(blueprint) \in Nat
  BY <1>1, LenProperties DEF CollectionsTypeOK
<1>3. Grows
  BY <1>1, <1>2 DEF Grows, MinterOf
<1>4. RowsOK'
  BY <1>1 DEF RowsOK
<1> QED
  BY <1>1, <1>3, <1>4 DEF CollectionsTypeOK

\* What others rely on stays as the tables grow.
LEMMA Kept ==
  ASSUME CInv, Grows
  PROVE  /\ \A r \in Request : session'[r] = session[r] => SessionOK(r)'
         /\ \A req \in issued : MinterOf(contract[req.contract])' = req.mint
         /\ \A reg \in raised :
              contract'[reg.contract] # NoRow
                /\ ~Agrees(contract[reg.contract], reg)'
         /\ \A c \in Contract : MinterOf(contract[c]) # NoRow =>
              MinterOf(contract[c])' = MinterOf(contract[c])
<1>1. /\ CollectionsTypeOK /\ RowsOK /\ IssuedOK /\ SignedForMinter /\ RaisedOK
      /\ \A r \in Request : SessionOK(r)
  BY DEF CInv
<1>2. \A c \in Contract : MinterOf(contract[c]) # NoRow =>
        MinterOf(contract[c])' = MinterOf(contract[c])
  BY <1>1, MinterOfRow DEF Grows
<1>3. ASSUME NEW r \in Request, session'[r] = session[r] PROVE SessionOK(r)'
  <2>1. SessionOK(r) /\ Wants[r].contract \in Contract /\ Wants[r].signer \in Key
    BY <1>1, Inputs
  <2>2. Wants[r].signer # NoRow
    BY <2>1, Inputs
  <2>3. MinterOf(contract[Wants[r].contract]) = Wants[r].signer =>
          MinterOf(contract[Wants[r].contract])' = Wants[r].signer
    BY <1>2, <2>1, <2>2
  <2>4. /\ Len(blueprint') >= Len(blueprint)
        /\ \A i \in 1 .. Len(blueprint) : blueprint'[i] = blueprint[i]
        /\ Len(blueprint) \in Nat /\ Len(blueprint') >= Len(blueprint)
    BY <1>1, LenProperties DEF Grows, CollectionsTypeOK
  <2> DEFINE s == session[r]
             m == MinterOf(contract[Wants[r].contract])
             k == Wants[r].signer
  <2>5. ASSUME s.at = "found"
        PROVE  /\ s.use \in 0 .. Len(blueprint')
               /\ IF s.use = 0 THEN Wants[r].minter = k
                  ELSE blueprint'[s.use].minter = k
               /\ ~s.insert => m' = k
    <3>1. /\ s.use \in 0 .. Len(blueprint)
          /\ IF s.use = 0 THEN Wants[r].minter = k
             ELSE blueprint[s.use].minter = k
          /\ ~s.insert => m = k
      BY <2>1, <2>5 DEF SessionOK
    <3> HIDE DEF s
    <3>2. s.use # 0 => blueprint'[s.use] = blueprint[s.use]
      BY <2>4, <3>1
    <3> QED
      BY <2>3, <2>4, <3>1, <3>2
  <2>6. ASSUME s.at = "sign"
        PROVE  /\ s.use \in 1 .. Len(blueprint')
               /\ blueprint'[s.use].minter = k
               /\ m' = k
    <3>1. /\ s.use \in 1 .. Len(blueprint)
          /\ blueprint[s.use].minter = k
          /\ m = k
      BY <2>1, <2>6 DEF SessionOK
    <3> HIDE DEF s
    <3> QED
      BY <2>3, <2>4, <3>1
  <2> QED
    BY <1>3, <2>5, <2>6 DEF SessionOK
<1>4. ASSUME NEW req \in issued PROVE MinterOf(contract[req.contract])' = req.mint
  <2>1. req.contract \in Contract /\ req.mint \in Key
    BY <1>1 DEF IssuedOK
  <2> QED
    BY <1>1, <1>2, <2>1, Inputs DEF SignedForMinter
<1>5. ASSUME NEW reg \in raised
      PROVE  /\ contract'[reg.contract] # NoRow
             /\ ~Agrees(contract[reg.contract], reg)'
  <2>1. reg.contract \in Contract
    BY <1>1 DEF CollectionsTypeOK, Registration
  <2>2. contract[reg.contract] # NoRow /\ ~Agrees(contract[reg.contract], reg)
    BY <1>1 DEF RaisedOK
  <2>3. /\ contract'[reg.contract] # NoRow
        /\ contract'[reg.contract].fungible = contract[reg.contract].fungible
        /\ MinterOf(contract[reg.contract])' = MinterOf(contract[reg.contract])
    BY <2>1, <2>2 DEF Grows
  <2> QED
    BY <2>2, <2>3 DEF Agrees
<1> QED
  BY <1>2, <1>3, <1>4, <1>5

\* A step that keeps its part of the invariant keeps all of it.
LEMMA Compose ==
  ASSUME CInv, Grows, RowsOK', CollectionsTypeOK', IssuedOK', LiftedOK',
         \A r \in Request : session'[r] = session[r] \/ SessionOK(r)',
         \A req \in issued' \ issued : MinterOf(contract[req.contract])' = req.mint,
         \A reg \in raised' \ raised :
           contract'[reg.contract] # NoRow /\ ~Agrees(contract[reg.contract], reg)'
  PROVE  CInv'
<1>1. \A r \in Request : SessionOK(r)'
  BY Kept
<1>2. SignedForMinter'
  BY Kept DEF SignedForMinter
<1>3. RaisedOK'
  BY Kept DEF RaisedOK
<1> QED
  BY <1>1, <1>2, <1>3 DEF CInv

-----------------------------------------------------------------------------
(***************************************************************************)
(* Every step preserves it, and lets the tables grow only.                 *)
(***************************************************************************)
\* It holds at the start.
LEMMA CStart == Init => CInv
<1> SUFFICES ASSUME Init PROVE CInv
  OBVIOUS
<1>1. <<>> \in Seq(BlueprintRow) /\ <<>> \in Seq(Registration)
  BY EmptySeq
<1>2. session \in [Request -> Session]
  BY DEF Init, Session
<1>3. \A r \in Request : session[r].at = "idle"
  BY DEF Init
<1>4. 0 \in 0 .. MaxCrashes
  BY CollectionsAssumption
<1>5. contracts \in [Contract -> {0, KIND_ERC20, KIND_ERC721}]
  BY DEF Init
<1>6. CollectionsTypeOK
  BY <1>1, <1>2, <1>4, <1>5 DEF Init, CollectionsTypeOK
<1>7. RowsOK /\ IssuedOK /\ SignedForMinter /\ RaisedOK /\ LiftedOK
  BY DEF Init, RowsOK, IssuedOK, SignedForMinter, RaisedOK, LiftedOK
<1>8. \A r \in Request : SessionOK(r)
  BY <1>3 DEF SessionOK
<1> QED
  BY <1>6, <1>7, <1>8 DEF CInv

\* A step of one session; what it signs, it signs for the minter.
LEMMA SessionStep ==
  ASSUME CInv, Grows, RowsOK', NEW r \in Request, NEW s \in Session,
         blueprint' \in Seq(BlueprintRow),
         contract' \in [Contract -> ContractRow \cup {NoRow}],
         session' = [session EXCEPT ![r] = s], SessionOK(r)',
         issued \subseteq issued',
         \A req \in issued' \ issued :
           /\ req \in [batch : Request, contract : Contract,
                       kind : {KIND_ERC721}, mint : Key]
           /\ req.contract = Wants[req.batch].contract
           /\ MinterOf(contract[req.contract])' = req.mint,
         UNCHANGED <<l1, log, lifted, raised>>, crashes' \in 0 .. MaxCrashes
  PROVE  CInv'
<1>1. /\ CollectionsTypeOK /\ IssuedOK /\ LiftedOK
      /\ UNCHANGED <<spent, contracts, log, lifted, raised>>
  BY DEF CInv, l1
<1>2. session' \in [Request -> Session]
  BY <1>1 DEF CollectionsTypeOK
<1>3. \A q \in Request : session'[q] = session[q] \/ SessionOK(q)'
  <2>1. \A q \in Request : q # r => session'[q] = session[q]
    BY <1>1 DEF CollectionsTypeOK
  <2> QED
    BY <2>1
<1>4. \A req \in issued' : Wants[req.batch].contract = req.contract
  BY <1>1 DEF CollectionsTypeOK
<1>5. CollectionsTypeOK'
  BY <1>1, <1>2, <1>4 DEF CollectionsTypeOK
<1>6. IssuedOK'
  BY <1>1 DEF IssuedOK
<1>7. LiftedOK'
  BY <1>1 DEF LiftedOK
<1> QED
  BY <1>1, <1>3, <1>5, <1>6, <1>7, Compose

\* The same for one that signs nothing and leaves the tables alone.
LEMMA QuietStep ==
  ASSUME CInv, NEW r \in Request, NEW s \in Session,
         session' = [session EXCEPT ![r] = s],
         s.at = "found" =>
           /\ s.use \in 0 .. Len(blueprint)
           /\ IF s.use = 0 THEN Wants[r].minter = Wants[r].signer
              ELSE blueprint[s.use].minter = Wants[r].signer
           /\ ~s.insert => MinterOf(contract[Wants[r].contract]) = Wants[r].signer,
         s.at # "sign",
         UNCHANGED <<tables, issued, l1, log, lifted, raised>>,
         crashes' \in 0 .. MaxCrashes
  PROVE  CInv' /\ Grows
<1>1. /\ Grows /\ RowsOK' /\ blueprint' \in Seq(BlueprintRow)
      /\ contract' \in [Contract -> ContractRow \cup {NoRow}]
  BY SameTables
<1>2. session'[r] = s /\ UNCHANGED <<blueprint, contract>>
  BY DEF CInv, CollectionsTypeOK, tables
<1>3. SessionOK(r)'
  BY <1>2 DEF SessionOK, MinterOf
<1>4. issued \subseteq issued' /\ issued' \ issued = {}
  OBVIOUS
<1> QED
  BY <1>1, <1>3, <1>4, SessionStep

\* A new blueprint changes no row of the tables.
LEMMA CreateBlueprintStep ==
  ASSUME CInv, NEW p \in PermanentId, NEW minter \in Key, CreateBlueprint(p, minter)
  PROVE  CInv' /\ Grows
<1> DEFINE x == [permanent_id |-> p, minter |-> minter]
<1>1. /\ blueprint' = Append(blueprint, x) /\ x \in BlueprintRow
      /\ UNCHANGED <<contract, session, issued, l1, log, lifted, raised, crashes>>
  BY DEF CreateBlueprint, BlueprintRow
<1>2. /\ CollectionsTypeOK /\ RowsOK /\ IssuedOK /\ LiftedOK
      /\ blueprint \in Seq(BlueprintRow)
  BY DEF CInv, CollectionsTypeOK
<1> HIDE DEF x
<1>3. /\ blueprint' \in Seq(BlueprintRow)
      /\ Len(blueprint') = Len(blueprint) + 1 /\ Len(blueprint) \in Nat
      /\ \A i \in 1 .. Len(blueprint) : blueprint'[i] = blueprint[i]
  BY <1>1, <1>2, AppendProperties, LenProperties
<1>4. \A c \in Contract : contract[c] # NoRow =>
        /\ contract[c].blueprint \in 0 .. Len(blueprint)
        /\ contract[c].fungible <=> contract[c].blueprint = 0
  BY <1>2 DEF RowsOK
<1>5. Grows
  <2>1. \A c \in Contract : contract[c] # NoRow =>
          MinterOf(contract[c])' = MinterOf(contract[c])
    BY <1>1, <1>3, <1>4 DEF MinterOf
  <2> QED
    BY <1>1, <1>3, <2>1 DEF Grows
<1>6. RowsOK'
  BY <1>1, <1>3, <1>4 DEF RowsOK
<1>7. UNCHANGED <<contract, session, issued, spent, contracts, log, lifted, raised, crashes>>
  BY <1>1 DEF l1
<1>8. CollectionsTypeOK'
  BY <1>2, <1>3, <1>7 DEF CollectionsTypeOK
<1>9. IssuedOK' /\ LiftedOK'
  BY <1>2, <1>7 DEF IssuedOK, LiftedOK
<1> QED
  BY <1>5, <1>6, <1>7, <1>8, <1>9, Compose

\* Only the minter of a collection is found for it.
LEMMA SelectCollectionStep ==
  ASSUME CInv, NEW r \in Request, SelectCollection(r)
  PROVE  CInv' /\ Grows
<1> DEFINE w == Wants[r]
           Insert == contract[w.contract] = NoRow \/ contract[w.contract].fungible
<1>1. /\ CollectionsTypeOK /\ RowsOK /\ w.contract \in Contract
      /\ session[r] \in Session /\ session \in [Request -> Session]
  BY Inputs DEF CInv, CollectionsTypeOK
<1>2. /\ UNCHANGED <<tables, issued, l1, log, lifted, raised, crashes>>
      /\ crashes' \in 0 .. MaxCrashes
  BY <1>1 DEF SelectCollection, CollectionsTypeOK
<1>3. ASSUME NEW at \in {"refused", "error"}, Ends(r, at)
      PROVE  CInv' /\ Grows
  <2> DEFINE s == [session[r] EXCEPT !.at = at]
  <2>1. /\ session' = [session EXCEPT ![r] = s] /\ s \in Session /\ s.at = at
    BY <1>1, <1>3 DEF Ends, Session
  <2> HIDE DEF s
  <2> QED
    BY <1>2, <1>3, <2>1, QuietStep
<1>4. ASSUME NEW i \in 0 .. Len(blueprint), NEW minter, Authorized(r, w.contract, minter),
             minter = IF i = 0 THEN w.minter ELSE blueprint[i].minter,
             session' = [session EXCEPT ![r] =
               [at |-> "found", use |-> i, insert |-> Insert]]
      PROVE  CInv' /\ Grows
  <2> DEFINE s == [at |-> "found", use |-> i, insert |-> Insert]
  <2>1. w.signer = minter /\ MinterOf(contract[w.contract]) \in {NoRow, minter}
    BY <1>4 DEF Authorized
  <2>2. Insert \in BOOLEAN
    BY <1>1, MinterOfRow DEF ContractRow
  <2>3. Len(blueprint) \in Nat
    BY <1>1, LenProperties DEF CollectionsTypeOK
  <2>4. ~Insert => MinterOf(contract[w.contract]) = w.signer
    BY <1>1, <2>1, MinterOfRow, Inputs
  <2>5. /\ s.at = "found" /\ s.use = i /\ (~s.insert => ~Insert)
        /\ session' = [session EXCEPT ![r] = s]
    BY <1>4
  <2> HIDE DEF Insert
  <2>6. s \in Session
    BY <2>2, <2>3 DEF Session
  <2> HIDE DEF s
  <2> QED
    BY <1>2, <1>4, <2>1, <2>4, <2>5, <2>6, QuietStep
<1>5. CASE /\ w.blueprint = NoRow
           /\ IF Authorized(r, w.contract, w.minter)
              THEN session' = [session EXCEPT ![r] =
                     [at |-> "found", use |-> 0, insert |-> Insert]]
              ELSE Ends(r, "refused")
  <2>1. 0 \in 0 .. Len(blueprint)
    BY <1>1, LenProperties DEF CollectionsTypeOK
  <2> HIDE DEF Insert
  <2> QED
    BY <1>3, <1>4, <1>5, <2>1
<1>6. CASE Ends(r, "error")
  BY <1>3, <1>6
<1>7. ASSUME NEW i \in DOMAIN blueprint,
             \/ Ends(r, "refused")
             \/ /\ Authorized(r, w.contract, blueprint[i].minter)
                /\ session' = [session EXCEPT ![r] =
                     [at |-> "found", use |-> i, insert |-> Insert]]
      PROVE  CInv' /\ Grows
  <2>1. i \in 0 .. Len(blueprint) /\ i # 0
    BY <1>1, LenProperties DEF CollectionsTypeOK
  <2> HIDE DEF Insert
  <2> QED
    BY <1>3, <1>4, <1>7, <2>1
<1> QED
  BY <1>5, <1>6, <1>7 DEF SelectCollection

\* What is written for a collection has the minter that it had.
LEMMA CommitCollectionStep ==
  ASSUME CInv, NEW r \in Request, CommitCollection(r)
  PROVE  CInv' /\ Grows
<1> DEFINE w == Wants[r]
           c == w.contract
           s == session[r]
           added == [permanent_id |-> NoRow, minter |-> w.minter]
           use == IF s.use = 0 THEN Len(blueprint) + 1 ELSE s.use
           new == [fungible |-> FALSE, blueprint |-> use]
           t == [[s EXCEPT !.at = "sign"] EXCEPT !.use = use]
<1>1. /\ CollectionsTypeOK /\ RowsOK /\ SessionOK(r)
      /\ c \in Contract /\ w.signer \in Key
      /\ session \in [Request -> Session] /\ s \in Session
      /\ blueprint \in Seq(BlueprintRow) /\ Len(blueprint) \in Nat
  BY Inputs, LenProperties DEF CInv, CollectionsTypeOK
<1>2. /\ s.at = "found"
      /\ UNCHANGED <<issued, l1, log, lifted, raised, crashes>>
      /\ crashes' \in 0 .. MaxCrashes
  BY <1>1 DEF CommitCollection, CollectionsTypeOK
<1>3. /\ s.use \in 0 .. Len(blueprint)
      /\ IF s.use = 0 THEN w.minter = w.signer ELSE blueprint[s.use].minter = w.signer
      /\ ~s.insert => MinterOf(contract[c]) = w.signer
  BY <1>1, <1>2 DEF SessionOK
<1>4. CASE Ends(r, "error") /\ UNCHANGED tables
  <2> DEFINE e == [s EXCEPT !.at = "error"]
  <2>1. session' = [session EXCEPT ![r] = e] /\ e \in Session /\ e.at = "error"
    BY <1>1, <1>4 DEF Ends, Session
  <2> HIDE DEF e
  <2> QED
    BY <1>2, <1>4, <2>1, QuietStep
<1>5. CASE /\ Fits(c, s.use, s.insert)
           /\ blueprint' = IF s.use = 0 THEN Append(blueprint, added) ELSE blueprint
           /\ contract' = [contract EXCEPT ![c] = new]
           /\ session' = [session EXCEPT ![r].at = "sign", ![r].use = use]
  <2>1. session' = [session EXCEPT ![r] = t]
    BY <1>1, <1>5
  <2>2. use \in 1 .. Len(blueprint') /\ blueprint'[use].minter = w.signer
    <3>1. CASE s.use = 0
      <4>1. added \in BlueprintRow /\ added.minter = w.signer
        BY <1>1, <1>3, <3>1 DEF BlueprintRow
      <4>2. blueprint' = Append(blueprint, added) /\ use = Len(blueprint) + 1
        BY <1>5, <3>1
      <4> HIDE DEF added, use
      <4>3. Len(blueprint') = Len(blueprint) + 1 /\ blueprint'[use] = added
        BY <1>1, <4>1, <4>2, AppendProperties
      <4> QED
        BY <1>1, <4>1, <4>2, <4>3
    <3>2. CASE s.use # 0
      BY <1>1, <1>3, <1>5, <3>2
    <3> QED
      BY <3>1, <3>2
  <2>3. blueprint' = blueprint \/ \E x \in BlueprintRow : blueprint' = Append(blueprint, x)
    BY <1>1, <1>3, <1>5 DEF BlueprintRow
  <2>4. contract[c] # NoRow =>
          MinterOf(contract[c]) = w.signer /\ ~contract[c].fungible
    BY <1>1, <1>3, <1>5, MinterOfRow, Inputs DEF Fits
  <2>5. /\ contract' = [contract EXCEPT ![c] = new] /\ new = [fungible |-> FALSE, blueprint |-> use]
    BY <1>5
  <2>6. t \in Session /\ t.at = "sign" /\ t.use = use
    <3>1. use \in Nat
      BY <1>1, <1>3
    <3> HIDE DEF s, use
    <3> QED
      BY <1>1, <3>1 DEF Session
  <2> HIDE DEF use, added, s, t
  <2>7. Len(blueprint') \in Nat
    BY <1>1, <2>3, AppendProperties
  <2>8. /\ new \in ContractRow /\ new.blueprint = use /\ new.fungible = FALSE
        /\ new.blueprint \in 0 .. Len(blueprint') /\ new.blueprint # 0
    BY <2>2, <2>7 DEF ContractRow
  <2> HIDE DEF new
  <2>9. /\ Grows /\ RowsOK' /\ blueprint' \in Seq(BlueprintRow)
        /\ contract' \in [Contract -> ContractRow \cup {NoRow}] /\ contract'[c] = new
    BY <1>1, <2>2, <2>3, <2>4, <2>5, <2>8, Written
  <2>10. MinterOf(contract[c])' = w.signer
    <3>1. new # NoRow
      BY <2>8, Inputs
    <3> QED
      BY <2>2, <2>8, <2>9, <3>1 DEF MinterOf
  <2>11. session'[r] = t
    BY <1>1, <2>1
  <2>12. SessionOK(r)'
    BY <2>2, <2>6, <2>10, <2>11 DEF SessionOK
  <2>13. issued \subseteq issued' /\ issued' \ issued = {}
         /\ UNCHANGED <<l1, log, lifted, raised>>
    BY <1>2
  <2> QED
    BY <1>2, <2>1, <2>6, <2>9, <2>12, <2>13, SessionStep
<1> QED
  BY <1>4, <1>5 DEF CommitCollection

\* What is signed is for the minter.
LEMMA ForwardStep ==
  ASSUME CInv, NEW r \in Request, Forward(r)
  PROVE  CInv' /\ Grows
<1> DEFINE w == Wants[r]
           req == [batch |-> r, contract |-> w.contract, kind |-> KIND_ERC721,
                   mint |-> blueprint[session[r].use].minter]
           s == [session[r] EXCEPT !.at = "ok"]
<1>1. /\ CollectionsTypeOK /\ SessionOK(r) /\ w.contract \in Contract
      /\ w.signer \in Key
  BY Inputs DEF CInv
<1>2. /\ session[r].at = "sign" /\ issued' = issued \cup {req}
      /\ session' = [session EXCEPT ![r] = s]
      /\ UNCHANGED <<tables, l1, log, lifted, raised, crashes>>
  BY DEF Forward, Ends
<1>3. s \in Session /\ s.at = "ok" /\ session'[r] = s
  BY <1>1, <1>2 DEF CollectionsTypeOK, Session
<1>4. /\ blueprint[session[r].use].minter = w.signer
      /\ MinterOf(contract[w.contract]) = w.signer
  BY <1>1, <1>2 DEF SessionOK
<1>5. /\ Grows /\ RowsOK' /\ blueprint' \in Seq(BlueprintRow)
      /\ contract' \in [Contract -> ContractRow \cup {NoRow}]
  BY <1>2, SameTables
<1>6. MinterOf(contract[w.contract])' = w.signer
  BY <1>2, <1>4 DEF tables, MinterOf
<1>7. SessionOK(r)'
  BY <1>3 DEF SessionOK
<1>8. /\ req \in [batch : Request, contract : Contract, kind : {KIND_ERC721}, mint : Key]
      /\ req.batch = r /\ req.contract = w.contract /\ req.mint = w.signer
  BY <1>1, <1>4
<1>9. crashes' \in 0 .. MaxCrashes
  BY <1>1, <1>2 DEF CollectionsTypeOK
<1> HIDE DEF req, s
<1>10. /\ issued \subseteq issued'
       /\ \A q \in issued' \ issued :
            /\ q \in [batch : Request, contract : Contract,
                      kind : {KIND_ERC721}, mint : Key]
            /\ q.contract = Wants[q.batch].contract
            /\ MinterOf(contract[q.contract])' = q.mint
  <2> SUFFICES ASSUME NEW q \in issued' \ issued
               PROVE  /\ q \in [batch : Request, contract : Contract,
                                kind : {KIND_ERC721}, mint : Key]
                      /\ q.contract = Wants[q.batch].contract
                      /\ MinterOf(contract[q.contract])' = q.mint
    BY <1>2
  <2>1. q = req
    BY <1>2
  <2>2. q.contract = w.contract /\ q.batch = r /\ q.mint = w.signer
    BY <1>8, <2>1
  <2>3. MinterOf(contract[q.contract])' = w.signer
    BY <1>6, <2>2
  <2> QED
    BY <1>8, <2>1, <2>2, <2>3
<1> QED
  BY <1>2, <1>3, <1>5, <1>7, <1>9, <1>10, SessionStep

\* A request that starts again holds nothing it has read.
LEMMA CrashRequestStep ==
  ASSUME CInv, NEW r \in Request, CrashRequest(r)
  PROVE  CInv' /\ Grows
<1> DEFINE s == [session[r] EXCEPT !.at = "idle"]
<1>1. /\ crashes < MaxCrashes /\ crashes' = crashes + 1
      /\ session' = [session EXCEPT ![r] = s]
      /\ UNCHANGED <<tables, issued, l1, log, lifted, raised>>
  BY DEF CrashRequest, Ends
<1>2. session[r] \in Session /\ crashes \in 0 .. MaxCrashes /\ MaxCrashes \in Nat
  BY CollectionsAssumption DEF CInv, CollectionsTypeOK
<1>3. s \in Session /\ s.at = "idle"
  BY <1>2 DEF Session
<1>4. crashes' \in 0 .. MaxCrashes
  BY <1>1, <1>2
<1> HIDE DEF s
<1> QED
  BY <1>1, <1>3, <1>4, QuietStep

\* L1 registers, or refuses, and the interpreter will hear of what it registers.
LEMMA L1Step ==
  ASSUME CInv, NEW reg \in Registration, RegisterOnL1(reg),
         spent' \subseteq issued,
         UNCHANGED <<tables, session, issued, lifted, raised, crashes>>
  PROVE  CInv' /\ Grows
<1>1. /\ CollectionsTypeOK /\ IssuedOK /\ LiftedOK
      /\ UNCHANGED <<session, issued, lifted, raised, crashes>>
  BY DEF CInv
<1>2. /\ Grows /\ RowsOK' /\ blueprint' \in Seq(BlueprintRow)
      /\ contract' \in [Contract -> ContractRow \cup {NoRow}]
  BY SameTables
<1>3. /\ log' \in Seq(Registration) /\ (log # <<>> => log' # <<>>)
      /\ contracts' \in [Contract -> {0, KIND_ERC20, KIND_ERC721}]
  <2>1. /\ log \in Seq(Registration)
        /\ contracts \in [Contract -> {0, KIND_ERC20, KIND_ERC721}]
    BY <1>1 DEF CollectionsTypeOK
  <2>2. CASE UNCHANGED <<contracts, log>>
    BY <2>1, <2>2
  <2>3. CASE /\ contracts' = [contracts EXCEPT ![reg.contract] = reg.kind]
             /\ log' = Append(log, reg)
    <3>1. /\ Append(log, reg) \in Seq(Registration)
          /\ Len(Append(log, reg)) = Len(log) + 1 /\ Len(log) \in Nat
      BY <2>1, AppendProperties, LenProperties
    <3>2. Append(log, reg) # <<>>
      BY <3>1
    <3>3. contracts' \in [Contract -> {0, KIND_ERC20, KIND_ERC721}]
      BY <2>1, <2>3 DEF Registration
    <3> QED
      BY <2>3, <3>1, <3>2, <3>3
  <2> QED
    BY <2>2, <2>3 DEF RegisterOnL1
<1>4. CollectionsTypeOK'
  BY <1>1, <1>2, <1>3 DEF CollectionsTypeOK
<1>5. IssuedOK' /\ LiftedOK'
  BY <1>1, <1>3 DEF IssuedOK, LiftedOK
<1> QED
  BY <1>1, <1>2, <1>4, <1>5, Compose

\* What the forwarder brings to L1 was signed.
LEMMA ExecuteStep ==
  ASSUME CInv, NEW req \in issued, Execute(req)
  PROVE  CInv' /\ Grows
<1> DEFINE reg == [contract |-> req.contract, kind |-> req.kind, mint |-> req.mint]
<1>1. /\ req \in [batch : Request, contract : Contract,
                  kind : {KIND_ERC721}, mint : Key]
      /\ spent \subseteq issued
  BY DEF CInv, IssuedOK, CollectionsTypeOK
<1>2. reg \in Registration
  BY <1>1 DEF Registration
<1>3. /\ spent' \subseteq issued /\ RegisterOnL1(reg)
      /\ UNCHANGED <<tables, session, issued, lifted, raised, crashes>>
  BY <1>1 DEF Execute
<1> HIDE DEF reg
<1> QED
  BY <1>2, <1>3, L1Step

\* The admin's registrations do not pass the gateway.
LEMMA RegisterDirectlyStep ==
  ASSUME CInv, NEW reg \in Direct, RegisterDirectly(reg)
  PROVE  CInv' /\ Grows
<1>1. /\ reg \in Registration /\ spent' \subseteq issued /\ RegisterOnL1(reg)
      /\ UNCHANGED <<tables, session, issued, lifted, raised, crashes>>
  BY Inputs DEF RegisterDirectly, CInv, CollectionsTypeOK
<1> QED
  BY <1>1, L1Step

\* The interpreter raises for what the table contradicts.
LEMMA SelectContractStep ==
  ASSUME CInv, SelectContract
  PROVE  CInv' /\ Grows
<1> DEFINE reg == Head(log)
<1>1. /\ log # <<>> /\ lifted' \in {"insert", "pass", "dead"}
      /\ \/ UNCHANGED raised
         \/ /\ raised' = raised \cup {reg} /\ contract[reg.contract] # NoRow
            /\ ~Agrees(contract[reg.contract], reg)
      /\ UNCHANGED <<tables, session, issued, l1, log, crashes>>
  BY DEF SelectContract
<1>2. /\ CollectionsTypeOK /\ IssuedOK
      /\ UNCHANGED <<session, issued, spent, contracts, log, crashes>>
  BY <1>1 DEF CInv, l1
<1>3. /\ Grows /\ RowsOK' /\ blueprint' \in Seq(BlueprintRow)
      /\ contract' \in [Contract -> ContractRow \cup {NoRow}]
  BY <1>1, SameTables
<1>4. reg \in Registration
  BY <1>1, <1>2, HeadTailProperties DEF CollectionsTypeOK
<1>5. \A x \in raised' \ raised :
        contract'[x.contract] # NoRow /\ ~Agrees(contract[x.contract], x)'
  BY <1>1 DEF tables, Agrees, MinterOf
<1>6. CollectionsTypeOK'
  BY <1>1, <1>2, <1>3, <1>4 DEF CollectionsTypeOK
<1>7. IssuedOK' /\ LiftedOK'
  BY <1>1, <1>2 DEF IssuedOK, LiftedOK
<1> QED
  BY <1>2, <1>3, <1>5, <1>6, <1>7, Compose

\* It inserts a row only where there is none.
LEMMA CommitContractStep ==
  ASSUME CInv, CommitContract
  PROVE  CInv' /\ Grows
<1> DEFINE reg == Head(log)
           c == reg.contract
           fungible == reg.kind # KIND_ERC721
           added == [permanent_id |-> NoRow, minter |-> reg.mint]
           i == IF fungible THEN 0 ELSE Len(blueprint) + 1
           new == [fungible |-> fungible, blueprint |-> i]
<1>1. /\ lifted # "idle" /\ log' = Tail(log) /\ lifted' = "idle"
      /\ \/ UNCHANGED tables
         \/ /\ contract[c] = NoRow
            /\ blueprint' = IF fungible THEN blueprint ELSE Append(blueprint, added)
            /\ contract' = [contract EXCEPT ![c] = new]
      /\ UNCHANGED <<session, issued, l1, raised, crashes>>
  BY DEF CommitContract
<1>2. /\ CollectionsTypeOK /\ RowsOK /\ IssuedOK /\ log # <<>>
      /\ UNCHANGED <<session, issued, spent, contracts, raised, crashes>>
      /\ blueprint \in Seq(BlueprintRow) /\ Len(blueprint) \in Nat
  BY <1>1, LenProperties DEF CInv, LiftedOK, l1, CollectionsTypeOK
<1>3. reg \in Registration /\ Tail(log) \in Seq(Registration)
  BY <1>2, HeadTailProperties DEF CollectionsTypeOK
<1>4. c \in Contract /\ added \in BlueprintRow
  BY <1>3 DEF Registration, BlueprintRow
<1>5. /\ Grows /\ RowsOK' /\ blueprint' \in Seq(BlueprintRow)
      /\ contract' \in [Contract -> ContractRow \cup {NoRow}]
  <2>1. CASE UNCHANGED tables
    BY <2>1, SameTables
  <2>2. CASE /\ contract[c] = NoRow
             /\ blueprint' = IF fungible THEN blueprint ELSE Append(blueprint, added)
             /\ contract' = [contract EXCEPT ![c] = new]
    <3>1. blueprint' = blueprint \/ \E x \in BlueprintRow : blueprint' = Append(blueprint, x)
      BY <1>4, <2>2
    <3>2. /\ i \in 0 .. Len(blueprint') /\ (fungible <=> i = 0) /\ i \in Nat
      <4>1. CASE fungible
        BY <1>2, <2>2, <4>1
      <4>2. CASE ~fungible
        <5> HIDE DEF added
        <5>1. Len(blueprint') = Len(blueprint) + 1
          BY <1>2, <1>4, <2>2, <4>2, AppendProperties
        <5> QED
          BY <1>2, <4>2, <5>1
      <4> QED
        BY <4>1, <4>2
    <3>3. fungible \in BOOLEAN
      OBVIOUS
    <3> HIDE DEF fungible, i, added, c
    <3>4. /\ new \in ContractRow /\ new.blueprint \in 0 .. Len(blueprint')
          /\ new.fungible <=> new.blueprint = 0
      BY <3>2, <3>3 DEF ContractRow
    <3> HIDE DEF new
    <3> QED
      BY <1>2, <1>4, <2>2, <3>1, <3>4, Written
  <2> QED
    BY <1>1, <2>1, <2>2
<1>6. CollectionsTypeOK'
  BY <1>1, <1>2, <1>3, <1>5 DEF CollectionsTypeOK
<1>7. IssuedOK' /\ LiftedOK'
  BY <1>1, <1>2 DEF IssuedOK, LiftedOK
<1> QED
  BY <1>2, <1>5, <1>6, <1>7, Compose

\* What the interpreter has raised stays refused when it starts again.
LEMMA RestartInterpreterStep ==
  ASSUME CInv, RestartInterpreter
  PROVE  CInv' /\ Grows
<1>1. /\ lifted' = "idle"
      /\ UNCHANGED <<tables, session, issued, l1, log, raised, crashes>>
  BY DEF RestartInterpreter
<1>2. /\ CollectionsTypeOK /\ IssuedOK
      /\ UNCHANGED <<session, issued, spent, contracts, log, raised, crashes>>
  BY <1>1 DEF CInv, l1
<1>3. /\ Grows /\ RowsOK' /\ blueprint' \in Seq(BlueprintRow)
      /\ contract' \in [Contract -> ContractRow \cup {NoRow}]
  BY <1>1, SameTables
<1>4. CollectionsTypeOK'
  BY <1>1, <1>2, <1>3 DEF CollectionsTypeOK
<1>5. IssuedOK' /\ LiftedOK'
  BY <1>1, <1>2 DEF IssuedOK, LiftedOK
<1> QED
  BY <1>2, <1>3, <1>4, <1>5, Compose

\* Every step preserves the invariant and lets the tables grow only.
LEMMA CStep == CInv /\ [Next]_vars => CInv' /\ Grows
<1> SUFFICES ASSUME CInv, [Next]_vars PROVE CInv' /\ Grows
  OBVIOUS
<1>1. CASE UNCHANGED vars
  <2>1. UNCHANGED tables /\ UNCHANGED <<session, issued, spent, contracts, log,
                                        lifted, raised, crashes>>
    BY <1>1 DEF vars, l1
  <2>2. /\ Grows /\ RowsOK' /\ blueprint' \in Seq(BlueprintRow)
        /\ contract' \in [Contract -> ContractRow \cup {NoRow}]
    BY <2>1, SameTables
  <2>3. CollectionsTypeOK'
    BY <2>1, <2>2 DEF CInv, CollectionsTypeOK
  <2>4. IssuedOK' /\ LiftedOK'
    BY <2>1 DEF CInv, IssuedOK, LiftedOK
  <2> QED
    BY <2>1, <2>2, <2>3, <2>4, Compose
<1>2. ASSUME NEW b \in BlueprintInput, CreateBlueprint(b[1], b[2])
      PROVE  CInv' /\ Grows
  <2>1. b[1] \in PermanentId /\ b[2] \in Key
    BY Inputs
  <2> QED
    BY <1>2, <2>1, CreateBlueprintStep
<1>3. ASSUME NEW r \in Request,
             \/ SelectCollection(r) \/ CommitCollection(r)
             \/ Forward(r) \/ CrashRequest(r)
      PROVE  CInv' /\ Grows
  BY <1>3, SelectCollectionStep, CommitCollectionStep, ForwardStep, CrashRequestStep
<1>4. ASSUME NEW req \in issued, Execute(req) PROVE CInv' /\ Grows
  BY <1>4, ExecuteStep
<1>5. ASSUME NEW reg \in Direct, RegisterDirectly(reg) PROVE CInv' /\ Grows
  BY <1>5, RegisterDirectlyStep
<1>6. CASE Interpret
  BY <1>6, SelectContractStep, CommitContractStep, RestartInterpreterStep
     DEF Interpret
<1> QED
  BY <1>1, <1>2, <1>3, <1>4, <1>5, <1>6 DEF Next

-----------------------------------------------------------------------------
(***************************************************************************)
(* The theorems.                                                           *)
(***************************************************************************)

\* What the interpreter refuses was never signed, and never will be.
LEMMA RaisedNotSigned == CInv => SignedPasses
<1> SUFFICES ASSUME CInv, NEW reg \in raised, reg \in Signed PROVE FALSE
  BY DEF SignedPasses
<1>1. PICK req \in issued :
        reg = [contract |-> req.contract, kind |-> req.kind, mint |-> req.mint]
  BY DEF Signed
<1>2. /\ req \in [batch : Request, contract : Contract,
                  kind : {KIND_ERC721}, mint : Key]
      /\ CollectionsTypeOK /\ RowsOK /\ MinterOf(contract[req.contract]) = req.mint
  BY DEF CInv, IssuedOK, SignedForMinter
<1>3. /\ reg.contract = req.contract /\ reg.kind = KIND_ERC721
      /\ reg.mint = req.mint /\ reg.mint # NoRow /\ reg.contract \in Contract
  BY <1>1, <1>2, Inputs
<1>4. contract[reg.contract] # NoRow /\ ~Agrees(contract[reg.contract], reg)
  BY DEF CInv, RaisedOK
<1>5. contract[reg.contract] \in ContractRow /\ ~contract[reg.contract].fungible
  BY <1>2, <1>3, MinterOfRow
<1>6. contract[reg.contract].fungible = FALSE
  BY <1>5 DEF ContractRow
<1> QED
  BY <1>2, <1>3, <1>4, <1>6 DEF Agrees

\* What the gateway signs stays good, whatever else happens before somebody brings
\* it to L1: it names the minter that the table has, and the interpreter passes it.
THEOREM SignedStaysGood == Spec => []CollectionsInv
<1>1. CInv => CollectionsInv
  BY RaisedNotSigned DEF CInv, CollectionsInv
<1> QED
  BY <1>1, CStart, CStep, PTL DEF Spec

\* A collection in the table never changes its minter, although a request writes
\* what it read before another one committed.
THEOREM MintersFixed == Spec => MinterFixed
<1>1. CInv /\ [Next]_vars =>
        [\A c \in Contract : MinterOf(contract[c]) # NoRow =>
           MinterOf(contract[c])' = MinterOf(contract[c])]_vars
  BY CStep, Kept
<1> QED
  BY <1>1, CStart, CStep, PTL DEF Spec, MinterFixed
=============================================================================
