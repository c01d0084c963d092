------------------------------ MODULE Collections ------------------------------
(***************************************************************************)
(* How a collection is registered: the minter sets a blueprint up, the     *)
(* gateway writes the collection into its tables and signs a request, a    *)
(* user brings the request to the forwarder on L1, which calls the bridge, *)
(* and at last the interpreter meets the registration on L2 and compares   *)
(* it with the tables.                                                     *)
(*                                                                         *)
(* Requests of the gateway and the interpreter have a session each; they   *)
(* overlap freely, and what one has read may be stale when it commits.     *)
(***************************************************************************)
EXTENDS Integers, Sequences

CONSTANTS
  Contract,     \* addresses of token contracts
  Key,          \* stark keys of minters
  PermanentId,  \* permanent ids of blueprints
  NoRow,        \* a null column, or no row
  BlueprintInput,  \* <<permanent_id, minter>> of POST /blueprints
  Request,      \* POST /collections requests
  Wants,        \* Wants[r]: contract, blueprint or minter, and signer of r
  Direct,       \* registrations that the L1 admin sends without the forwarder
  MaxCrashes    \* bound: crashes of the gateway and of the interpreter

KIND_ERC20 == 1
KIND_ERC721 == 2

Registration ==
  [contract : Contract, kind : {KIND_ERC20, KIND_ERC721}, mint : Key]

\* blueprint is an index of the table, 0 for none.
ContractRow == [fungible : BOOLEAN, blueprint : Nat]

ASSUME CollectionsAssumption ==
  /\ NoRow \notin Key \cup PermanentId \cup ContractRow
  /\ BlueprintInput \subseteq PermanentId \X Key
  /\ Wants \in [Request -> [contract : Contract,
                            blueprint : PermanentId \cup {NoRow},
                            minter : Key \cup {NoRow}, signer : Key]]
  /\ Direct \subseteq Registration
  /\ MaxCrashes \in Nat

VARIABLES
  blueprint,   \* the table: a sequence of [permanent_id, minter]
  contract,    \* the table token_contract: [Contract -> row or NoRow]
  session,     \* [Request -> its progress and what its selects found]
  issued,      \* signed forward requests, each with a batch of its own
  spent,       \* those whose nonce the forwarder has counted
  contracts,   \* L1: [Contract -> 0 or its kind]
  log,         \* registrations on L2 that the interpreter has not passed
  lifted,      \* the interpreter's progress
  raised,      \* registrations that failed an assertion of the interpreter
  crashes

tables == <<blueprint, contract>>
l1 == <<spent, contracts>>
vars == <<tables, session, issued, l1, log, lifted, raised, crashes>>

BlueprintRow == [permanent_id : PermanentId \cup {NoRow}, minter : Key]

\* use is the blueprint that was found, 0 for a new one.
Session == [at : {"idle", "found", "sign", "ok", "refused", "error"},
            insert : BOOLEAN, use : Nat]

Init ==
  /\ blueprint = <<>>
  /\ contract = [c \in Contract |-> NoRow]
  /\ session = [r \in Request |-> [at |-> "idle", insert |-> FALSE, use |-> 0]]
  /\ issued = {}
  /\ spent = {}
  /\ contracts = [c \in Contract |-> 0]
  /\ log = <<>>
  /\ lifted = "idle"
  /\ raised = {}
  /\ crashes = 0

MinterOf(row) ==
  IF row = NoRow \/ row.fungible \/ row.blueprint = 0 THEN NoRow
  ELSE blueprint[row.blueprint].minter

-----------------------------------------------------------------------------
(***************************************************************************)
(* The gateway: create_blueprint and register_collection.                  *)
(***************************************************************************)
Taken(p) == \E i \in DOMAIN blueprint : blueprint[i].permanent_id = p

CreateBlueprint(p, minter) ==
  /\ ~Taken(p)
  /\ blueprint' = Append(blueprint, [permanent_id |-> p, minter |-> minter])
  /\ UNCHANGED <<contract, session, issued, l1, log, lifted, raised, crashes>>

Ends(r, at) == session' = [session EXCEPT ![r].at = at]

UsedBy(i) == {c \in Contract : contract[c] # NoRow /\ contract[c].blueprint = i}

Authorized_Slip(r, c, minter) == Wants[r].signer = minter

\* The minter of a collection that has one does not change, and signs.
Authorized(r, c, minter) ==
  /\ MinterOf(contract[c]) \in {NoRow, minter}
  /\ Wants[r].signer = minter

SelectCollection(r) ==
  LET w == Wants[r]
      Goes(i, minter) ==
        IF Authorized(r, w.contract, minter)
        THEN session' = [session EXCEPT ![r] =
               [at |-> "found", use |-> i,
                insert |-> contract[w.contract] = NoRow
                             \/ contract[w.contract].fungible]]
        ELSE Ends(r, "refused")
  IN
  /\ session[r].at = "idle"
  /\ \/ /\ w.blueprint = NoRow
        /\ Goes(0, w.minter)
     \/ /\ w.blueprint # NoRow /\ ~Taken(w.blueprint)
        /\ Ends(r, "error")
     \/ \E i \in DOMAIN blueprint :
          /\ w.blueprint # NoRow /\ blueprint[i].permanent_id = w.blueprint
          /\ IF UsedBy(i) \subseteq {w.contract}
             THEN Goes(i, blueprint[i].minter) ELSE Ends(r, "refused")
  /\ UNCHANGED <<tables, issued, l1, log, lifted, raised, crashes>>

Fits_Slip(c, i, insert) == UsedBy(i) \subseteq {c}

\* An address and a blueprint are unique in token_contract.
Fits(c, i, insert) ==
  /\ insert => contract[c] = NoRow
  /\ i # 0 => UsedBy(i) \subseteq {c}

CommitCollection(r) ==
  LET w == Wants[r]
      s == session[r]
      added == [permanent_id |-> NoRow, minter |-> w.minter]
      use == IF s.use = 0 THEN Len(blueprint) + 1 ELSE s.use
  IN
  /\ s.at = "found"
  /\ \/ /\ Fits(w.contract, s.use, s.insert)
        /\ blueprint' = IF s.use = 0 THEN Append(blueprint, added) ELSE blueprint
        /\ contract' = [contract EXCEPT ![w.contract] =
                          [fungible |-> FALSE, blueprint |-> use]]
        /\ session' = [session EXCEPT ![r].at = "sign", ![r].use = use]
     \/ /\ ~Fits(w.contract, s.use, s.insert)
        /\ Ends(r, "error")
        /\ UNCHANGED tables
  /\ UNCHANGED <<issued, l1, log, lifted, raised, crashes>>

\* EtherRichmetas.register_contract and Forwarder.forward
Forward(r) ==
  LET w == Wants[r] IN
  /\ session[r].at = "sign"
  /\ issued' = issued \cup
       {[batch |-> r, contract |-> w.contract, kind |-> KIND_ERC721,
         mint |-> blueprint[session[r].use].minter]}
  /\ Ends(r, "ok")
  /\ UNCHANGED <<tables, l1, log, lifted, raised, crashes>>

\* A request whose gateway died is asked once more.
CrashRequest(r) ==
  /\ session[r].at \in {"found", "sign"}
  /\ crashes < MaxCrashes
  /\ crashes' = crashes + 1
  /\ Ends(r, "idle")
  /\ UNCHANGED <<tables, issued, l1, log, lifted, raised>>

-----------------------------------------------------------------------------
(***************************************************************************)
(* L1 and L2.  The bridge and the exchange register a contract once.       *)
(***************************************************************************)
RegisterOnL1(reg) ==
  IF contracts[reg.contract] = 0
  THEN /\ contracts' = [contracts EXCEPT ![reg.contract] = reg.kind]
       /\ log' = Append(log, reg)
  ELSE UNCHANGED <<contracts, log>>

\* RichmetasForwarder.execute: the nonce counts even if the inner call fails.
Execute(req) ==
  /\ req \in issued \ spent
  /\ spent' = spent \cup {req}
  /\ RegisterOnL1([contract |-> req.contract, kind |-> req.kind, mint |-> req.mint])
  /\ UNCHANGED <<tables, session, issued, lifted, raised, crashes>>

RegisterDirectly(reg) ==
  /\ contracts[reg.contract] = 0
  /\ RegisterOnL1(reg)
  /\ UNCHANGED <<tables, session, issued, spent, lifted, raised, crashes>>

-----------------------------------------------------------------------------
(***************************************************************************)
(* The interpreter's register_contract.                                    *)
(***************************************************************************)
Agrees(row, reg) ==
  /\ row.fungible = (reg.kind # KIND_ERC721)
  /\ ~row.fungible => MinterOf(row) = reg.mint

SelectContract ==
  LET reg == Head(log)
      row == contract[reg.contract]
  IN
  /\ lifted = "idle"
  /\ log # <<>>
  /\ \/ /\ row = NoRow
        /\ lifted' = "insert"
        /\ UNCHANGED raised
     \/ /\ row # NoRow /\ Agrees(row, reg)
        /\ lifted' = "pass"
        /\ UNCHANGED raised
     \/ /\ row # NoRow /\ ~Agrees(row, reg)
        /\ lifted' = "dead"
        /\ raised' = raised \cup {reg}
  /\ UNCHANGED <<tables, session, issued, l1, log, crashes>>

CommitContract ==
  LET reg == Head(log)
      fungible == reg.kind # KIND_ERC721
      added == [permanent_id |-> NoRow, minter |-> reg.mint]
  IN
  /\ lifted \in {"insert", "pass"}
  /\ \/ /\ lifted = "pass"
        /\ UNCHANGED tables
     \/ /\ lifted = "insert" /\ contract[reg.contract] = NoRow
        /\ blueprint' = IF fungible THEN blueprint ELSE Append(blueprint, added)
        /\ contract' = [contract EXCEPT ![reg.contract] =
             [fungible |-> fungible,
              blueprint |-> IF fungible THEN 0 ELSE Len(blueprint) + 1]]
  /\ log' = Tail(log)
  /\ lifted' = "idle"
  /\ UNCHANGED <<session, issued, l1, raised, crashes>>

\* The insert failed, as the gateway was faster, or an assertion did: the
\* interpreter is started again.
RestartInterpreter ==
  /\ \/ lifted = "dead"
     \/ lifted = "insert" /\ contract[Head(log).contract] # NoRow
  /\ lifted' = "idle"
  /\ UNCHANGED <<tables, session, issued, l1, log, raised, crashes>>

Interpret == SelectContract \/ CommitContract \/ RestartInterpreter

Next ==
  \/ \E b \in BlueprintInput : CreateBlueprint(b[1], b[2])
  \/ \E r \in Request :
       SelectCollection(r) \/ CommitCollection(r) \/ Forward(r) \/ CrashRequest(r)
  \/ \E req \in issued : Execute(req)
  \/ \E reg \in Direct : RegisterDirectly(reg)
  \/ Interpret

Spec == Init /\ [][Next]_vars

FairSpec == Spec /\ WF_vars(Interpret)

-----------------------------------------------------------------------------
CollectionsTypeOK ==
  /\ blueprint \in Seq(BlueprintRow)
  /\ contract \in [Contract -> ContractRow \cup {NoRow}]
  /\ session \in [Request -> Session]
  /\ \A req \in issued : Wants[req.batch].contract = req.contract
  /\ spent \subseteq issued
  /\ contracts \in [Contract -> {0, KIND_ERC20, KIND_ERC721}]
  /\ log \in Seq(Registration)
  /\ lifted \in {"idle", "insert", "pass", "dead"}
  /\ raised \subseteq Registration
  /\ crashes \in 0 .. MaxCrashes

\* However requests overlap with each other and with the interpreter, the
\* minter of a collection never changes once it is in the table (403).
MinterFixed ==
  [][\A c \in Contract :
       MinterOf(contract[c]) # NoRow =>
         MinterOf(contract[c])' = MinterOf(contract[c])]_vars

\* Whatever the gateway has signed names the minter that the table has now: a
\* request that somebody holds back does not get stale.
SignedForMinter ==
  \A req \in issued : MinterOf(contract[req.contract]) = req.mint

Signed == {[contract |-> req.contract, kind |-> req.kind, mint |-> req.mint] : req \in issued}

\* No assertion of the interpreter fails for a registration that the gateway has
\* signed, whatever the admin registers besides and in whichever order L1 takes
\* them: what it meets in the table is what it was signed for.
SignedPasses == raised \cap Signed = {}

\* The tables are well formed, and what the gateway has signed stays good: for
\* the minter, and for the interpreter that meets it after L1 and L2.
CollectionsInv == CollectionsTypeOK /\ SignedForMinter /\ SignedPasses

\* The interpreter passes every registration, unless the admin went past the
\* gateway with one that the table contradicts.
Passed == log # <<>> ~> log = <<>> \/ raised \cap Direct # {}
=============================================================================
