-------------------------------- MODULE Clients --------------------------------
(***************************************************************************)
(* Clients: which stark key an ethereum address belongs to.  The gateway   *)
(* writes the pair into the table account before it sends the transaction  *)
(* to L2; the interpreter writes it when it meets the transaction in a     *)
(* block, and creates the row of any key that a block names; and other     *)
(* handlers create the row of a key that they do not find.                 *)
(*                                                                         *)
(* An address is unique in the table and a key is not, so two sessions     *)
(* that both found no row for a key may both insert one.  And L2 refuses   *)
(* what reaches it while the admin has paused it.                          *)
(***************************************************************************)
EXTENDS Integers, Sequences, SequencesExt, FiniteSets

CONSTANTS
  Key, Address,  \* stark keys and ethereum addresses
  Nobody,        \* the felt 0, an unused client on L2
  NoRow,         \* a null column, or no row
  Request,       \* POST /clients requests
  KeyOf,         \* KeyOf[r]: the stark_key of r
  AddressOf,     \* AddressOf[r]: the address of r
  Direct,        \* <<key, address>> that users register on L2 themselves
  Depositor,     \* keys that some other transaction of a block names
  Lifter,        \* keys that other handlers of the gateway insert
  MaxRows,       \* bound: rows of a key when another handler inserts one
  MaxFaults      \* bound: crashes, and transactions that meet a pause

ASSUME ClientsAssumption ==
  /\ Nobody \notin Key
  /\ NoRow \notin Key \cup Address
  /\ KeyOf \in [Request -> Key] /\ AddressOf \in [Request -> Address]
  /\ Direct \subseteq Key \X Address
  /\ Depositor \subseteq Key /\ Lifter \subseteq Key
  /\ MaxRows \in Nat /\ MaxFaults \in Nat

VARIABLES
  client,    \* L2: [Address -> Key or Nobody]
  pool,      \* transactions that L2 has received and not executed
  refused,   \* those that met a pause of L2 (history)
  log,       \* executed transactions that the interpreter has not passed
  account,   \* the table: a sequence of [key, address], in the order of their ids
  session,   \* [Request -> its progress and what its select found]
  lifted,    \* what the interpreter's select found, or its progress
  overlapped, \* whether two open sessions were about one key or address (history)
  crashes

gateway == <<account, session>>
vars == <<client, pool, refused, log, account, session, lifted, overlapped, crashes>>

Row == [key : Key, address : Address \cup {NoRow}]

\* row is the index of the row that was found, 0 for none, and writes whether the
\* commit inserts or updates it: an address that was there is not written again.
\* A request that was answered with a conflict or an error is idle: it may be sent
\* again.
Session == [at : {"idle", "found", "relay", "ok"}, row : Nat, writes : BOOLEAN]
Lifted == [at : {"idle", "found", "dead"}, row : Nat, writes : BOOLEAN]

\* The interpreter has nothing in hand.
Off(at) == [at |-> at, row |-> 0, writes |-> FALSE]

Init ==
  /\ client = [a \in Address |-> Nobody]
  /\ pool = {}
  /\ refused = {}
  /\ log = <<>>
  /\ account = <<>>
  /\ session = [r \in Request |-> Off("idle")]
  /\ lifted = Off("idle")
  /\ overlapped = FALSE
  /\ crashes = 0

-----------------------------------------------------------------------------
(***************************************************************************)
(* The gateway's register_client.                                          *)
(***************************************************************************)
Sets(r, at, row) ==
  session' = [session EXCEPT ![r] =
    [at |-> at, row |-> row,
     writes |-> at = "found" /\ (row = 0 \/ account[row].address = NoRow)]]

Tx(k, a) == [key |-> k, address |-> a]

\* What open sessions are about
InHand ==
  {Tx(KeyOf[r], AddressOf[r]) : r \in {q \in Request : session[q].at = "found"}}
    \cup (IF lifted.at = "found" THEN {Head(log)} ELSE {})

\* A session opens for key k and address a; it does not wait for others.
Touch(k, a) ==
  overlapped' = \/ overlapped
                \/ \E tx \in InHand : tx.key = k \/ (tx.address = a /\ a # NoRow)

Matches_Slip(k, a) == {i \in DOMAIN account : account[i].address = a}

\* The rows of the key or of the address
Matches(k, a) ==
  {i \in DOMAIN account : account[i].key = k \/ account[i].address = a}

\* The select, and the comparison of the row it finds with the request
SelectClient(r) ==
  LET k == KeyOf[r]
      a == AddressOf[r]
      found == Matches(k, a)
  IN
  /\ session[r].at = "idle"
  /\ Touch(k, a)
  /\ \/ found = {} /\ Sets(r, "found", 0)
     \/ /\ Cardinality(found) > 1     \* MultipleResultsFound
        /\ Sets(r, "idle", 0)
     \/ \E i \in found :
          /\ found = {i}
          /\ IF account[i].key = k /\ account[i].address \in {NoRow, a}
             THEN Sets(r, "found", i) ELSE Sets(r, "idle", 0)
  /\ UNCHANGED <<client, pool, log, account, lifted, crashes, refused>>

\* The rows after row i, or a new row if i is 0, gets key k and address a.
Written(i, k, a) ==
  IF i = 0 THEN Append(account, [key |-> k, address |-> a])
  ELSE [account EXCEPT ![i].address = a]

\* The rows after the commit of session s, for key k and address a
Committed(s, k, a) == IF s.writes THEN Written(s.row, k, a) ELSE account

Unique_Slip(rows) == TRUE

Unique(rows) ==
  \A i, j \in DOMAIN rows :
    i # j /\ rows[i].address # NoRow => rows[i].address # rows[j].address

\* session.commit
CommitClient(r) ==
  LET rows == Committed(session[r], KeyOf[r], AddressOf[r]) IN
  /\ session[r].at = "found"
  /\ \/ Unique(rows) /\ account' = rows /\ Sets(r, "relay", 0)
     \/ ~Unique(rows) /\ UNCHANGED account /\ Sets(r, "idle", 0)
  /\ UNCHANGED <<client, pool, log, lifted, overlapped, crashes, refused>>

RelayClient_Slip(r) ==
  /\ session[r].at = "relay"
  /\ Sets(r, "ok", 0)
  /\ UNCHANGED <<client, pool, log, account, lifted, overlapped, crashes, refused>>

\* StarkRichmetas.register_client, and the answer 200
RelayClient(r) ==
  /\ session[r].at = "relay"
  /\ pool' = pool \cup {Tx(KeyOf[r], AddressOf[r])}
  /\ Sets(r, "ok", 0)
  /\ UNCHANGED <<client, log, account, lifted, overlapped, crashes, refused>>

CrashRequest(r) ==
  /\ session[r].at \in {"found", "relay"}
  /\ crashes + Cardinality(refused) < MaxFaults
  /\ crashes' = crashes + 1
  /\ Sets(r, "idle", 0)
  /\ UNCHANGED <<client, pool, log, account, lifted, overlapped, refused>>

Named(k) == \E i \in DOMAIN account : account[i].key = k

\* create_blueprint, register_collection or a transfer's lift_account inserts a
\* key that it did not find, a while ago: if there is one, sessions overlapped.
LiftElsewhere(k) ==
  /\ Cardinality({i \in DOMAIN account : account[i].key = k}) < MaxRows
  /\ account' = Written(0, k, NoRow)
  /\ overlapped' = \/ overlapped \/ Named(k)
                   \/ \E tx \in InHand : tx.key = k
  /\ UNCHANGED <<client, pool, log, session, lifted, crashes, refused>>

-----------------------------------------------------------------------------
(***************************************************************************)
(* L2: register_client of Richmetas.cairo, and any other transaction that  *)
(* makes the interpreter look an account up.                               *)
(***************************************************************************)
SendDirectly(k, a) ==
  /\ Tx(k, a) \notin pool
  /\ client[a] = Nobody
  /\ pool' = pool \cup {Tx(k, a)}
  /\ UNCHANGED <<client, log, gateway, lifted, overlapped, crashes, refused>>

\* check_on comes first: the admin may have paused the exchange by now, or not.
ExecuteClient(tx) ==
  /\ tx \in pool
  /\ pool' = pool \ {tx}
  /\ \E paused \in BOOLEAN :
       /\ \/ /\ ~paused /\ client[tx.address] = Nobody
             /\ client' = [client EXCEPT ![tx.address] = tx.key]
             /\ log' = Append(log, tx)
          \/ /\ paused \/ client[tx.address] # Nobody
             /\ UNCHANGED <<client, log>>
       /\ refused' = IF paused THEN refused \cup {tx} ELSE refused
       /\ crashes + Cardinality(refused') <= MaxFaults
  /\ UNCHANGED <<gateway, lifted, overlapped, crashes>>

ExecuteOther(k) ==
  /\ ~Named(k)
  /\ Tx(k, NoRow) \notin Range(log)
  /\ log' = Append(log, Tx(k, NoRow))
  /\ UNCHANGED <<client, pool, gateway, lifted, overlapped, crashes, refused>>

-----------------------------------------------------------------------------
(***************************************************************************)
(* The interpreter's lift_account.                                         *)
(***************************************************************************)
Finds(i, a) ==
  [at |-> "found", row |-> i,
   writes |-> i = 0 \/ (a # NoRow /\ account[i].address # a)]

LiftAccount ==
  LET tx == Head(log)
      found == {i \in DOMAIN account : account[i].key = tx.key}
  IN
  /\ lifted.at = "idle"
  /\ log # <<>>
  /\ Touch(tx.key, tx.address)
  /\ lifted' = IF Cardinality(found) > 1       \* MultipleResultsFound
               THEN Off("dead")
               ELSE Finds(IF found = {} THEN 0 ELSE CHOOSE i \in found : TRUE, tx.address)
  /\ UNCHANGED <<client, pool, log, gateway, crashes, refused>>

CommitAccount_Slip ==
  /\ lifted.at = "found"
  /\ lifted' = Off("idle")
  /\ UNCHANGED <<client, pool, log, gateway, overlapped, crashes, refused>>

CommitAccount ==
  LET tx == Head(log)
      rows == Committed(lifted, tx.key, tx.address)
  IN
  /\ lifted.at = "found"
  /\ \/ /\ Unique(rows)
        /\ account' = rows
        /\ log' = Tail(log)
        /\ lifted' = Off("idle")
     \/ /\ ~Unique(rows)
        /\ lifted' = Off("dead")
        /\ UNCHANGED <<account, log>>
  /\ UNCHANGED <<client, pool, session, overlapped, crashes, refused>>

\* The interpreter is started again, and meets the same transaction.
RestartInterpreter ==
  /\ lifted.at = "dead"
  /\ lifted' = Off("idle")
  /\ UNCHANGED <<client, pool, log, gateway, overlapped, crashes, refused>>

CrashInterpreter ==
  /\ lifted.at = "found"
  /\ crashes + Cardinality(refused) < MaxFaults
  /\ crashes' = crashes + 1
  /\ lifted' = Off("idle")
  /\ UNCHANGED <<client, pool, log, gateway, overlapped, refused>>

-----------------------------------------------------------------------------
Interpret == LiftAccount \/ CommitAccount

Next ==
  \/ \E r \in Request :
       SelectClient(r) \/ CommitClient(r) \/ RelayClient(r) \/ CrashRequest(r)
  \/ \E k \in Lifter : LiftElsewhere(k)
  \/ \E d \in Direct : SendDirectly(d[1], d[2])
  \/ \E tx \in pool : ExecuteClient(tx)
  \/ \E k \in Depositor : ExecuteOther(k)
  \/ Interpret \/ RestartInterpreter \/ CrashInterpreter

Spec == Init /\ [][Next]_vars

\* L2 executes whatever it has received, the interpreter runs or is restarted, and
\* the gateway does not hang between a select and a commit.
FairSpec ==
  /\ Spec
  /\ \A r \in Request : WF_vars(CommitClient(r))
  /\ WF_vars(Interpret) /\ WF_vars(RestartInterpreter)
  /\ \A k \in Key, a \in Address : WF_vars(ExecuteClient(Tx(k, a)))

-----------------------------------------------------------------------------
ClientsTypeOK ==
  /\ client \in [Address -> Key \cup {Nobody}]
  /\ pool \subseteq [key : Key, address : Address]
  /\ refused \subseteq [key : Key, address : Address]
  /\ log \in Seq(Row)
  /\ account \in Seq(Row)
  /\ session \in [Request -> Session]
  /\ lifted \in Lifted
  /\ overlapped \in BOOLEAN
  /\ crashes \in Nat

\* As long as no two sessions are open for one key or one address, a key has one
\* row, and an address one key: later queries take that for granted (scalar_one).
OneRow ==
  ~overlapped => \A i, j \in DOMAIN account : i # j =>
    /\ account[i].key # account[j].key
    /\ account[i].address # NoRow => account[i].address # account[j].address

\* The table is well formed and has the rows that register_client and
\* lift_account expect.
ClientsInv == ClientsTypeOK /\ OneRow

WentDirectly(a) == <<client[a], a>> \in Direct

\* The user of key k went to L2 without the gateway, with another address than
\* the gateway is asked for.
Wayward(k) ==
  \E a \in Address, r \in Request :
    client[a] = k /\ WentDirectly(a) /\ KeyOf[r] = k /\ AddressOf[r] # a

\* Of requests that do not overlap, what the gateway answered 200 for is not
\* answered 200 for anybody else: a key has one address and an address one key.
\* Only the interpreter can change that, for a user who goes another way.
AnsweredOnce ==
  ~overlapped => \A r, s \in Request :
    /\ session[r].at = "ok" /\ session[s].at = "ok"
    /\ ~Wayward(KeyOf[r]) /\ ~Wayward(KeyOf[s])
    => (KeyOf[r] = KeyOf[s]) = (AddressOf[r] = AddressOf[s])

\* The key that L2 knows for address a is the client of no other address there,
\* and asks the gateway for no other.
Settled(a) ==
  /\ client[a] # Nobody
  /\ \A b \in Address : client[b] = client[a] => b = a
  /\ \A r \in Request : KeyOf[r] = client[a] => AddressOf[r] = a

\* Whatever overlaps: once the interpreter has passed the registration of an
\* address, the gateway shows the key that L2 knows, and goes on to show it.
WarmAgrees ==
  \A a \in Address :
    Settled(a) /\ Tx(client[a], a) \notin Range(log) =>
      {account[i].key : i \in {j \in DOMAIN account : account[j].address = a}}
        = {client[a]}

\* The interpreter can write every registration that L2 has accepted, so it
\* passes it, although the gateway wrote something about the two before; unless
\* sessions overlapped, or a user registered an address without the gateway.
Passed ==
  log # <<>> ~> log = <<>> \/ overlapped \/ \E a \in Address : WentDirectly(a)

\* Whoever was answered 200 is the client of this address on L2 in the end,
\* unless sessions overlapped, or somebody registered it without the gateway, or
\* was asked for it and went another way; or unless the transaction met a pause:
\* nobody sends it again, and the row that is in the table says otherwise.
Registered ==
  \A r \in Request :
    session[r].at = "ok" ~>
      \/ client[AddressOf[r]] = KeyOf[r]
      \/ Tx(KeyOf[r], AddressOf[r]) \in refused
      \/ overlapped \/ WentDirectly(AddressOf[r])
      \/ \E s \in Request : AddressOf[s] = AddressOf[r] /\ Wayward(KeyOf[s])
=============================================================================
