------------------------------ MODULE Transfers ------------------------------
(***************************************************************************)
(* Transfers of a fungible contract, off chain.  The gateway books a       *)
(* transfer in the database as soon as a user asks for it, and then sends  *)
(* it to the sequencer; the interpreter books what it meets in a block and *)
(* has never heard of, resends what got lost and takes back what L2        *)
(* rejected.  The two are processes of their own with one database, and    *)
(* every await is a point where the other one moves.                       *)
(*                                                                         *)
(* A session (of SQLAlchemy) reads a balance once, changes its own copy    *)
(* and writes the result at commit; a failed commit, or a crash, leaves no *)
(* trace.  This is what PostgreSQL's read committed level allows: a row    *)
(* lock makes the second writer wait and does not make it read again.      *)
(***************************************************************************)
EXTENDS Integers, Sequences, SequencesExt, FiniteSets, FiniteSetsExt

CONSTANTS
  Hash,         \* transaction hashes: signed transfers, one contract
  Account,      \* keys of users
  Terms,        \* Terms[h]: from_account, to_account and amount of h
  Request,      \* clients that POST /transfer, again and again
  HashOf,       \* HashOf[r]: the transfer that r asks for
  Opening,      \* balances when both sides start
  NoRow,        \* absent from the database, or not read by a session
  Interpreter,  \* the interpreter's session; the others are Request's
  PollLimit,    \* limit(20)
  MaxRows,      \* bound: rows of a key that other handlers bring about
  MaxLag,       \* bound: blocks stored and not interpreted yet
  MaxCrashes    \* bound: crashes of either process

\* ACCEPTED_ON_L1 is treated like ACCEPTED_ON_L2.
Status ==
  {"NOT_RECEIVED", "RECEIVED", "PENDING", "REJECTED", "ACCEPTED_ON_L2"}

ASSUME TransfersAssumption ==
  /\ Terms \in [Hash -> [from : Account, to : Account, amount : Nat]]
  /\ HashOf \in [Request -> Hash]
  /\ Opening \in [Account -> Nat]
  /\ IsFiniteSet(Hash)         \* hashes are felts
  /\ Interpreter \notin Request
  /\ NoRow \notin Int \cup Hash \cup Status
  /\ PollLimit \in Nat \ {0} /\ MaxLag \in Nat \ {0} /\ MaxCrashes \in Nat
  /\ MaxRows \in Nat \ {0}

VARIABLES
  status,    \* [Hash -> Status]: what get_transaction_status answers
  l2,        \* [Account -> Nat]: the balances on L2
  pending,   \* the transfers of the block that the sequencer is building
  chain,     \* blocks in the database that the interpreter has not passed
  row,       \* table transfer: [Hash -> its status, or NoRow]
  account,   \* table account: [Account -> how many rows the key has]
  balance,   \* table balance: [Account -> amount, or NoRow]
  session,   \* [Request \cup {Interpreter} -> Session]
  applied,   \* how often a transfer was booked (history)
  refunded,  \* how often a transfer was taken back (history)
  overlapped, \* whether two open sessions have touched one balance (history)
  crashes

l2side == <<status, l2, pending, chain>>
books == <<row, account, balance, applied, refunded>>
tables == <<books, overlapped>>
vars == <<l2side, tables, session, crashes>>

Process == Request \cup {Interpreter}

Session ==
  [at : {"idle", "exec", "account", "lift", "booked", "spawn", "poll",
         "resend", "refund"},
   hash : Hash \cup {NoRow},               \* the transfer at hand
   todo : Seq(Account),                    \* accounts, then balances, to be lifted
   opened : SUBSET Account,                \* accounts it inserts
   loaded : [Account -> Int \cup {NoRow}], \* balances as the session sees them
   fresh : SUBSET Account,                 \* balances it will insert
   rows : [Hash -> Status \cup {NoRow}],   \* transfers it will write
   applies : SUBSET Hash, refunds : SUBSET Hash,
   txs : Seq(Hash), polled : SUBSET Hash]

NewSession ==
  [at |-> "idle", hash |-> NoRow, todo |-> <<>>,
   opened |-> {}, loaded |-> [a \in Account |-> NoRow], fresh |-> {},
   rows |-> [h \in Hash |-> NoRow], applies |-> {}, refunds |-> {},
   txs |-> <<>>, polled |-> {}]

Row(amount) == IF amount = 0 THEN NoRow ELSE amount
Amount(r) == IF r = NoRow THEN 0 ELSE r

Init ==
  /\ status = [h \in Hash |-> "NOT_RECEIVED"]
  /\ l2 = Opening
  /\ pending = <<>>
  /\ chain = <<>>
  /\ row = [h \in Hash |-> NoRow]
  /\ account = [a \in Account |-> IF Opening[a] = 0 THEN 0 ELSE 1]
  /\ balance = [a \in Account |-> Row(Opening[a])]
  /\ session = [p \in Process |-> NewSession]
  /\ applied = [h \in Hash |-> 0]
  /\ refunded = [h \in Hash |-> 0]
  /\ overlapped = FALSE
  /\ crashes = 0

-----------------------------------------------------------------------------
(***************************************************************************)
(* L2.  A transfer is executed at most once; the sequencer may reject any. *)
(***************************************************************************)
Received_Slip(h) == status' = [status EXCEPT ![h] = row[h]]

Received(h) ==
  status' = IF status[h] = "NOT_RECEIVED"
            THEN [status EXCEPT ![h] = "RECEIVED"] ELSE status

\* add_transaction
AddTransaction(h) == Received(h) /\ UNCHANGED <<l2, pending, chain>>

\* A user sends a signed transfer to the sequencer without the gateway.
SendDirectly(h) ==
  /\ status[h] = "NOT_RECEIVED"
  /\ AddTransaction(h)
  /\ UNCHANGED <<tables, session, crashes>>

Moved(b, from, to, v) ==
  LET debited == [b EXCEPT ![from] = @ - v] IN [debited EXCEPT ![to] = @ + v]

Execute(h) ==
  /\ status[h] = "RECEIVED"
  /\ l2[Terms[h].from] >= Terms[h].amount
  /\ status' = [status EXCEPT ![h] = "PENDING"]
  /\ l2' = Moved(l2, Terms[h].from, Terms[h].to, Terms[h].amount)
  /\ pending' = Append(pending, h)
  /\ UNCHANGED <<chain, tables, session, crashes>>

Reject(h) ==
  /\ status[h] = "RECEIVED"
  /\ status' = [status EXCEPT ![h] = "REJECTED"]
  /\ UNCHANGED <<l2, pending, chain, tables, session, crashes>>

\* A block is closed and the crawler stores it; it may have no transfer.
Publish ==
  /\ Len(chain) < MaxLag
  /\ chain' = Append(chain, pending)
  /\ status' = [h \in Hash |-> IF status[h] = "PENDING"
                               THEN "ACCEPTED_ON_L2" ELSE status[h]]
  /\ pending' = <<>>
  /\ UNCHANGED <<l2, tables, session, crashes>>

-----------------------------------------------------------------------------
(***************************************************************************)
(* TransferService, in the session of process p.                           *)
(***************************************************************************)
Sides(h) == <<Terms[h].from, Terms[h].to>>

Holds(p) ==
  {a \in Account : session[p].loaded[a] # NoRow} \cup Range(session[p].todo)

\* Session p is about to touch both balances of h; it does not wait for others.
Touch(p, h) ==
  overlapped' = \/ overlapped
                \/ \E q \in Process \ {p} : Holds(q) \cap Range(Sides(h)) # {}

\* transfer; what it adds to the session nobody else sees before the commit.
Book(s, h, st) ==
  [s EXCEPT !.at = "account", !.hash = h, !.rows[h] = st,
            !.todo = Sides(h) \o Sides(h)]

\* The rows of a's key that session s finds, its own included (autoflush).
RowsFound(s, a) == account[a] + IF a \in s.opened THEN 1 ELSE 0

\* lift_account: nothing makes a key unique, so sessions that overlap may insert
\* it twice, after which MultipleResultsFound is raised.
LiftAccount(p) ==
  LET s == session[p]
      a == Head(s.todo)
  IN
  /\ s.at = "account"
  /\ session' = [session EXCEPT ![p] =
       IF RowsFound(s, a) > 1 THEN NewSession
       ELSE [s EXCEPT !.todo = Tail(s.todo),
                      !.at = IF Len(s.todo) = 3 THEN "lift" ELSE "account",
                      !.opened = IF RowsFound(s, a) = 0
                                 THEN s.opened \cup {a} ELSE s.opened]]
  /\ UNCHANGED <<l2side, tables, crashes>>

\* Another handler inserts an account, found missing a while ago: register_client
\* and create_blueprint of the gateway, and the interpreter's other handlers.
LiftElsewhere(a) ==
  /\ account[a] < MaxRows
  /\ account' = [account EXCEPT ![a] = @ + 1]
  /\ UNCHANGED <<l2side, row, balance, applied, refunded, overlapped, session,
                 crashes>>

\* lift_balance: a balance that the session has is not read again, and an account
\* that the session inserts has none.
LiftBalance(p) ==
  LET s == session[p]
      a == Head(s.todo)
      none == a \in s.opened \/ balance[a] = NoRow
  IN
  /\ s.at \in {"lift", "refund"}
  /\ s.todo # <<>>
  /\ session' = [session EXCEPT ![p] =
       [s EXCEPT !.todo = Tail(s.todo),
                 !.loaded[a] = IF s.loaded[a] # NoRow THEN s.loaded[a]
                               ELSE IF none THEN 0 ELSE balance[a],
                 !.fresh = IF s.loaded[a] = NoRow /\ none
                           THEN s.fresh \cup {a} ELSE s.fresh]]
  /\ UNCHANGED <<l2side, tables, crashes>>

\* transfer, its last two lines
ApplyTransfer(p) ==
  LET s == session[p]
      t == Terms[s.hash]
  IN
  /\ s.at = "lift"
  /\ s.todo = <<>>
  /\ session' = [session EXCEPT ![p] =
       [s EXCEPT !.at = IF p = Interpreter THEN "exec" ELSE "booked",
                 !.loaded = Moved(s.loaded, t.from, t.to, t.amount),
                 !.applies = s.applies \cup {s.hash}]]
  /\ UNCHANGED <<l2side, tables, crashes>>

\* reject; its first line is in PollTransfer
ApplyReject(p) ==
  LET s == session[p]
      t == Terms[s.hash]
  IN
  /\ s.at = "refund"
  /\ s.todo = <<>>
  /\ session' = [session EXCEPT ![p] =
       [s EXCEPT !.at = "poll",
                 !.loaded = Moved(s.loaded, t.to, t.from, t.amount),
                 !.refunds = s.refunds \cup {s.hash}]]
  /\ UNCHANGED <<l2side, tables, crashes>>

Flush_Slip(s) ==
  /\ row' = [h \in Hash |-> IF s.rows[h] = NoRow THEN row[h] ELSE s.rows[h]]
  /\ account' = [a \in Account |-> account[a] + IF a \in s.opened THEN 1 ELSE 0]
  /\ balance' = [a \in Account |-> balance[a]]
  /\ applied' = [h \in Hash |-> applied[h] + IF h \in s.applies THEN 1 ELSE 0]
  /\ refunded' = [h \in Hash |-> refunded[h] + IF h \in s.refunds THEN 1 ELSE 0]
  /\ UNCHANGED overlapped

\* session.commit: what the session changed replaces what is there.  (Each row of
\* account has a balance of its own; of a key with two, balance is the one that
\* was written last.)
Flush(s) ==
  /\ row' = [h \in Hash |-> IF s.rows[h] = NoRow THEN row[h] ELSE s.rows[h]]
  /\ account' = [a \in Account |-> account[a] + IF a \in s.opened THEN 1 ELSE 0]
  /\ balance' = [a \in Account |-> IF s.loaded[a] = NoRow
                                   THEN balance[a] ELSE s.loaded[a]]
  /\ applied' = [h \in Hash |-> applied[h] + IF h \in s.applies THEN 1 ELSE 0]
  /\ refunded' = [h \in Hash |-> refunded[h] + IF h \in s.refunds THEN 1 ELSE 0]
  /\ UNCHANGED overlapped

Conflict_Slip(s) == \E a \in s.fresh \ s.opened : balance[a] # NoRow

\* IntegrityError: the hash of a transfer is unique, and so is the balance of a
\* row of account.
Conflict(s) ==
  \/ \E h \in s.applies : row[h] # NoRow
  \/ \E a \in s.fresh \ s.opened : balance[a] # NoRow

-----------------------------------------------------------------------------
(***************************************************************************)
(* The gateway's handler of a transfer request r.                          *)
(***************************************************************************)
TransferRequest(r) ==
  LET h == HashOf[r] IN
  /\ session[r].at = "idle"
  /\ \/ /\ row[h] # NoRow
        /\ session' = [session EXCEPT ![r] = NewSession]
        /\ UNCHANGED overlapped
     \/ /\ row[h] = NoRow
        /\ Touch(r, h)
        /\ session' = [session EXCEPT ![r] =
                         Book(session[r], h, "NOT_RECEIVED")]
  /\ UNCHANGED <<l2side, books, crashes>>

CommitRequest(r) ==
  /\ session[r].at = "booked"
  /\ \/ /\ Conflict(session[r])
        /\ session' = [session EXCEPT ![r] = NewSession]
        /\ UNCHANGED tables
     \/ /\ ~Conflict(session[r])
        /\ Flush(session[r])
        /\ session' = [session EXCEPT ![r] = [NewSession EXCEPT !.at = "spawn"]]
  /\ UNCHANGED <<l2side, crashes>>

\* The spawned job may also fail, see Crash.
SpawnSend(r) ==
  /\ session[r].at = "spawn"
  /\ AddTransaction(HashOf[r])
  /\ session' = [session EXCEPT ![r] = NewSession]
  /\ UNCHANGED <<tables, crashes>>

-----------------------------------------------------------------------------
(***************************************************************************)
(* The interpreter: the transfers of a block, then the polling.            *)
(***************************************************************************)
Mine == session[Interpreter]

Become(s) == session' = [session EXCEPT ![Interpreter] = s]

\* A transfer's status, with what the session has not committed yet.
Seen(h) == IF Mine.rows[h] = NoRow THEN row[h] ELSE Mine.rows[h]

BeginBlock ==
  /\ Mine.at = "idle"
  /\ chain # <<>>
  /\ Become([Mine EXCEPT !.at = "exec", !.txs = Head(chain)])
  /\ UNCHANGED <<l2side, tables, crashes>>

\* RichmetasInterpreter.transfer for a fungible contract
ExecTransfer ==
  LET h == Head(Mine.txs)
      rest == [Mine EXCEPT !.txs = Tail(Mine.txs)]
  IN
  /\ Mine.at = "exec"
  /\ Mine.txs # <<>>
  /\ \/ /\ Seen(h) # NoRow
        /\ Become([rest EXCEPT !.rows[h] = "ACCEPTED_ON_L2"])
        /\ UNCHANGED overlapped
     \/ /\ Seen(h) = NoRow
        /\ Touch(Interpreter, h)
        /\ Become(Book(rest, h, "ACCEPTED_ON_L2"))
  /\ UNCHANGED <<l2side, books, crashes>>

Unresolved_Slip == {h \in Hash : Seen(h) = "RECEIVED"}

Unresolved == {h \in Hash : Seen(h) \in {"NOT_RECEIVED", "RECEIVED"}}

\* The query has a limit and no order.
SelectUnresolved ==
  /\ Mine.at = "exec"
  /\ Mine.txs = <<>>
  /\ \E S \in SUBSET Unresolved :
       /\ Cardinality(S) = Min({PollLimit, Cardinality(Unresolved)})
       /\ Become([Mine EXCEPT !.at = "poll", !.polled = S])
  /\ UNCHANGED <<l2side, tables, crashes>>

\* get_transaction_status, and what is done with the answer
PollTransfer(h) ==
  LET rest == [Mine EXCEPT !.polled = Mine.polled \ {h}] IN
  /\ Mine.at = "poll"
  /\ h \in Mine.polled
  /\ \/ /\ status[h] = "NOT_RECEIVED"
        /\ Become([rest EXCEPT !.at = "resend", !.hash = h])
        /\ UNCHANGED overlapped
     \/ /\ status[h] = "REJECTED"
        /\ Touch(Interpreter, h)
        /\ Become([rest EXCEPT !.at = "refund", !.hash = h, !.todo = Sides(h),
                               !.rows[h] = "REJECTED"])
     \/ /\ status[h] \notin {"NOT_RECEIVED", "REJECTED"}
        /\ Become([rest EXCEPT !.rows[h] = status[h]])
        /\ UNCHANGED overlapped
  /\ UNCHANGED <<l2side, books, crashes>>

Resend ==
  /\ Mine.at = "resend"
  /\ AddTransaction(Mine.hash)
  /\ Become([Mine EXCEPT !.at = "poll"])
  /\ UNCHANGED <<tables, crashes>>

CommitBlock ==
  /\ Mine.at = "poll"
  /\ Mine.polled = {}
  /\ \/ /\ Conflict(Mine)      \* the process dies, and is started again
        /\ UNCHANGED <<tables, chain>>
     \/ /\ ~Conflict(Mine)
        /\ Flush(Mine)
        /\ chain' = Tail(chain)
  /\ Become(NewSession)
  /\ UNCHANGED <<status, l2, pending, crashes>>

\* A process dies, or one of its calls fails; nobody need ask again.
Crash(p) ==
  /\ session[p].at # "idle"
  /\ crashes < MaxCrashes
  /\ session' = [session EXCEPT ![p] = NewSession]
  /\ crashes' = crashes + 1
  /\ UNCHANGED <<l2side, tables>>

-----------------------------------------------------------------------------
InterpreterStep ==
  \/ BeginBlock \/ ExecTransfer \/ SelectUnresolved \/ Resend \/ CommitBlock
  \/ \E h \in Hash : PollTransfer(h)
  \/ LiftAccount(Interpreter) \/ LiftBalance(Interpreter)
  \/ ApplyTransfer(Interpreter) \/ ApplyReject(Interpreter)

RequestStep(r) ==
  \/ TransferRequest(r) \/ CommitRequest(r) \/ SpawnSend(r)
  \/ LiftAccount(r) \/ LiftBalance(r) \/ ApplyTransfer(r)

Decide(h) == Execute(h) \/ Reject(h)

Next ==
  \/ InterpreterStep
  \/ \E r \in Request : RequestStep(r)
  \/ \E h \in Hash : SendDirectly(h) \/ Decide(h)
  \/ \E a \in Account : LiftElsewhere(a)
  \/ Publish
  \/ \E p \in Process : Crash(p)

Spec == Init /\ [][Next]_vars

(***************************************************************************)
(* L2 goes on and the interpreter runs, or is restarted, for ever.  The    *)
(* gateway need not: it may die between its commit and its send.           *)
(***************************************************************************)
Fairness ==
  /\ WF_vars(InterpreterStep)
  /\ WF_vars(Publish)
  /\ \A h \in Hash : WF_vars(Decide(h))
  /\ \A r \in Request : WF_vars(LiftAccount(r) \/ LiftBalance(r)
                                \/ ApplyTransfer(r) \/ CommitRequest(r))

FairSpec == Spec /\ Fairness

-----------------------------------------------------------------------------
TransfersTypeOK ==
  /\ status \in [Hash -> Status]
  /\ l2 \in [Account -> Int]
  /\ pending \in Seq(Hash)
  /\ chain \in Seq(Seq(Hash))
  /\ row \in [Hash -> Status \cup {NoRow}]
  /\ account \in [Account -> Nat]
  /\ balance \in [Account -> Int \cup {NoRow}]
  /\ session \in [Process -> Session]
  /\ applied \in [Hash -> Nat]
  /\ refunded \in [Hash -> Nat]
  /\ overlapped \in BOOLEAN
  /\ crashes \in 0 .. MaxCrashes

\* However requests, retries, blocks and polls interleave and wherever a process
\* dies, a transfer is booked once, by whichever process comes first, and is
\* taken back once, if and only if the database calls it rejected; and it is
\* called rejected only if L2 has rejected it.
BookedOnce ==
  \A h \in Hash :
    /\ applied[h] = IF row[h] = NoRow THEN 0 ELSE 1
    /\ refunded[h] = IF row[h] = "REJECTED" THEN 1 ELSE 0
    /\ row[h] = "REJECTED" => status[h] = "REJECTED"

OnL2(h) == status[h] \in {"PENDING", "ACCEPTED_ON_L2"}
InBooks(h) == row[h] \notin {NoRow, "REJECTED"}

\* What transfer h adds to the balance of a.
Effect(h, a) ==
  (IF a = Terms[h].to THEN Terms[h].amount ELSE 0)
    - (IF a = Terms[h].from THEN Terms[h].amount ELSE 0)

\* What the transfers S add to it.
Net(S, a) == SumFunctionOnSet([h \in Hash |-> Effect(h, a)], S)

\* As long as no two open sessions have touched one balance, the database differs
\* from L2 by the transfers that only one of them has yet, at every moment.
BooksReconcile ==
  ~overlapped => \A a \in Account :
    Amount(balance[a]) + Net({h \in Hash : OnL2(h) /\ ~InBooks(h)}, a)
      = l2[a] + Net({h \in Hash : InBooks(h) /\ ~OnL2(h)}, a)

\* A transfer that the gateway did not book waits for the interpreter, and one of
\* its accounts has two rows: lift_account raises at it whenever it is tried.
Blocked ==
  \E h \in Hash :
    /\ OnL2(h) /\ row[h] = NoRow
    /\ \E a \in Range(Sides(h)) : account[a] > 1

\* Every transfer that was booked is settled in the end: in a block, or taken
\* back.  The gateway may die before it sends one, and the interpreter while it
\* resends one; the poll's limit starves nobody.  Only two rows of one key, which
\* sessions that overlap insert, may keep the interpreter from it.
Settled ==
  \A h \in Hash :
    row[h] # NoRow ~> \/ row[h] \in {"ACCEPTED_ON_L2", "REJECTED"}
                      \/ Blocked
=============================================================================
