------------------------------- MODULE Monitor -------------------------------
(***************************************************************************)
(* The Ethereum monitor: it reads the log of withdrawals that L1 has       *)
(* consumed and gives each withdrawal row, which the interpreter has       *)
(* written, the event that is its receipt.  It may die at any step; it is  *)
(* started again from the last L1 block in its table.                      *)
(***************************************************************************)
EXTENDS Integers, Sequences

CONSTANTS
  Withdrawal,   \* the withdrawals users make on L2
  Detail,       \* Detail[w]: what a row is matched by: amount, address, nonce,
                \* or address, origin flag, nonce; never the contract or the token
  MaxBlock,     \* bound: L1 blocks
  MaxDeaths     \* bound: crashes of the monitor

ASSUME MonitorAssumption == MaxBlock \in Nat /\ MaxDeaths \in Nat

VARIABLES
  made,       \* L2: the withdrawals, in order
  read,       \* how many of them the interpreter has written rows for
  now,        \* L1: the number of the block that is being built
  events,     \* L1: its log, a sequence of [block, withdrawal]
  ethBlocks,  \* the table eth_block: numbers
  recorded,   \* the table eth_event: positions in the log
  receipt,    \* withdrawal.event, token_flow.event: a position, 0 for none
  at,         \* the monitor's progress
  from,       \* fromBlock of its filter
  mark,       \* how much of the log the filter has returned as new
  next, last, \* the entries it has yet to persist: next .. last
  deaths

l2 == <<made, read>>
l1 == <<now, events>>
tables == <<ethBlocks, recorded, receipt>>
filter == <<from, mark>>
monitorvars == <<l2, l1, tables, at, filter, next, last, deaths>>

MonitorInit ==
  /\ made = <<>> /\ read = 0
  /\ now = 1 /\ events = <<>>
  /\ ethBlocks = {} /\ recorded = {}
  /\ receipt = [w \in Withdrawal |-> 0]
  /\ at = "off"
  /\ from = 0 /\ mark = 0
  /\ next = 1 /\ last = 0
  /\ deaths = 0

MadeOnes == {made[i] : i \in DOMAIN made}
Rows == {made[i] : i \in 1 .. read}
Consumed == {events[i].withdrawal : i \in DOMAIN events}

-----------------------------------------------------------------------------
(***************************************************************************)
(* L2, the interpreter and L1.                                             *)
(***************************************************************************)
Withdraw(w) ==
  /\ w \notin MadeOnes
  /\ made' = Append(made, w)
  /\ UNCHANGED <<read, l1, tables, at, filter, next, last, deaths>>

\* RichmetasInterpreter.withdraw: the rows come in the order of L2.
InterpretWithdraw ==
  /\ read < Len(made)
  /\ read' = read + 1
  /\ UNCHANGED <<made, l1, tables, at, filter, next, last, deaths>>

Consume(w) ==
  /\ w \in MadeOnes \ Consumed
  /\ events' = Append(events, [block |-> now, withdrawal |-> w])
  /\ UNCHANGED <<l2, now, tables, at, filter, next, last, deaths>>

NextBlock ==
  /\ now < MaxBlock
  /\ now' = now + 1
  /\ UNCHANGED <<l2, events, tables, at, filter, next, last, deaths>>

-----------------------------------------------------------------------------
(***************************************************************************)
(* The monitor.                                                            *)
(***************************************************************************)
FromBlock_Slip ==
  IF ethBlocks = {} THEN 0
  ELSE (CHOOSE b \in ethBlocks : \A c \in ethBlocks : c <= b) + 1

\* The last block in the table, which is asked for once more
FromBlock ==
  IF ethBlocks = {} THEN 0 ELSE CHOOSE b \in ethBlocks : \A c \in ethBlocks : c <= b

SelectFrom ==
  /\ at = "off"
  /\ from' = FromBlock
  /\ at' = "filter"
  /\ UNCHANGED <<l2, l1, tables, mark, next, last, deaths>>

\* From now on the filter counts what is new ...
InstallFilter ==
  /\ at = "filter"
  /\ mark' = Len(events)
  /\ at' = "all"
  /\ UNCHANGED <<l2, l1, tables, from, next, last, deaths>>

\* The events of block b and later begin at position i of the log.
BeginsAt(i, b) ==
  /\ \A j \in 1 .. i - 1 : events[j].block < b
  /\ i <= Len(events) => events[i].block >= b

FirstSince(b) == CHOOSE i \in 1 .. Len(events) + 1 : BeginsAt(i, b)

\* ... and what has come since then is in both answers.
GetAllEntries ==
  /\ at = "all"
  /\ next' = FirstSince(from) /\ last' = Len(events)
  /\ at' = "block"
  /\ UNCHANGED <<l2, l1, tables, filter, deaths>>

GetNewEntries_Slip ==
  /\ at = "block" /\ next > last
  /\ next' = mark + 1 /\ last' = Len(events)
  /\ mark' = Len(events) + 1
  /\ UNCHANGED <<l2, l1, tables, at, from, deaths>>

GetNewEntries ==
  /\ at = "block" /\ next > last
  /\ next' = mark + 1 /\ last' = Len(events)
  /\ mark' = Len(events)
  /\ UNCHANGED <<l2, l1, tables, at, from, deaths>>

\* persist: the block of the event, in a transaction of its own
PersistBlock ==
  /\ at = "block" /\ next <= last
  /\ ethBlocks' = ethBlocks \cup {events[next].block}
  /\ at' = "event"
  /\ UNCHANGED <<l2, l1, recorded, receipt, filter, next, last, deaths>>

Matching_Slip(w) == Rows

\* The rows that the event of w may mean
Matching(w) == {v \in Rows : Detail[v] = Detail[w]}

\* An event that is in the table is passed over.
SkipEvent ==
  /\ at = "event" /\ next \in recorded
  /\ next' = next + 1
  /\ at' = "block"
  /\ UNCHANGED <<l2, l1, tables, filter, last, deaths>>

PersistEvent ==
  /\ at = "event" /\ next \notin recorded
  /\ \E v \in Rows :
       /\ Matching(events[next].withdrawal) = {v}
       /\ receipt' = [receipt EXCEPT ![v] = next]
  /\ recorded' = recorded \cup {next}
  /\ next' = next + 1
  /\ at' = "block"
  /\ UNCHANGED <<l2, l1, ethBlocks, filter, last, deaths>>

Unmatched(w) == \A v \in Rows : Matching(w) # {v}

\* The process dies, and its filter with it.
Dies ==
  /\ at' = "off"
  /\ from' = 0 /\ mark' = 0
  /\ next' = 1 /\ last' = 0
  /\ UNCHANGED <<l2, l1, tables>>

\* scalar_one raises: the event is not stored.
Raise ==
  /\ at = "event" /\ next \notin recorded
  /\ Unmatched(events[next].withdrawal)
  /\ Dies
  /\ UNCHANGED deaths

Crash ==
  /\ at # "off" /\ deaths < MaxDeaths
  /\ Dies
  /\ deaths' = deaths + 1

Monitors ==
  \/ SelectFrom \/ InstallFilter \/ GetAllEntries \/ GetNewEntries
  \/ PersistBlock \/ SkipEvent \/ PersistEvent \/ Raise

MonitorNext ==
  \/ \E w \in Withdrawal : Withdraw(w) \/ Consume(w)
  \/ InterpretWithdraw \/ NextBlock
  \/ Monitors \/ Crash

MonitorSpec == MonitorInit /\ [][MonitorNext]_monitorvars

\* The monitor and the interpreter go on, and are started again when they die.
FairMonitorSpec ==
  MonitorSpec /\ WF_monitorvars(Monitors) /\ WF_monitorvars(InterpretWithdraw)

-----------------------------------------------------------------------------
MonitorTypeOK ==
  /\ made \in Seq(Withdrawal) /\ read \in 0 .. Len(made)
  /\ now \in Nat
  /\ events \in Seq([block : Nat, withdrawal : Withdrawal])
  /\ ethBlocks \subseteq Nat
  /\ recorded \subseteq 1 .. Len(events)
  /\ receipt \in [Withdrawal -> 0 .. Len(events)]
  /\ at \in {"off", "filter", "all", "block", "event"}
  /\ from \in Nat /\ mark \in 0 .. Len(events)
  /\ next \in Nat /\ last \in 0 .. Len(events)
  /\ deaths \in Nat

\* The events in the table are the log up to some point: wherever the monitor
\* dies, between a block and its events or between two events, and however far
\* the interpreter is behind, no event is left out and passed by.
NothingMissed == \A i \in recorded : 1 .. i \subseteq recorded

\* Two withdrawals that the monitor cannot tell apart: the user chose one nonce
\* for equal amounts of two contracts, or for two tokens.
Twins(v, w) == v # w /\ Detail[v] = Detail[w]

MadeBefore(v, w) ==
  \E i, j \in DOMAIN made : i < j /\ made[i] = v /\ made[j] = w

\* However the monitor, the interpreter and L1 interleave, and wherever the monitor
\* dies: an event is the receipt of one withdrawal, its own; or it has gone to a
\* twin that was made before, when the interpreter had not come to its own.
OwnReceipt ==
  \A v \in Withdrawal : receipt[v] # 0 =>
    LET w == events[receipt[v]].withdrawal IN
    /\ receipt[v] \in recorded
    /\ \A u \in Withdrawal : receipt[u] = receipt[v] => u = v
    /\ w = v \/ (Twins(v, w) /\ MadeBefore(v, w))

\* Every withdrawal that L1 has paid gets its receipt, as long as there are no
\* twins: the event of one would be taken for the other's, or stop the monitor
\* for good.
Received ==
  \A w \in Withdrawal :
    w \in Consumed ~>
      receipt[w] # 0 \/ \E u, v \in MadeOnes : Twins(u, v)
=============================================================================
