--------------------------- MODULE GatewayProofs ----------------------------
(***************************************************************************)
(* What users see of the exchange beyond the tables that mirror L2.        *)
(*                                                                         *)
(*   I.  The monitor of L1 loses no event, and the receipts it mixes up    *)
(*       are those of twins, for any number of withdrawals, blocks and     *)
(*       crashes.                                                          *)
(*   II. The rows of clients: what the gateway answers and shows agrees    *)
(*       with L2, for any number of keys, addresses, requests, crashes and *)
(*       registrations past the gateway.                                   *)
(***************************************************************************)
EXTENDS Monitor, Clients, SequenceTheorems, TLAPS

-----------------------------------------------------------------------------
(***************************************************************************)
(* I. The monitor.                                                         *)
(***************************************************************************)

Typed ==
  /\ made \in Seq(Withdrawal) /\ read \in 0 .. Len(made)
  /\ now \in Nat
  /\ events \in Seq([block : Nat, withdrawal : Withdrawal])
  /\ ethBlocks \subseteq Nat
  /\ recorded \subseteq 1 .. Len(events)
  /\ receipt \in [Withdrawal -> Nat]
  /\ at \in {"off", "filter", "all", "block", "event"}
  /\ from \in Nat /\ mark \in Nat
  /\ next \in Nat \ {0} /\ last \in Nat

\* Events come in the order of their blocks, none later than now.
Ordered ==
  /\ \A i, j \in 1 .. Len(events) : i <= j => events[i].block <= events[j].block
  /\ \A i \in 1 .. Len(events) : events[i].block <= now

\* The two choices of the monitor have something to choose.
HasChoice ==
  /\ \A b \in Nat : \E i \in 1 .. Len(events) + 1 : BeginsAt(i, b)
  /\ ethBlocks # {} => \E b \in ethBlocks : \A c \in ethBlocks : c <= b

\* A block is in the table only if every event before its own is, too.
BlockAfterEvents ==
  \A b \in ethBlocks :
    \E i \in 1 .. Len(events) : events[i].block = b /\ 1 .. i - 1 \subseteq recorded

\* Where the monitor starts, and where it is, nothing lies behind unread.
NothingBehind ==
  /\ at \in {"filter", "all"} =>
       /\ from <= now
       /\ \A j \in 1 .. Len(events) : events[j].block < from => j \in recorded
  /\ at = "all" => mark <= Len(events)
  /\ at \in {"block", "event"} =>
       /\ 1 .. next - 1 \subseteq recorded
       /\ mark <= last /\ last <= Len(events)
  /\ at = "event" => next <= last

IInv ==
  Typed /\ Ordered /\ HasChoice /\ BlockAfterEvents /\ NothingBehind /\ NothingMissed

-----------------------------------------------------------------------------
LEMMA LogEntries ==
  ASSUME Typed
  PROVE  /\ Len(events) \in Nat
         /\ \A i \in 1 .. Len(events) :
              /\ events[i].block \in Nat
              /\ events[i].withdrawal \in Withdrawal
<1> DEFINE Entry == [block : Nat, withdrawal : Withdrawal]
<1>1. \A e \in Entry : e.block \in Nat /\ e.withdrawal \in Withdrawal
  OBVIOUS
<1>2. events \in Seq(Entry)
  BY DEF Typed
<1> HIDE DEF Entry
<1>3. \A i \in 1 .. Len(events) : events[i] \in Entry
  BY <1>2, ElementOfSeq
<1> QED
  BY <1>1, <1>2, <1>3, LenProperties

\* The monitor's filter begins behind what it has recorded.
LEMMA FromSafe ==
  ASSUME IInv
  PROVE  /\ FromBlock \in Nat
         /\ FromBlock <= now
         /\ \A j \in 1 .. Len(events) : events[j].block < FromBlock => j \in recorded
<1>1. CASE ethBlocks = {}
  <2>1. FromBlock = 0
    BY <1>1 DEF FromBlock
  <2>2. \A j \in 1 .. Len(events) : events[j].block \in Nat
    BY LogEntries DEF IInv
  <2> QED
    BY <2>1, <2>2 DEF IInv, Typed
<1>2. CASE ethBlocks # {}
  <2>1. FromBlock \in ethBlocks
    BY <1>2 DEF FromBlock, IInv, HasChoice
  <2>2. PICK i \in 1 .. Len(events) :
          events[i].block = FromBlock /\ 1 .. i - 1 \subseteq recorded
    BY <2>1 DEF IInv, BlockAfterEvents
  <2>3. FromBlock \in Nat /\ FromBlock <= now
    BY <2>1, <2>2 DEF IInv, Typed, Ordered
  <2>4. ASSUME NEW j \in 1 .. Len(events), events[j].block < FromBlock
        PROVE  j \in recorded
    <3>1. events[i].block \in Nat /\ events[j].block \in Nat
      BY LogEntries DEF IInv
    <3>2. ~(i <= j)
      BY <2>2, <2>3, <2>4, <3>1 DEF IInv, Ordered
    <3> QED
      BY <2>2, <3>2 DEF IInv, Typed
  <2> QED
    BY <2>3, <2>4
<1> QED
  BY <1>1, <1>2

\* What the filter returns first begins where the block does.
LEMMA FirstSinceBegins ==
  ASSUME IInv, NEW b \in Nat
  PROVE  FirstSince(b) \in 1 .. Len(events) + 1 /\ BeginsAt(FirstSince(b), b)
BY DEF IInv, HasChoice, FirstSince

-----------------------------------------------------------------------------
LEMMA InitHolds == MonitorInit => IInv
<1> SUFFICES ASSUME MonitorInit PROVE IInv
  OBVIOUS
<1>1. Len(events) = 0 /\ ethBlocks = {} /\ recorded = {} /\ at = "off"
  BY DEF MonitorInit
<1>2. Typed
  BY DEF MonitorInit, Typed
<1>3. HasChoice
  <2>1. \A b \in Nat : 1 \in 1 .. Len(events) + 1 /\ BeginsAt(1, b)
    BY <1>1 DEF BeginsAt
  <2> QED
    BY <2>1, <1>1 DEF HasChoice
<1> QED
  BY <1>1, <1>2, <1>3
  DEF IInv, Ordered, BlockAfterEvents, NothingBehind, NothingMissed

\* L1 grows: an event of the block that is being built comes last.
LEMMA ConsumeHolds ==
  ASSUME IInv, NEW w \in Withdrawal, Consume(w)
  PROVE  IInv'
<1> DEFINE e == [block |-> now, withdrawal |-> w]
<1>1. /\ events' = Append(events, e)
      /\ UNCHANGED <<l2, now, tables, at, filter, next, last>>
  BY DEF Consume
<1>2. e \in [block : Nat, withdrawal : Withdrawal] /\ e.block = now
  BY DEF IInv, Typed
<1>3. /\ Len(events') = Len(events) + 1 /\ Len(events) \in Nat
      /\ events'[Len(events) + 1] = e
      /\ \A i \in 1 .. Len(events) : events'[i] = events[i]
  BY <1>1, <1>2 DEF IInv, Typed
<1> HIDE DEF e
<1>4. \A i \in 1 .. Len(events) : events[i].block \in Nat
  BY LogEntries DEF IInv
<1>5. Typed'
  <2>1. events' \in Seq([block : Nat, withdrawal : Withdrawal])
    BY <1>1, <1>2 DEF IInv, Typed
  <2> QED
    BY <1>1, <1>3, <2>1 DEF IInv, Typed, l2, tables, filter
<1>6. Ordered'
  <2>1. now \in Nat /\ now' = now
    BY <1>1 DEF IInv, Typed
  <2>2. \A i \in 1 .. Len(events) : events[i].block <= now
    BY DEF IInv, Ordered
  <2>3. \A i \in 1 .. Len(events') : events'[i].block <= now'
    BY <1>2, <1>3, <2>1, <2>2
  <2>4. ASSUME NEW i \in 1 .. Len(events'), NEW j \in 1 .. Len(events'), i <= j
        PROVE  events'[i].block <= events'[j].block
    <3>1. CASE j \in 1 .. Len(events)
      <4>1. events[i].block <= events[j].block
        BY <1>3, <2>4, <3>1 DEF IInv, Ordered
      <4> QED
        BY <4>1, <1>3, <2>4, <3>1
    <3>2. CASE j = Len(events) + 1
      BY <3>2, <1>2, <1>3, <2>1, <2>3
    <3> QED
      BY <3>1, <3>2, <1>3
  <2> QED
    BY <2>3, <2>4 DEF Ordered
<1>7. HasChoice'
  <2>1. ASSUME NEW b \in Nat
        PROVE  \E i \in 1 .. Len(events') + 1 : BeginsAt(i, b)'
    <3>1. PICK i \in 1 .. Len(events) + 1 : BeginsAt(i, b)
      BY DEF IInv, HasChoice
    <3>2. CASE i <= Len(events)
      <4>1. BeginsAt(i, b)'
        BY <3>1, <3>2, <1>3 DEF BeginsAt
      <4> QED
        BY <4>1, <1>3
    <3>3. CASE i = Len(events) + 1 /\ now >= b
      <4>1. BeginsAt(i, b)'
        BY <3>1, <3>3, <1>2, <1>3 DEF BeginsAt
      <4> QED
        BY <4>1, <1>3
    <3>4. CASE i = Len(events) + 1 /\ now < b
      <4>1. BeginsAt(i + 1, b)'
        BY <3>1, <3>4, <1>2, <1>3 DEF BeginsAt
      <4> QED
        BY <3>4, <4>1, <1>3
    <3>5. now \in Nat
      BY DEF IInv, Typed
    <3> QED
      BY <3>2, <3>3, <3>4, <3>5, <1>3
  <2> QED
    BY <2>1, <1>1 DEF IInv, HasChoice, tables
<1>8. BlockAfterEvents'
  BY <1>1, <1>3 DEF IInv, BlockAfterEvents, tables
<1>9. NothingBehind'
  BY <1>1, <1>2, <1>3, <1>4 DEF IInv, Typed, NothingBehind, tables, filter
<1>10. NothingMissed'
  BY <1>1 DEF IInv, NothingMissed, tables
<1> QED
  BY <1>5, <1>6, <1>7, <1>8, <1>9, <1>10 DEF IInv

\* A step that leaves L1 and the tables alone is judged by where it leaves the
\* monitor.
LEMMA ProgressFrame ==
  ASSUME IInv, UNCHANGED <<events, now, tables>>, Typed', NothingBehind'
  PROVE  IInv'
BY DEF IInv, tables, Ordered, HasChoice, BeginsAt, BlockAfterEvents, NothingMissed

LEMMA DiesHolds == ASSUME IInv, Dies PROVE IInv'
<1>1. Typed'
  BY DEF IInv, Typed, Dies, l2, l1, tables
<1>2. NothingBehind'
  BY DEF Dies, NothingBehind
<1> QED
  BY <1>1, <1>2, ProgressFrame DEF Dies, l1

LEMMA NextHolds == IInv /\ [MonitorNext]_monitorvars => IInv'
<1> SUFFICES ASSUME IInv, [MonitorNext]_monitorvars PROVE IInv'
  OBVIOUS
<1> USE DEF l2, l1, tables, filter
<1>1. ASSUME NEW w \in Withdrawal, Withdraw(w) PROVE IInv'
  <2>1. Typed'
    BY <1>1 DEF IInv, Typed, Withdraw
  <2>2. NothingBehind'
    BY <1>1 DEF IInv, NothingBehind, Withdraw
  <2> QED
    BY <1>1, <2>1, <2>2, ProgressFrame DEF Withdraw
<1>2. ASSUME NEW w \in Withdrawal, Consume(w) PROVE IInv'
  BY <1>2, ConsumeHolds
<1>3. CASE InterpretWithdraw
  <2>1. Typed'
    BY <1>3 DEF IInv, Typed, InterpretWithdraw
  <2>2. NothingBehind'
    BY <1>3 DEF IInv, NothingBehind, InterpretWithdraw
  <2> QED
    BY <1>3, <2>1, <2>2, ProgressFrame DEF InterpretWithdraw
<1>4. CASE NextBlock
  <2>1. Typed'
    BY <1>4 DEF IInv, Typed, NextBlock
  <2>2. Ordered'
    <3>1. \A i \in 1 .. Len(events) : events[i].block \in Nat
      BY LogEntries DEF IInv
    <3> QED
      BY <1>4, <3>1 DEF IInv, Typed, Ordered, NextBlock
  <2>3. NothingBehind'
    BY <1>4 DEF IInv, Typed, NothingBehind, NextBlock
  <2> QED
    BY <1>4, <2>1, <2>2, <2>3
    DEF IInv, NextBlock, HasChoice, BeginsAt, BlockAfterEvents, NothingMissed
<1>5. CASE SelectFrom
  <2>1. Typed'
    BY <1>5, FromSafe DEF IInv, Typed, SelectFrom
  <2>2. NothingBehind'
    BY <1>5, FromSafe DEF NothingBehind, SelectFrom
  <2> QED
    BY <1>5, <2>1, <2>2, ProgressFrame DEF SelectFrom
<1>6. CASE InstallFilter
  <2>1. Typed'
    BY <1>6 DEF IInv, Typed, InstallFilter
  <2>2. NothingBehind'
    BY <1>6 DEF IInv, Typed, NothingBehind, InstallFilter
  <2> QED
    BY <1>6, <2>1, <2>2, ProgressFrame DEF InstallFilter
<1>7. CASE GetAllEntries
  <2>1. from \in Nat /\ Len(events) \in Nat
    BY DEF IInv, Typed
  <2>2. next' \in 1 .. Len(events) + 1 /\ BeginsAt(next', from)
    BY <1>7, <2>1, FirstSinceBegins DEF GetAllEntries
  <2>3. Typed'
    BY <1>7, <2>1, <2>2 DEF IInv, Typed, GetAllEntries
  <2>4. 1 .. next' - 1 \subseteq recorded
    BY <1>7, <2>1, <2>2 DEF IInv, BeginsAt, NothingBehind, GetAllEntries
  <2>5. NothingBehind'
    BY <1>7, <2>1, <2>4 DEF IInv, NothingBehind, GetAllEntries
  <2> QED
    BY <1>7, <2>3, <2>5, ProgressFrame DEF GetAllEntries
<1>8. CASE GetNewEntries
  <2>1. Typed'
    BY <1>8 DEF IInv, Typed, GetNewEntries
  <2>2. 1 .. mark \subseteq recorded
    BY <1>8 DEF IInv, Typed, NothingBehind, GetNewEntries
  <2>3. NothingBehind'
    BY <1>8, <2>2 DEF IInv, Typed, NothingBehind, GetNewEntries
  <2> QED
    BY <1>8, <2>1, <2>3, ProgressFrame DEF GetNewEntries
<1>9. CASE PersistBlock
  <2> DEFINE b == events[next].block
  <2>1. next \in 1 .. Len(events) /\ 1 .. next - 1 \subseteq recorded
    BY <1>9 DEF IInv, Typed, NothingBehind, PersistBlock
  <2>2. b \in Nat
    BY <2>1, LogEntries DEF IInv
  <2>3. ethBlocks' = ethBlocks \cup {b} /\ UNCHANGED <<events, now, recorded>>
    BY <1>9 DEF PersistBlock
  <2>4. Typed'
    BY <1>9, <2>2 DEF IInv, Typed, PersistBlock
  <2>5. NothingBehind'
    BY <1>9, <2>1 DEF IInv, NothingBehind, PersistBlock
  <2>6. BlockAfterEvents'
    BY <2>1, <2>3 DEF IInv, BlockAfterEvents
  <2>7. HasChoice'
    <3>1. \E m \in ethBlocks' : \A c \in ethBlocks' : c <= m
      <4>1. CASE ethBlocks = {}
        BY <2>2, <2>3, <4>1
      <4>2. CASE ethBlocks # {}
        <5>1. PICK m \in ethBlocks : \A c \in ethBlocks : c <= m
          BY <4>2 DEF IInv, HasChoice
        <5>2. ethBlocks \subseteq Nat
          BY DEF IInv, Typed
        <5>3. CASE b <= m
          BY <5>1, <5>3, <2>3
        <5>4. CASE ~(b <= m)
          <6>1. \A c \in ethBlocks' : c <= b
            BY <5>1, <5>2, <5>4, <2>2, <2>3
          <6> QED
            BY <6>1, <2>3
        <5> QED
          BY <5>3, <5>4
      <4> QED
        BY <4>1, <4>2
    <3> QED
      BY <3>1, <2>3 DEF IInv, HasChoice, BeginsAt
  <2> QED
    BY <2>3, <2>4, <2>5, <2>6, <2>7 DEF IInv, Ordered, NothingMissed
<1>10. CASE SkipEvent
  <2>1. Typed'
    BY <1>10 DEF IInv, Typed, SkipEvent
  <2>2. next \in Nat /\ 1 .. next - 1 \subseteq recorded /\ next \in recorded
    BY <1>10 DEF IInv, Typed, NothingBehind, SkipEvent
  <2>3. next' = next + 1 /\ 1 .. next \subseteq recorded
    BY <1>10, <2>2 DEF SkipEvent
  <2>4. NothingBehind'
    BY <1>10, <2>2, <2>3 DEF IInv, NothingBehind, SkipEvent
  <2> QED
    BY <1>10, <2>1, <2>4, ProgressFrame DEF SkipEvent
<1>11. CASE PersistEvent
  <2>1. next \in 1 .. Len(events) /\ 1 .. next - 1 \subseteq recorded
    <3>1. /\ next <= last /\ last <= Len(events)
          /\ 1 .. next - 1 \subseteq recorded
      BY <1>11 DEF IInv, NothingBehind, PersistEvent
    <3>2. Len(events) \in Nat /\ next \in Nat \ {0} /\ last \in Nat
      BY LogEntries DEF IInv, Typed
    <3> QED
      BY <3>1, <3>2
  <2>2. /\ recorded' = recorded \cup {next} /\ next' = next + 1
        /\ UNCHANGED <<l2, l1, ethBlocks, filter, last>>
        /\ at' = "block"
    BY <1>11 DEF PersistEvent
  <2>3. receipt' \in [Withdrawal -> Nat]
    BY <1>11 DEF IInv, Typed, PersistEvent
  <2>4. Typed'
    BY <2>1, <2>2, <2>3 DEF IInv, Typed
  <2>5. 1 .. next \subseteq recorded'
    BY <2>1, <2>2
  <2>6. NothingBehind'
    BY <1>11, <2>1, <2>2, <2>5 DEF IInv, NothingBehind, PersistEvent
  <2>7. NothingMissed'
    BY <2>2, <2>5 DEF IInv, NothingMissed
  <2>8. BlockAfterEvents'
    BY <2>2 DEF IInv, BlockAfterEvents
  <2> QED
    BY <2>2, <2>4, <2>6, <2>7, <2>8 DEF IInv, Ordered, HasChoice, BeginsAt
<1>12. CASE Raise
  BY <1>12, DiesHolds DEF Raise
<1>13. CASE Crash
  BY <1>13, DiesHolds DEF Crash
<1>14. CASE UNCHANGED monitorvars
  <2>1. Typed' /\ NothingBehind'
    BY <1>14 DEF monitorvars, IInv, Typed, NothingBehind
  <2> QED
    BY <1>14, <2>1, ProgressFrame DEF monitorvars
<1> QED
  BY <1>1, <1>2, <1>3, <1>4, <1>5, <1>6, <1>7, <1>8, <1>9, <1>10, <1>11,
     <1>12, <1>13, <1>14
  DEF MonitorNext, Monitors

\* The events in the table are the log up to some point, however often the
\* monitor dies and whatever it meets.
THEOREM EventsComplete == MonitorSpec => []NothingMissed
<1>1. IInv => NothingMissed
  BY DEF IInv
<1> QED
  BY InitHolds, NextHolds, <1>1, PTL DEF MonitorSpec

-----------------------------------------------------------------------------
\* Positions of the log that the monitor holds, and those in the table, are there.
Bounded ==
  /\ receipt \in [Withdrawal -> 0 .. Len(events)]
  /\ mark \in 0 .. Len(events) /\ last \in 0 .. Len(events)
  /\ deaths \in Nat

LEMMA BoundedHolds == IInv /\ Bounded /\ [MonitorNext]_monitorvars => Bounded'
<1> SUFFICES ASSUME IInv, Bounded, [MonitorNext]_monitorvars PROVE Bounded'
  OBVIOUS
<1> USE DEF l2, l1, tables, filter
<1>1. Len(events) \in Nat
  BY LogEntries DEF IInv
<1>2. CASE UNCHANGED <<events, receipt, mark, last, deaths>>
  BY <1>2 DEF Bounded
<1>3. ASSUME NEW w \in Withdrawal, Consume(w) PROVE Bounded'
  <2>1. Len(events') = Len(events) + 1
    BY <1>3 DEF Consume, IInv, Typed
  <2>2. UNCHANGED <<receipt, mark, last, deaths>>
    BY <1>3 DEF Consume
  <2>3. receipt \in [Withdrawal -> 0 .. Len(events) + 1]
    BY <1>1 DEF Bounded
  <2> QED
    BY <1>1, <2>1, <2>2, <2>3 DEF Bounded
<1>4. CASE InstallFilter
  BY <1>1, <1>4 DEF Bounded, InstallFilter
<1>5. CASE GetAllEntries
  BY <1>1, <1>5 DEF Bounded, GetAllEntries
<1>6. CASE GetNewEntries
  BY <1>1, <1>6 DEF Bounded, GetNewEntries
<1>7. CASE PersistEvent
  <2>1. next \in 1 .. Len(events)
    <3>1. next <= last /\ last <= Len(events)
      BY <1>7 DEF IInv, NothingBehind, PersistEvent
    <3>2. next \in Nat \ {0} /\ last \in Nat
      BY DEF IInv, Typed
    <3> QED
      BY <1>1, <3>1, <3>2
  <2>2. receipt' \in [Withdrawal -> 0 .. Len(events)]
    <3>1. PICK v \in Rows : receipt' = [receipt EXCEPT ![v] = next]
      BY <1>7 DEF PersistEvent
    <3>2. receipt \in [Withdrawal -> 0 .. Len(events)]
      BY DEF Bounded
    <3>3. next \in 0 .. Len(events)
      BY <1>1, <2>1
    <3> QED
      BY <3>1, <3>2, <3>3
  <2> QED
    BY <1>7, <2>2 DEF Bounded, PersistEvent
<1>8. CASE Raise
  BY <1>1, <1>8 DEF Bounded, Raise, Dies
<1>9. CASE Crash
  BY <1>1, <1>9 DEF Bounded, Crash, Dies
<1> QED
  BY <1>2, <1>3, <1>4, <1>5, <1>6, <1>7, <1>8, <1>9
  DEF MonitorNext, Monitors, Withdraw, InterpretWithdraw, NextBlock, SelectFrom,
      PersistBlock, SkipEvent, monitorvars

\* The tables, the filter and the receipts never speak of an event that L1 has
\* not logged, at whatever point the monitor dies and starts again.
THEOREM MonitorTyped == MonitorSpec => []MonitorTypeOK
<1>1. MonitorInit => Bounded
  BY DEF MonitorInit, Bounded
<1>2. IInv /\ Bounded => MonitorTypeOK
  BY DEF IInv, Typed, Bounded, MonitorTypeOK
<1> QED
  BY InitHolds, NextHolds, BoundedHolds, <1>1, <1>2, PTL DEF MonitorSpec

-----------------------------------------------------------------------------
\* L1 pays what L2 has made.
PaidIsMade == \A i \in 1 .. Len(events) : events[i].withdrawal \in MadeOnes

ReceiptInv == PaidIsMade /\ OwnReceipt

\* The withdrawals of L2, and the rows that the interpreter has written of them
LEMMA MadeFacts ==
  ASSUME Typed
  PROVE  /\ Len(made) \in Nat /\ DOMAIN made = 1 .. Len(made)
         /\ read \in Nat /\ read <= Len(made)
         /\ Rows \subseteq MadeOnes /\ MadeOnes \subseteq Withdrawal
<1>1. Len(made) \in Nat /\ DOMAIN made = 1 .. Len(made) /\ read \in 0 .. Len(made)
  BY LenProperties DEF Typed
<1>2. \A i \in 1 .. Len(made) : made[i] \in Withdrawal
  BY ElementOfSeq DEF Typed
<1> QED
  BY <1>1, <1>2 DEF Rows, MadeOnes

\* A withdrawal without a row was made after any that has one.
LEMMA RowsFirst ==
  ASSUME Typed, NEW v \in Rows, NEW w \in MadeOnes, w \notin Rows
  PROVE  MadeBefore(v, w)
<1>1. PICK i \in 1 .. read : made[i] = v
  BY DEF Rows
<1>2. PICK j \in DOMAIN made : made[j] = w
  BY DEF MadeOnes
<1>3. ~(j \in 1 .. read)
  BY <1>2 DEF Rows
<1>4. i \in DOMAIN made /\ i < j
  BY <1>3, MadeFacts
<1> QED
  BY <1>1, <1>2, <1>4 DEF MadeBefore

\* Withdrawals and L1's log grow, and what was so remains.
LEMMA ReceiptsStay ==
  ASSUME ReceiptInv, UNCHANGED <<receipt, recorded>>, PaidIsMade',
         \A i \in recorded : events'[i] = events[i],
         \A i \in DOMAIN made : i \in DOMAIN made' /\ made'[i] = made[i]
  PROVE  ReceiptInv'
<1>1. ASSUME NEW v, NEW w, MadeBefore(v, w)
      PROVE  \E i, j \in DOMAIN made' : i < j /\ made'[i] = v /\ made'[j] = w
  BY <1>1 DEF MadeBefore
<1>2. OwnReceipt'
  BY <1>1 DEF ReceiptInv, OwnReceipt, Twins, MadeBefore
<1> QED
  BY <1>2 DEF ReceiptInv

LEMMA PersistReceipt ==
  ASSUME IInv, ReceiptInv, PersistEvent
  PROVE  ReceiptInv'
<1>1. PICK v \in Rows :
        /\ Matching(events[next].withdrawal) = {v}
        /\ receipt' = [receipt EXCEPT ![v] = next]
  BY DEF PersistEvent
<1>2. /\ recorded' = recorded \cup {next} /\ next \notin recorded
      /\ UNCHANGED <<made, read, events>>
  BY DEF PersistEvent, l1, l2
<1>3. Typed /\ next \in 1 .. Len(events) /\ next # 0
  BY LogEntries DEF IInv, Typed, NothingBehind, PersistEvent
<1>4. v \in Withdrawal /\ MadeOnes \subseteq Withdrawal /\ Rows \subseteq MadeOnes
  BY <1>3, MadeFacts
<1> DEFINE x == events[next].withdrawal
<1>5. x \in MadeOnes
  BY <1>3 DEF ReceiptInv, PaidIsMade
<1> HIDE DEF x
<1>6. x = v \/ (Twins(v, x) /\ MadeBefore(v, x))
  <2>1. Detail[v] = Detail[x] /\ (x \in Rows => x = v)
    BY <1>1 DEF Matching, x
  <2> QED
    BY <1>3, <1>5, <2>1, RowsFirst DEF Twins
<1>7. \A u \in Withdrawal : receipt'[u] = IF u = v THEN next ELSE receipt[u]
  BY <1>1, <1>3 DEF Typed
<1>8. ASSUME NEW u \in Withdrawal, receipt'[u] # 0
      PROVE  LET w == events[receipt'[u]].withdrawal IN
             /\ receipt'[u] \in recorded'
             /\ \A t \in Withdrawal : receipt'[t] = receipt'[u] => t = u
             /\ w = u \/ (Twins(u, w) /\ MadeBefore(u, w))
  <2>1. \A t \in Withdrawal : t # v /\ receipt[t] # 0 => receipt[t] # next
    BY <1>2 DEF ReceiptInv, OwnReceipt
  <2>2. CASE u = v
    BY <1>2, <1>3, <1>6, <1>7, <2>1, <2>2 DEF x
  <2>3. CASE u # v
    <3>1. receipt'[u] = receipt[u] /\ receipt[u] # 0
      BY <1>7, <1>8, <2>3
    <3>2. \A t \in Withdrawal : receipt'[t] = receipt'[u] => t = u
      BY <1>7, <2>1, <2>3, <3>1 DEF ReceiptInv, OwnReceipt
    <3> QED
      BY <1>2, <3>1, <3>2 DEF ReceiptInv, OwnReceipt
  <2> QED
    BY <2>2, <2>3
<1>9. OwnReceipt'
  BY <1>2, <1>8 DEF OwnReceipt, MadeBefore, Twins
<1> QED
  BY <1>2, <1>9 DEF ReceiptInv, PaidIsMade, MadeOnes

\* However the monitor, the interpreter and L1 interleave, and wherever the
\* monitor dies, an event is the receipt of one withdrawal: its own, or one that
\* was made before with equal amount or flag, address and nonce (persist of
\* ether_monitor.py).  No assumption is made on what users choose.
THEOREM ReceiptsOwn == MonitorSpec => []OwnReceipt
<1>1. MonitorInit => ReceiptInv
  BY DEF MonitorInit, ReceiptInv, PaidIsMade, OwnReceipt
<1>2. IInv /\ ReceiptInv /\ [MonitorNext]_monitorvars => ReceiptInv'
  <2> SUFFICES ASSUME IInv, ReceiptInv, [MonitorNext]_monitorvars PROVE ReceiptInv'
    OBVIOUS
  <2>0. Typed /\ PaidIsMade
    BY DEF IInv, ReceiptInv
  <2>1. CASE UNCHANGED <<made, events, recorded, receipt>>
    BY <2>0, <2>1, ReceiptsStay DEF PaidIsMade, MadeOnes
  <2>2. ASSUME NEW w \in Withdrawal, Consume(w) PROVE ReceiptInv'
    <3> DEFINE e == [block |-> now, withdrawal |-> w]
    <3>1. /\ UNCHANGED <<made, receipt, recorded>> /\ w \in MadeOnes
          /\ events' = Append(events, e)
      BY <2>2 DEF Consume, tables, l2
    <3>2. e \in [block : Nat, withdrawal : Withdrawal] /\ e.withdrawal = w
      BY <2>0 DEF Typed
    <3>3. /\ Len(events') = Len(events) + 1 /\ Len(events) \in Nat
          /\ events'[Len(events) + 1] = e
          /\ \A i \in 1 .. Len(events) : events'[i] = events[i]
      BY <2>0, <3>1, <3>2 DEF Typed
    <3> HIDE DEF e
    <3>4. PaidIsMade'
      <4>1. \A i \in 1 .. Len(events') : events'[i].withdrawal \in MadeOnes
        BY <2>0, <3>1, <3>2, <3>3 DEF PaidIsMade
      <4> QED
        BY <3>1, <4>1 DEF PaidIsMade, MadeOnes
    <3>5. \A i \in recorded : events'[i] = events[i]
      BY <2>0, <3>3 DEF Typed
    <3> QED
      BY <3>1, <3>4, <3>5, ReceiptsStay
  <2>3. ASSUME NEW w \in Withdrawal, Withdraw(w) PROVE ReceiptInv'
    <3>1. /\ UNCHANGED <<events, receipt, recorded>> /\ made' = Append(made, w)
      BY <2>3 DEF Withdraw, tables, l1
    <3>2. made \in Seq(Withdrawal)
      BY <2>0 DEF Typed
    <3>3. /\ made' \in Seq(Withdrawal) /\ Len(made') = Len(made) + 1
          /\ \A i \in 1 .. Len(made) : made'[i] = made[i]
      BY <3>1, <3>2, AppendProperties
    <3>4. \A i \in DOMAIN made : i \in DOMAIN made' /\ made'[i] = made[i]
      BY <3>2, <3>3, LenProperties
    <3>5. PaidIsMade'
      BY <2>0, <3>1, <3>4 DEF PaidIsMade, MadeOnes
    <3> QED
      BY <3>1, <3>4, <3>5, ReceiptsStay
  <2>4. CASE PersistEvent
    BY <2>4, PersistReceipt
  <2> QED
    BY <2>1, <2>2, <2>3, <2>4
    DEF MonitorNext, Monitors, InterpretWithdraw, NextBlock, SelectFrom,
        InstallFilter, GetAllEntries, GetNewEntries, PersistBlock, SkipEvent,
        Raise, Crash, Dies, monitorvars, l1, l2, tables
<1>3. ReceiptInv => OwnReceipt
  BY DEF ReceiptInv
<1> QED
  BY InitHolds, NextHolds, <1>1, <1>2, <1>3, PTL DEF MonitorSpec

-----------------------------------------------------------------------------
(***************************************************************************)
(* II. The clients.                                                        *)
(***************************************************************************)

-----------------------------------------------------------------------------
(***************************************************************************)
(* What holds however sessions overlap.                                    *)
(***************************************************************************)
Answered(r) == session[r].at = "ok"

\* A row keeps its key, so a session that has found one has found its own.
RowsFound ==
  /\ \A r \in Request : session[r].at = "found" =>
       /\ session[r].row \in 0 .. Len(account)
       /\ session[r].row # 0 => account[session[r].row].key = KeyOf[r]
       /\ session[r].row = 0 => session[r].writes
  /\ lifted.at = "found" =>
       /\ log # <<>>
       /\ lifted.row \in 0 .. Len(account)
       /\ lifted.row # 0 => account[lifted.row].key = Head(log).key
       /\ lifted.row = 0 => lifted.writes
       /\ lifted.writes => lifted.row = 0 \/ Head(log).address # NoRow

\* The unique constraint of the table
AddressOnce ==
  \A i, j \in 1 .. Len(account) :
    i # j /\ account[i].address # NoRow => account[i].address # account[j].address

\* Whence a registration comes
Sent(k, a) ==
  <<k, a>> \in Direct \/ \E r \in Request : Answered(r) /\ Tx(k, a) = Tx(KeyOf[r], AddressOf[r])

Provenance ==
  /\ \A tx \in pool : Sent(tx.key, tx.address)
  /\ \A a \in Address : client[a] # Nobody => Sent(client[a], a)

\* L2 gives an address to one key, for good.
LogOK ==
  \A i \in 1 .. Len(log) :
    log[i].address # NoRow => client[log[i].address] = log[i].key

HasRow(k, a) == \E i \in 1 .. Len(account) : account[i] = Tx(k, a)

\* What the interpreter has passed is in the table and stays there.
Shown ==
  \A a \in Address :
    Settled(a) /\ Tx(client[a], a) \notin Range(log) => HasRow(client[a], a)

\* What the interpreter need not write again is there, if it is settled.
Ready ==
  lifted.at = "found" /\ ~lifted.writes /\ Head(log).address # NoRow
    /\ Settled(Head(log).address) => HasRow(Head(log).key, Head(log).address)

CInv ==
  ClientsTypeOK /\ RowsFound /\ AddressOnce /\ Provenance /\ LogOK /\ Shown /\ Ready

-----------------------------------------------------------------------------
(***************************************************************************)
(* What holds as long as they do not.                                      *)
(***************************************************************************)
KeyOnce ==
  \A i, j \in 1 .. Len(account) : i # j => account[i].key # account[j].key

\* What a session has found is still so.
FoundSo ==
  \A r \in Request : session[r].at = "found" =>
    /\ session[r].row = 0 => \A i \in 1 .. Len(account) :
         account[i].key # KeyOf[r] /\ account[i].address # AddressOf[r]
    /\ session[r].row # 0 =>
         /\ account[session[r].row].address = IF session[r].writes THEN NoRow
                                               ELSE AddressOf[r]
         /\ \A i \in 1 .. Len(account) :
              i # session[r].row => account[i].address # AddressOf[r]

LiftedSo ==
  lifted.at = "found" /\ lifted.row = 0 =>
    \A i \in 1 .. Len(account) : account[i].key # Head(log).key

\* No two open sessions are about one key or one address.
Apart ==
  /\ \A r, s \in Request :
       session[r].at = "found" /\ session[s].at = "found" /\ r # s =>
         KeyOf[r] # KeyOf[s] /\ AddressOf[r] # AddressOf[s]
  /\ \A r \in Request : session[r].at = "found" /\ lifted.at = "found" =>
       KeyOf[r] # Head(log).key /\ AddressOf[r] # Head(log).address

\* Whoever was answered 200 has his row, or went another way.
Kept ==
  \A r \in Request : session[r].at \in {"relay", "ok"} =>
    HasRow(KeyOf[r], AddressOf[r]) \/ Wayward(KeyOf[r])

AloneInv == ~overlapped => KeyOnce /\ FoundSo /\ LiftedSo /\ Apart /\ Kept

-----------------------------------------------------------------------------
(***************************************************************************)
(* Lemmas about the tables.                                                *)
(***************************************************************************)

LEMMA Inputs ==
  /\ \A r \in Request : KeyOf[r] \in Key /\ AddressOf[r] \in Address
  /\ \A d \in Direct : d[1] \in Key /\ d[2] \in Address
  /\ NoRow \notin Key /\ NoRow \notin Address /\ Nobody \notin Key
BY ClientsAssumption DEF ClientsAssumption

LEMMA TxRow ==
  /\ \A k, a : Tx(k, a).key = k /\ Tx(k, a).address = a
  /\ \A k \in Key, a \in Address \cup {NoRow} : Tx(k, a) \in Row
  /\ \A k, l, a, b : Tx(k, a) = Tx(l, b) => k = l /\ a = b
<1>1. \A k, a : Tx(k, a).key = k /\ Tx(k, a).address = a
  BY DEF Tx
<1> QED
  BY <1>1 DEF Tx, Row

LEMMA RowFields ==
  \A x \in Row : /\ x.key \in Key /\ x.address \in Address \cup {NoRow}
                 /\ x = Tx(x.key, x.address)
BY DEF Row, Tx

\* The rows of the table, and the transactions that lie before the interpreter
LEMMA Lists ==
  ASSUME ClientsTypeOK
  PROVE  /\ Len(account) \in Nat /\ Len(log) \in Nat
         /\ DOMAIN account = 1 .. Len(account) /\ DOMAIN log = 1 .. Len(log)
         /\ \A i \in 1 .. Len(account) : account[i] \in Row
         /\ \A i \in 1 .. Len(log) : log[i] \in Row
         /\ log # <<>> => /\ 1 \in 1 .. Len(log) /\ Head(log) = log[1]
                          /\ Head(log) \in Row
<1> HIDE DEF Row
<1>1. account \in Seq(Row) /\ log \in Seq(Row)
  BY DEF ClientsTypeOK
<1>2. /\ Len(account) \in Nat /\ Len(log) \in Nat
      /\ DOMAIN account = 1 .. Len(account) /\ DOMAIN log = 1 .. Len(log)
  BY <1>1, LenProperties
<1>3. /\ \A i \in 1 .. Len(account) : account[i] \in Row
      /\ \A i \in 1 .. Len(log) : log[i] \in Row
  BY <1>1, ElementOfSeq
<1>4. log # <<>> => 1 \in 1 .. Len(log) /\ Head(log) = log[1]
  BY <1>1, <1>2, EmptySeq, HeadTailProperties
<1> QED
  BY <1>2, <1>3, <1>4

\* Row n has been written, which is row i or a new one, with key k and address a.
Wrote(i, n, k, a) ==
  /\ account' \in Seq(Row)
  /\ Len(account') \in Nat /\ Len(account') >= Len(account)
  /\ n \in 1 .. Len(account') /\ account'[n] = Tx(k, a)
  /\ IF i = 0 THEN n = Len(account) + 1 ELSE n = i
  /\ \A j \in 1 .. Len(account') :
       j # n => j \in 1 .. Len(account) /\ account'[j] = account[j]

LEMMA WrittenRow ==
  ASSUME ClientsTypeOK, NEW i \in 0 .. Len(account), NEW k \in Key,
         NEW a \in Address \cup {NoRow}, i # 0 => account[i].key = k,
         account' = Written(i, k, a)
  PROVE  \E n \in 1 .. Len(account') : Wrote(i, n, k, a)
<1>1. account \in Seq(Row) /\ Len(account) \in Nat /\ Tx(k, a) \in Row
  BY Lists, TxRow DEF ClientsTypeOK
<1>2. CASE i = 0
  <2>1. account' = Append(account, Tx(k, a))
    BY <1>2 DEF Written, Tx
  <2> HIDE DEF Row
  <2>2. /\ account' \in Seq(Row) /\ Len(account') = Len(account) + 1
        /\ account'[Len(account) + 1] = Tx(k, a)
        /\ \A j \in 1 .. Len(account) : account'[j] = account[j]
    BY <1>1, <2>1, AppendProperties
  <2>3. \A j \in 1 .. Len(account') : j # Len(account) + 1 => j \in 1 .. Len(account)
    BY <1>1, <2>2
  <2>4. Wrote(i, Len(account) + 1, k, a)
    BY <1>1, <1>2, <2>2, <2>3 DEF Wrote
  <2> QED
    BY <1>1, <2>2, <2>4
<1>3. CASE i # 0
  <2>1. i \in 1 .. Len(account) /\ account[i] \in Row
    BY <1>1, <1>3, Lists
  <2>2. [account[i] EXCEPT !.address = a] = Tx(k, a)
    BY <1>3, <2>1 DEF Row, Tx
  <2>3. account' = [account EXCEPT ![i] = Tx(k, a)]
    BY <1>3, <2>1, <2>2, Lists DEF Written
  <2> HIDE DEF Row
  <2>4. /\ account' \in Seq(Row) /\ Len(account') = Len(account)
        /\ account'[i] = Tx(k, a)
        /\ \A j \in 1 .. Len(account) : j # i => account'[j] = account[j]
    BY <1>1, <2>1, <2>3, ExceptSeq, LenProperties
  <2>5. Wrote(i, i, k, a)
    BY <1>1, <1>3, <2>1, <2>4 DEF Wrote
  <2> QED
    BY <2>1, <2>4, <2>5
<1> QED
  BY <1>2, <1>3

\* A write keeps rows and their keys.
LEMMA WroteKeys ==
  ASSUME ClientsTypeOK, NEW i \in 0 .. Len(account), NEW k, NEW a, NEW n,
         i # 0 => account[i].key = k, Wrote(i, n, k, a)
  PROVE  \A j \in 1 .. Len(account) :
           j \in 1 .. Len(account') /\ account'[j].key = account[j].key
<1> SUFFICES ASSUME NEW j \in 1 .. Len(account)
             PROVE  j \in 1 .. Len(account') /\ account'[j].key = account[j].key
  OBVIOUS
<1>1. Len(account) \in Nat
  BY Lists
<1>2. j \in 1 .. Len(account')
  BY <1>1 DEF Wrote
<1>3. CASE j = n
  <2>1. i # 0 /\ n = i
    BY <1>1, <1>3 DEF Wrote
  <2> QED
    BY <1>2, <1>3, <2>1, TxRow DEF Wrote
<1>4. CASE j # n
  BY <1>2, <1>4 DEF Wrote
<1> QED
  BY <1>2, <1>3, <1>4

\* The session of request r is at a new point of its code.
LEMMA SetsSession ==
  ASSUME ClientsTypeOK, NEW r \in Request, NEW row \in Nat,
         NEW st \in {"idle", "found", "relay", "ok"}, Sets(r, st, row)
  PROVE  /\ session' \in [Request -> Session]
         /\ session'[r].at = st /\ session'[r].row = row
         /\ st = "found" =>
              session'[r].writes = (row = 0 \/ account[row].address = NoRow)
         /\ \A q \in Request : q # r => session'[q] = session[q]
<1> DEFINE w == st = "found" /\ (row = 0 \/ account[row].address = NoRow)
           x == [at |-> st, row |-> row, writes |-> w]
<1>0. w \in BOOLEAN
  OBVIOUS
<1>1. x \in Session /\ x.at = st /\ x.row = row
  <2> HIDE DEF w
  <2> QED
    BY <1>0 DEF Session
<1>3. st = "found" => x.writes = (row = 0 \/ account[row].address = NoRow)
  OBVIOUS
<1>2. session' = [session EXCEPT ![r] = x] /\ session \in [Request -> Session]
  BY DEF Sets, ClientsTypeOK
<1> HIDE DEF x, w, Session
<1> QED
  BY <1>1, <1>2, <1>3

-----------------------------------------------------------------------------
(***************************************************************************)
(* However sessions overlap: the initial states.                           *)
(***************************************************************************)

LEMMA CInvInit == Init => CInv
<1> SUFFICES ASSUME Init PROVE CInv
  OBVIOUS
<1>1. account = <<>> /\ log = <<>> /\ <<>> \in Seq(Row) /\ Len(<<>>) = 0
  <2> HIDE DEF Row
  <2> QED
    BY EmptySeq DEF Init
<1>2. ClientsTypeOK
  <2>2. session \in [Request -> Session] /\ lifted \in Lifted
    BY DEF Init, Session, Lifted, Off
  <2> HIDE DEF Row, Session, Lifted
  <2>3. account \in Seq(Row) /\ log \in Seq(Row)
    BY <1>1
  <2>4. /\ client \in [Address -> Key \cup {Nobody}]
        /\ pool \subseteq [key : Key, address : Address]
        /\ refused \subseteq [key : Key, address : Address]
        /\ overlapped \in BOOLEAN
    BY DEF Init
  <2>5. crashes = 0 /\ crashes \in Nat
    BY DEF Init
  <2> QED
    BY <2>2, <2>3, <2>4, <2>5 DEF ClientsTypeOK
<1>3. RowsFound /\ AddressOnce /\ Provenance /\ LogOK
  BY <1>1 DEF Init, RowsFound, AddressOnce, Provenance, LogOK, Off
<1>4. Shown /\ Ready
  BY DEF Init, Shown, Settled, Ready, Off
<1> QED
  BY <1>2, <1>3, <1>4 DEF CInv

-----------------------------------------------------------------------------
(***************************************************************************)
(* However sessions overlap: the steps.                                    *)
(***************************************************************************)

\* The table has the rows it had, with the keys they had.
Grown ==
  /\ Len(account) \in Nat /\ Len(account') \in Nat /\ Len(account) <= Len(account')
  /\ \A j \in 1 .. Len(account) : account'[j].key = account[j].key

LEMMA GrownSame == ASSUME ClientsTypeOK, account' = account PROVE Grown
BY Lists DEF Grown

LEMMA GrownWrote ==
  ASSUME ClientsTypeOK, NEW i \in 0 .. Len(account), NEW k, NEW a, NEW n,
         i # 0 => account[i].key = k, Wrote(i, n, k, a)
  PROVE  Grown
BY Lists, WroteKeys DEF Wrote, Grown

\* What an open session has found is still there.
LEMMA FoundStays ==
  ASSUME Grown, NEW row, row \in 0 .. Len(account), NEW k, row # 0 => account[row].key = k
  PROVE  row \in 0 .. Len(account') /\ (row # 0 => account'[row].key = k)
BY DEF Grown

\* A write for key k and address a leaves the row of a settled address alone,
\* when it is not one for its key and another address.
LEMMA ShownStays ==
  ASSUME ClientsTypeOK, NEW i \in 0 .. Len(account), NEW k, NEW a, NEW n,
         i # 0 => account[i].key = k, Wrote(i, n, k, a),
         NEW l, NEW c, HasRow(l, c), i # 0 /\ l = k => a = c
  PROVE  \E j \in 1 .. Len(account') : account'[j] = Tx(l, c)
<1>1. PICK j \in 1 .. Len(account) : account[j] = Tx(l, c)
  BY DEF HasRow
<1>2. j \in 1 .. Len(account')
  BY <1>1, WroteKeys
<1>3. CASE j = n
  <2>1. i # 0 /\ n = i
    BY <1>1, <1>3, Lists DEF Wrote
  <2>2. l = k
    BY <1>1, <1>3, <2>1, TxRow
  <2> QED
    BY <1>2, <1>3, <2>1, <2>2 DEF Wrote
<1>4. CASE j # n
  BY <1>1, <1>2, <1>4 DEF Wrote
<1> QED
  BY <1>3, <1>4

LEMMA TypeParts ==
  ASSUME ClientsTypeOK
  PROVE  /\ client \in [Address -> Key \cup {Nobody}]
         /\ pool \subseteq [key : Key, address : Address]
         /\ log \in Seq(Row) /\ account \in Seq(Row)
         /\ session \in [Request -> Session] /\ lifted \in Lifted
         /\ refused \subseteq [key : Key, address : Address]
         /\ overlapped \in BOOLEAN /\ crashes \in Nat
BY DEF ClientsTypeOK

\* Nothing changes but sessions, of which those that were answered still are.
LEMMA Unanswered ==
  ASSUME Provenance, LogOK, Shown, Ready, AddressOnce,
         client' = client, pool' = pool, log' = log, account' = account,
         \A q \in Request : Answered(q) => session'[q].at = "ok",
         lifted'.at = "found" => lifted' = lifted
  PROVE  Provenance' /\ LogOK' /\ Shown' /\ Ready' /\ AddressOnce'
<1>1. Provenance'
  BY DEF Provenance, Sent, Answered
<1>2. LogOK' /\ AddressOnce'
  BY DEF LogOK, AddressOnce
<1>3. Shown'
  BY DEF Shown, Settled, HasRow
<1>4. Ready'
  BY DEF Ready, Settled, HasRow
<1> QED
  BY <1>1, <1>2, <1>3, <1>4

LEMMA SelectCInv ==
  ASSUME CInv, NEW r \in Request, SelectClient(r)
  PROVE  CInv'
<1> DEFINE k == KeyOf[r]
           a == AddressOf[r]
<1>1. ClientsTypeOK /\ RowsFound /\ AddressOnce /\ Provenance /\ LogOK /\ Shown /\ Ready
  BY DEF CInv
<1>2. PICK st, row : /\ Sets(r, st, row) /\ row \in 0 .. Len(account)
                     /\ st \in {"found", "idle"}
                     /\ st = "found" /\ row # 0 => account[row].key = k
  <2>1. DOMAIN account = 1 .. Len(account) /\ Len(account) \in Nat
    BY <1>1, Lists
  <2>2. Matches(k, a) \subseteq 1 .. Len(account)
    BY <2>1 DEF Matches
  <2> HIDE DEF k, a
  <2>3. CASE Sets(r, "found", 0)
    BY <2>1, <2>3
  <2>4. CASE Sets(r, "idle", 0)
    BY <2>1, <2>4
  <2>5. CASE \E i \in Matches(k, a) : account[i].key = k /\ Sets(r, "found", i)
    BY <2>1, <2>2, <2>5
  <2> QED
    BY <2>3, <2>4, <2>5 DEF SelectClient, k, a
<1>3. /\ UNCHANGED <<client, pool, log, account, lifted, crashes, refused>>
      /\ overlapped' \in BOOLEAN /\ session[r].at = "idle"
  BY DEF SelectClient, Touch
<1>4. /\ session' \in [Request -> Session]
      /\ session'[r].at = st /\ session'[r].row = row
      /\ st = "found" => session'[r].writes = (row = 0 \/ account[row].address = NoRow)
      /\ \A q \in Request : q # r => session'[q] = session[q]
  BY <1>1, <1>2, SetsSession, Lists
<1>5. ClientsTypeOK'
  <2> HIDE DEF Row, Session, Lifted
  <2> QED
    BY <1>1, <1>3, <1>4 DEF ClientsTypeOK
<1>6. RowsFound'
  <2>1. ASSUME NEW q \in Request, session'[q].at = "found"
        PROVE  /\ session'[q].row \in 0 .. Len(account)
               /\ session'[q].row # 0 => account[session'[q].row].key = KeyOf[q]
               /\ session'[q].row = 0 => session'[q].writes
    <3>1. CASE q = r
      BY <1>2, <1>4, <2>1, <3>1
    <3>2. CASE q # r
      BY <1>1, <1>4, <2>1, <3>2 DEF RowsFound
    <3> QED
      BY <3>1, <3>2
  <2> QED
    BY <1>1, <1>3, <2>1 DEF RowsFound
<1>7. \A q \in Request : Answered(q) => session'[q].at = "ok"
  BY <1>3, <1>4 DEF Answered
<1> QED
  BY <1>1, <1>3, <1>5, <1>6, <1>7, Unanswered DEF CInv

\* The table changes, and keeps what it shows of settled addresses.
LEMMA ReadyStays ==
  ASSUME ClientsTypeOK, RowsFound, LogOK, Ready,
         client' = client, log' = log, lifted' = lifted,
         \A c \in Address : Settled(c) /\ HasRow(client[c], c) =>
           \E j \in 1 .. Len(account') : account'[j] = Tx(client[c], c)
  PROVE  Ready'
<1> SUFFICES ASSUME lifted.at = "found", ~lifted.writes, Head(log).address # NoRow,
                    Settled(Head(log).address)
             PROVE  \E j \in 1 .. Len(account') :
                      account'[j] = Tx(Head(log).key, Head(log).address)
  BY DEF Ready, Settled, HasRow
<1>1. /\ Head(log) = log[1] /\ 1 \in 1 .. Len(log) /\ Head(log).address \in Address
      /\ client[Head(log).address] = Head(log).key
  BY Lists, RowFields DEF RowsFound, LogOK
<1>2. HasRow(Head(log).key, Head(log).address)
  BY DEF Ready
<1> QED
  BY <1>1, <1>2

LEMMA CommitCInv ==
  ASSUME CInv, NEW r \in Request, CommitClient(r)
  PROVE  CInv'
<1> DEFINE k == KeyOf[r]
           a == AddressOf[r]
           i == session[r].row
<1>1. ClientsTypeOK /\ RowsFound /\ AddressOnce /\ Provenance /\ LogOK /\ Shown /\ Ready
  BY DEF CInv
<1>2. /\ UNCHANGED <<client, pool, log, lifted, overlapped, crashes, refused>>
      /\ session[r].at = "found"
  BY DEF CommitClient
<1>3. /\ i \in 0 .. Len(account) /\ (i # 0 => account[i].key = k)
      /\ k \in Key /\ a \in Address /\ Len(account) \in Nat
  BY <1>1, <1>2, Inputs, Lists DEF RowsFound
<1> HIDE DEF i, k, a
<1>4. PICK st \in {"relay", "idle"} :
        /\ Sets(r, st, 0)
        /\ st = "relay" => /\ account' \in {account, Written(i, k, a)}
                           /\ Unique(account')
        /\ st = "idle" => account' = account
  BY DEF CommitClient, Committed, i, k, a
<1>5. /\ session' \in [Request -> Session]
      /\ session'[r].at = st
      /\ \A q \in Request : q # r => session'[q] = session[q]
  BY <1>1, <1>4, SetsSession
<1>6. account' = account \/ \E n \in 1 .. Len(account') : Wrote(i, n, k, a)
  BY <1>1, <1>3, <1>4, WrittenRow
<1>7. account' \in Seq(Row)
  <2> HIDE DEF Row
  <2> QED
    BY <1>1, <1>6 DEF Wrote, ClientsTypeOK
<1>8. Grown
  BY <1>1, <1>3, <1>6, GrownSame, GrownWrote
<1>9. ClientsTypeOK'
  <2> HIDE DEF Row, Session, Lifted
  <2> QED
    BY <1>1, <1>2, <1>5, <1>7 DEF ClientsTypeOK
<1>10. RowsFound'
  <2>1. ASSUME NEW q \in Request, session'[q].at = "found"
        PROVE  /\ session'[q].row \in 0 .. Len(account')
               /\ session'[q].row # 0 => account'[session'[q].row].key = KeyOf[q]
               /\ session'[q].row = 0 => session'[q].writes
    <3>1. q # r /\ session'[q] = session[q]
      BY <1>4, <1>5, <2>1
    <3> QED
      BY <1>1, <1>8, <2>1, <3>1, FoundStays DEF RowsFound
  <2>2. lifted.at = "found" =>
          /\ lifted.row \in 0 .. Len(account')
          /\ lifted.row # 0 => account'[lifted.row].key = Head(log).key
    BY <1>1, <1>8, FoundStays DEF RowsFound
  <2> QED
    BY <1>1, <1>2, <2>1, <2>2 DEF RowsFound
<1>11. AddressOnce'
  <2>1. CASE st = "relay"
    <3>1. DOMAIN account' = 1 .. Len(account')
      BY <1>7, LenProperties
    <3> QED
      BY <1>4, <2>1, <3>1 DEF Unique, AddressOnce
  <2>2. CASE st = "idle"
    BY <1>1, <1>4, <2>2 DEF AddressOnce
  <2> QED
    BY <2>1, <2>2
<1>12. Provenance' /\ LogOK'
  <2>1. \A q \in Request : Answered(q) => session'[q].at = "ok"
    BY <1>2, <1>5 DEF Answered
  <2> QED
    BY <1>1, <1>2, <2>1 DEF Provenance, Sent, Answered, LogOK
<1>13. Shown' /\ Ready'
  <2>1. ASSUME NEW c \in Address, Settled(c), HasRow(client[c], c)
        PROVE  \E j \in 1 .. Len(account') : account'[j] = Tx(client[c], c)
    <3>1. CASE account' = account
      BY <2>1, <3>1 DEF HasRow
    <3>2. ASSUME NEW n \in 1 .. Len(account'), Wrote(i, n, k, a)
          PROVE  \E j \in 1 .. Len(account') : account'[j] = Tx(client[c], c)
      <4>1. client[c] = k => a = c
        BY <2>1 DEF Settled, k, a
      <4> QED
        BY <1>1, <1>3, <2>1, <3>2, <4>1, ShownStays
    <3> QED
      BY <1>6, <3>1, <3>2
  <2>2. Shown'
    BY <1>1, <1>2, <2>1 DEF Shown, Settled, HasRow
  <2>3. Ready'
    BY <1>1, <1>2, <2>1, ReadyStays
  <2> QED
    BY <2>2, <2>3
<1> QED
  BY <1>9, <1>10, <1>11, <1>12, <1>13 DEF CInv

LEMMA RelayCInv ==
  ASSUME CInv, NEW r \in Request, RelayClient(r)
  PROVE  CInv'
<1>1. ClientsTypeOK /\ RowsFound /\ AddressOnce /\ Provenance /\ LogOK /\ Shown /\ Ready
  BY DEF CInv
<1>2. /\ UNCHANGED <<client, log, account, lifted, overlapped, crashes, refused>>
      /\ Sets(r, "ok", 0) /\ session[r].at = "relay"
      /\ pool' = pool \cup {Tx(KeyOf[r], AddressOf[r])}
  BY DEF RelayClient
<1>3. /\ session' \in [Request -> Session]
      /\ session'[r].at = "ok"
      /\ \A q \in Request : q # r => session'[q] = session[q]
  BY <1>1, <1>2, SetsSession
<1>4. ClientsTypeOK'
  <2>1. Tx(KeyOf[r], AddressOf[r]) \in [key : Key, address : Address]
    BY Inputs DEF Tx
  <2> HIDE DEF Row, Session, Lifted
  <2> QED
    BY <1>1, <1>2, <1>3, <2>1 DEF ClientsTypeOK
<1>5. RowsFound' /\ AddressOnce' /\ LogOK'
  <2>1. \A q \in Request : session'[q].at = "found" => session'[q] = session[q]
    BY <1>3
  <2> QED
    BY <1>1, <1>2, <2>1 DEF RowsFound, AddressOnce, LogOK
<1>6. \A q \in Request : Answered(q) => session'[q].at = "ok"
  BY <1>3 DEF Answered
<1>7. Provenance'
  <2>1. ASSUME NEW tx \in pool'
        PROVE  \/ <<tx.key, tx.address>> \in Direct
               \/ \E q \in Request : /\ session'[q].at = "ok"
                                    /\ Tx(tx.key, tx.address) = Tx(KeyOf[q], AddressOf[q])
    <3>1. CASE tx \in pool
      BY <1>1, <1>6, <3>1 DEF Provenance, Sent
    <3>2. CASE tx = Tx(KeyOf[r], AddressOf[r])
      <4>1. tx.key = KeyOf[r] /\ tx.address = AddressOf[r]
        BY <3>2, TxRow
      <4> QED
        BY <1>3, <4>1
    <3> QED
      BY <1>2, <3>1, <3>2
  <2> QED
    BY <1>1, <1>2, <1>6, <2>1 DEF Provenance, Sent, Answered
<1>8. Shown' /\ Ready'
  BY <1>1, <1>2 DEF Shown, Ready, Settled, HasRow
<1> QED
  BY <1>4, <1>5, <1>7, <1>8 DEF CInv

LEMMA CrashRequestCInv ==
  ASSUME CInv, NEW r \in Request, CrashRequest(r)
  PROVE  CInv'
<1>1. ClientsTypeOK /\ RowsFound /\ AddressOnce /\ Provenance /\ LogOK /\ Shown /\ Ready
  BY DEF CInv
<1>2. /\ UNCHANGED <<client, pool, log, account, lifted, overlapped, refused>>
      /\ Sets(r, "idle", 0) /\ session[r].at \in {"found", "relay"}
      /\ crashes' = crashes + 1
  BY DEF CrashRequest
<1>3. /\ session' \in [Request -> Session]
      /\ session'[r].at = "idle"
      /\ \A q \in Request : q # r => session'[q] = session[q]
  BY <1>1, <1>2, SetsSession
<1>4. ClientsTypeOK'
  <2>1. crashes' \in Nat
    BY <1>1, <1>2, TypeParts
  <2> HIDE DEF Row, Session, Lifted
  <2> QED
    BY <1>1, <1>2, <1>3, <2>1 DEF ClientsTypeOK
<1>5. RowsFound'
  <2>1. \A q \in Request : session'[q].at = "found" => session'[q] = session[q]
    BY <1>3
  <2> QED
    BY <1>1, <1>2, <2>1 DEF RowsFound
<1>6. \A q \in Request : Answered(q) => session'[q].at = "ok"
  BY <1>2, <1>3 DEF Answered
<1> QED
  BY <1>1, <1>2, <1>4, <1>5, <1>6, Unanswered DEF CInv

LEMMA SendCInv ==
  ASSUME CInv, NEW d \in Direct, SendDirectly(d[1], d[2])
  PROVE  CInv'
<1>1. ClientsTypeOK /\ RowsFound /\ AddressOnce /\ Provenance /\ LogOK /\ Shown /\ Ready
  BY DEF CInv
<1>2. /\ UNCHANGED <<client, log, account, session, lifted, overlapped, crashes, refused>>
      /\ pool' = pool \cup {Tx(d[1], d[2])}
  BY DEF SendDirectly, gateway
<1>3. ClientsTypeOK'
  <2>1. Tx(d[1], d[2]) \in [key : Key, address : Address]
    BY Inputs DEF Tx
  <2> HIDE DEF Row, Session, Lifted
  <2> QED
    BY <1>1, <1>2, <2>1 DEF ClientsTypeOK
<1>4. RowsFound' /\ AddressOnce' /\ LogOK' /\ Shown' /\ Ready'
  BY <1>1, <1>2 DEF RowsFound, AddressOnce, LogOK, Shown, Ready, Settled, HasRow
<1>5. Provenance'
  <2>1. d = <<d[1], d[2]>>
    BY ClientsAssumption DEF ClientsAssumption
  <2>2. ASSUME NEW tx \in pool' PROVE Sent(tx.key, tx.address)
    <3>1. CASE tx \in pool
      BY <1>1, <3>1 DEF Provenance
    <3>2. CASE tx = Tx(d[1], d[2])
      <4>1. tx.key = d[1] /\ tx.address = d[2]
        BY <3>2, TxRow
      <4> QED
        BY <2>1, <4>1 DEF Sent
    <3> QED
      BY <1>2, <3>1, <3>2
  <2> QED
    BY <1>1, <1>2, <2>2 DEF Provenance, Sent, Answered
<1> QED
  BY <1>3, <1>4, <1>5 DEF CInv

LEMMA ElsewhereCInv ==
  ASSUME CInv, NEW k \in Key, LiftElsewhere(k)
  PROVE  CInv'
<1>1. ClientsTypeOK /\ RowsFound /\ AddressOnce /\ Provenance /\ LogOK /\ Shown /\ Ready
  BY DEF CInv
<1>2. /\ UNCHANGED <<client, pool, log, session, lifted, crashes, refused>>
      /\ account' = Written(0, k, NoRow) /\ overlapped' \in BOOLEAN
  BY DEF LiftElsewhere
<1>3. 0 \in 0 .. Len(account)
  BY <1>1, Lists
<1>4. PICK n \in 1 .. Len(account') : Wrote(0, n, k, NoRow)
  BY <1>1, <1>2, <1>3, WrittenRow
<1>5. Grown
  BY <1>1, <1>3, <1>4, GrownWrote
<1>6. ClientsTypeOK'
  <2> HIDE DEF Row, Session, Lifted
  <2> QED
    BY <1>1, <1>2, <1>4 DEF ClientsTypeOK, Wrote
<1>7. RowsFound'
  <2>1. \A q \in Request : session[q].at = "found" =>
          /\ session[q].row \in 0 .. Len(account')
          /\ session[q].row # 0 => account'[session[q].row].key = KeyOf[q]
    BY <1>1, <1>5, FoundStays DEF RowsFound
  <2>2. lifted.at = "found" =>
          /\ lifted.row \in 0 .. Len(account')
          /\ lifted.row # 0 => account'[lifted.row].key = Head(log).key
    BY <1>1, <1>5, FoundStays DEF RowsFound
  <2> QED
    BY <1>1, <1>2, <2>1, <2>2 DEF RowsFound
<1>8. AddressOnce'
  <2>1. account'[n].address = NoRow /\ \A j \in 1 .. Len(account') :
          j # n => j \in 1 .. Len(account) /\ account'[j] = account[j]
    BY <1>4, TxRow DEF Wrote
  <2> QED
    BY <1>1, <2>1 DEF AddressOnce
<1>9. \A c \in Address : Settled(c) /\ HasRow(client[c], c) =>
        \E j \in 1 .. Len(account') : account'[j] = Tx(client[c], c)
  BY <1>1, <1>3, <1>4, ShownStays
<1>10. Shown' /\ Ready'
  <2>1. Shown'
    BY <1>1, <1>2, <1>9 DEF Shown, Settled, HasRow
  <2> QED
    BY <1>1, <1>2, <1>9, <2>1, ReadyStays
<1>11. Provenance' /\ LogOK'
  BY <1>1, <1>2 DEF Provenance, Sent, Answered, LogOK
<1> QED
  BY <1>6, <1>7, <1>8, <1>10, <1>11 DEF CInv

-----------------------------------------------------------------------------
(***************************************************************************)
(* The log grows.                                                          *)
(***************************************************************************)
Logged(tx) ==
  /\ log' \in Seq(Row) /\ Len(log') = Len(log) + 1 /\ log'[Len(log) + 1] = tx
  /\ \A i \in 1 .. Len(log) : log'[i] = log[i]
  /\ Range(log') = Range(log) \cup {tx}
  /\ log' # <<>> /\ (log # <<>> => Head(log') = Head(log))

LEMMA AppendLogged ==
  ASSUME ClientsTypeOK, NEW tx \in Row, log' = Append(log, tx)
  PROVE  Logged(tx)
<1> HIDE DEF Row
<1>1. log \in Seq(Row) /\ Len(log) \in Nat
  BY TypeParts, Lists
<1>2. /\ log' \in Seq(Row) /\ Len(log') = Len(log) + 1 /\ log'[Len(log) + 1] = tx
      /\ \A i \in 1 .. Len(log) : log'[i] = log[i]
  BY <1>1, AppendProperties
<1>3. DOMAIN log' = 1 .. Len(log') /\ DOMAIN log = 1 .. Len(log)
  BY <1>1, <1>2, LenProperties
<1>4. Range(log') = Range(log) \cup {tx}
  <2>1. \A i \in 1 .. Len(log') : i = Len(log) + 1 \/ i \in 1 .. Len(log)
    BY <1>1, <1>2
  <2>2. Len(log) + 1 \in 1 .. Len(log') /\ \A i \in 1 .. Len(log) : i \in 1 .. Len(log')
    BY <1>1, <1>2
  <2> QED
    BY <1>2, <1>3, <2>1, <2>2, Zenon DEF Range
<1>5. log' # <<>>
  BY <1>1, <1>2, EmptySeq
<1>6. log # <<>> => Head(log') = Head(log)
  BY <1>1, <1>2, <1>5, EmptySeq, HeadTailProperties
<1> QED
  BY <1>2, <1>4, <1>5, <1>6 DEF Logged

\* What the interpreter has found stays so: its transaction is still the first.
LEMMA LoggedFound ==
  ASSUME ClientsTypeOK, RowsFound, NEW tx, Logged(tx),
         account' = account, session' = session, lifted' = lifted
  PROVE  RowsFound'
BY DEF RowsFound, Logged

LEMMA ExecuteCInv ==
  ASSUME CInv, NEW tx \in pool, ExecuteClient(tx)
  PROVE  CInv'
<1>1. ClientsTypeOK /\ RowsFound /\ AddressOnce /\ Provenance /\ LogOK /\ Shown /\ Ready
  BY DEF CInv
<1>2. /\ UNCHANGED <<account, session, lifted, overlapped, crashes>>
      /\ pool' = pool \ {tx} /\ refused' \in {refused, refused \cup {tx}}
  BY DEF ExecuteClient, gateway
<1>6. refused' \subseteq [key : Key, address : Address]
  BY <1>1, <1>2, TypeParts
<1>3. tx.key \in Key /\ tx.address \in Address /\ tx = Tx(tx.key, tx.address) /\ tx \in Row
  <2>1. tx \in [key : Key, address : Address]
    BY <1>1, TypeParts
  <2> QED
    BY <2>1 DEF Tx, Row
<1>4. CASE UNCHANGED <<client, log>>
  <2>1. ClientsTypeOK'
    <3> HIDE DEF Row, Session, Lifted
    <3> QED
      BY <1>1, <1>2, <1>4, <1>6 DEF ClientsTypeOK
  <2>2. RowsFound' /\ AddressOnce' /\ LogOK' /\ Shown' /\ Ready'
    BY <1>1, <1>2, <1>4 DEF RowsFound, AddressOnce, LogOK, Shown, Ready, Settled, HasRow
  <2>3. Provenance'
    BY <1>1, <1>2, <1>4 DEF Provenance, Sent, Answered
  <2> QED
    BY <2>1, <2>2, <2>3 DEF CInv
<1>5. CASE /\ client[tx.address] = Nobody
           /\ client' = [client EXCEPT ![tx.address] = tx.key]
           /\ log' = Append(log, tx)
  <2>1. Logged(tx)
    BY <1>1, <1>3, <1>5, AppendLogged
  <2>2. /\ client \in [Address -> Key \cup {Nobody}]
        /\ client' \in [Address -> Key \cup {Nobody}]
        /\ client'[tx.address] = tx.key /\ tx.key # Nobody
        /\ \A b \in Address : b # tx.address => client'[b] = client[b]
    BY <1>1, <1>3, <1>5, TypeParts, Inputs
  <2>3. ClientsTypeOK'
    <3> HIDE DEF Row, Session, Lifted
    <3> QED
      BY <1>1, <1>2, <1>6, <2>1, <2>2 DEF ClientsTypeOK, Logged
  <2>4. RowsFound' /\ AddressOnce'
    BY <1>1, <1>2, <2>1, LoggedFound DEF AddressOnce
  <2>5. Provenance'
    <3>1. \A t \in pool' : Sent(t.key, t.address)
      BY <1>1, <1>2 DEF Provenance
    <3>2. \A b \in Address : client'[b] # Nobody => Sent(client'[b], b)
      BY <1>1, <2>2 DEF Provenance
    <3> QED
      BY <1>2, <3>1, <3>2 DEF Provenance, Sent, Answered
  <2>6. LogOK'
    <3>1. ASSUME NEW i \in 1 .. Len(log'), log'[i].address # NoRow
          PROVE  client'[log'[i].address] = log'[i].key
      <4>1. Len(log) \in Nat /\ \A j \in 1 .. Len(log) : log[j] \in Row
        BY <1>1, Lists
      <4>2. i \in 1 .. Len(log) \/ i = Len(log) + 1
        BY <2>1, <4>1 DEF Logged
      <4>3. CASE i = Len(log) + 1
        BY <2>1, <2>2, <4>3 DEF Logged
      <4>4. CASE i \in 1 .. Len(log)
        <5>1. log'[i] = log[i] /\ log[i] \in Row
          BY <2>1, <4>1, <4>4 DEF Logged
        <5>2. log[i].key \in Key /\ log[i].address \in Address
          BY <3>1, <5>1, RowFields
        <5>3. client[log[i].address] = log[i].key
          BY <1>1, <3>1, <4>4, <5>1 DEF LogOK
        <5>4. log[i].address # tx.address
          BY <1>5, <5>2, <5>3, Inputs
        <5> QED
          BY <2>2, <5>1, <5>2, <5>3, <5>4
      <4> QED
        BY <4>2, <4>3, <4>4
    <3> QED
      BY <3>1 DEF LogOK
  <2>7. Shown'
    <3>1. ASSUME NEW c \in Address, client'[c] # Nobody,
                 \A b \in Address : client'[b] = client'[c] => b = c,
                 \A q \in Request : KeyOf[q] = client'[c] => AddressOf[q] = c,
                 Tx(client'[c], c) \notin Range(log')
          PROVE  client'[c] = client[c] /\ HasRow(client[c], c)
      <4>1. c # tx.address
        BY <1>3, <2>1, <2>2, <3>1 DEF Logged
      <4>2. client'[c] = client[c]
        BY <2>2, <4>1
      <4>3. Settled(c)
        BY <1>5, <2>2, <3>1, <4>2 DEF Settled
      <4>4. Tx(client[c], c) \notin Range(log)
        BY <2>1, <3>1, <4>2 DEF Logged
      <4> QED
        BY <1>1, <4>2, <4>3, <4>4 DEF Shown
    <3> QED
      BY <1>2, <3>1 DEF Shown, Settled, HasRow
  <2>8. Ready'
    <3> SUFFICES ASSUME lifted.at = "found", ~lifted.writes, Head(log).address # NoRow,
                        Settled(Head(log).address)'
                 PROVE  HasRow(Head(log).key, Head(log).address)
      BY <1>1, <1>2, <2>1 DEF Ready, HasRow, RowsFound, Logged
    <3>1. /\ Head(log) = log[1] /\ 1 \in 1 .. Len(log)
          /\ Head(log).address \in Address /\ Head(log).key \in Key
          /\ client[Head(log).address] = Head(log).key
      BY <1>1, Lists, RowFields DEF RowsFound, LogOK
    <3>2. client'[Head(log).address] = client[Head(log).address]
      BY <1>5, <2>2, <3>1, Inputs
    <3>3. Settled(Head(log).address)
      BY <1>5, <2>1, <2>2, <3>1, <3>2, Inputs DEF Settled, Logged
    <3> QED
      BY <1>1, <3>3 DEF Ready
  <2> QED
    BY <2>3, <2>4, <2>5, <2>6, <2>7, <2>8 DEF CInv
<1> QED
  BY <1>2, <1>4, <1>5 DEF ExecuteClient

LEMMA OtherCInv ==
  ASSUME CInv, NEW k \in Key, ExecuteOther(k)
  PROVE  CInv'
<1>1. ClientsTypeOK /\ RowsFound /\ AddressOnce /\ Provenance /\ LogOK /\ Shown /\ Ready
  BY DEF CInv
<1>2. /\ UNCHANGED <<client, pool, account, session, lifted, overlapped, crashes, refused>>
      /\ log' = Append(log, Tx(k, NoRow))
  BY DEF ExecuteOther, gateway
<1>3. Logged(Tx(k, NoRow)) /\ Tx(k, NoRow).address = NoRow
  BY <1>1, <1>2, AppendLogged, TxRow
<1>4. ClientsTypeOK'
  <2> HIDE DEF Row, Session, Lifted
  <2> QED
    BY <1>1, <1>2, <1>3 DEF ClientsTypeOK, Logged
<1>5. RowsFound' /\ AddressOnce' /\ Provenance'
  <2>1. RowsFound'
    BY <1>1, <1>2, <1>3, LoggedFound
  <2> QED
    BY <1>1, <1>2, <2>1 DEF AddressOnce, Provenance, Sent, Answered
<1>6. LogOK'
  <2>1. Len(log) \in Nat
    BY <1>1, Lists
  <2>2. \A i \in 1 .. Len(log') : i \in 1 .. Len(log) \/ i = Len(log) + 1
    BY <1>3, <2>1 DEF Logged
  <2>3. \A i \in 1 .. Len(log') : log'[i].address # NoRow =>
          i \in 1 .. Len(log) /\ log'[i] = log[i]
    BY <1>3, <2>2 DEF Logged
  <2> QED
    BY <1>1, <1>2, <2>3 DEF LogOK
<1>7. Shown' /\ Ready'
  <2>1. Shown'
    BY <1>1, <1>2, <1>3 DEF Shown, Settled, HasRow, Logged
  <2>2. Ready'
    BY <1>1, <1>2, <1>3 DEF Ready, Settled, HasRow, RowsFound, Logged
  <2> QED
    BY <2>1, <2>2
<1> QED
  BY <1>4, <1>5, <1>6, <1>7 DEF CInv

-----------------------------------------------------------------------------
(***************************************************************************)
(* The interpreter.                                                        *)
(***************************************************************************)

\* What the interpreter's select finds is the row of its key, or none.
LEMMA LiftFinds ==
  ASSUME ClientsTypeOK, LiftAccount
  PROVE  /\ UNCHANGED <<client, pool, log, account, session, crashes, refused>>
         /\ overlapped' \in BOOLEAN
         /\ \/ lifted' = Off("dead")
            \/ /\ log # <<>>
               /\ \E i \in 0 .. Len(account) :
                    /\ lifted' = Finds(i, Head(log).address)
                    /\ i # 0 => account[i].key = Head(log).key
                    /\ i = 0 => \A j \in 1 .. Len(account) : account[j].key # Head(log).key
<1> DEFINE k == Head(log).key
           found == {i \in DOMAIN account : account[i].key = k}
<1>1. UNCHANGED <<client, pool, log, account, session, crashes, refused>> /\ overlapped' \in BOOLEAN
  BY DEF LiftAccount, Touch, gateway
<1>2. /\ log # <<>>
      /\ lifted' = IF Cardinality(found) > 1 THEN Off("dead")
                   ELSE Finds(IF found = {} THEN 0 ELSE CHOOSE i \in found : TRUE,
                              Head(log).address)
  BY DEF LiftAccount
<1>3. DOMAIN account = 1 .. Len(account) /\ Len(account) \in Nat
  BY Lists
<1>4. CASE Cardinality(found) > 1
  BY <1>1, <1>2, <1>4
<1>5. CASE ~(Cardinality(found) > 1) /\ found = {}
  <2>1. lifted' = Finds(0, Head(log).address)
    BY <1>2, <1>5
  <2>2. \A j \in 1 .. Len(account) : account[j].key # k
    BY <1>3, <1>5
  <2>3. 0 \in 0 .. Len(account)
    BY <1>3
  <2> HIDE DEF k, found
  <2> QED
    BY <1>1, <1>2, <2>1, <2>2, <2>3 DEF k
<1>6. CASE ~(Cardinality(found) > 1) /\ found # {}
  <2>1. PICK i : i = (CHOOSE j \in found : TRUE)
    OBVIOUS
  <2>2. i \in found
    BY <1>6, <2>1
  <2>3. i \in 0 .. Len(account) /\ i # 0 /\ account[i].key = k
    BY <1>3, <2>2
  <2>4. lifted' = Finds(i, Head(log).address)
    BY <1>2, <1>6, <2>1
  <2> HIDE DEF k, found
  <2> QED
    BY <1>1, <1>2, <2>3, <2>4 DEF k
<1> QED
  BY <1>4, <1>5, <1>6

LEMMA LiftCInv ==
  ASSUME CInv, LiftAccount
  PROVE  CInv'
<1>1. ClientsTypeOK /\ RowsFound /\ AddressOnce /\ Provenance /\ LogOK /\ Shown /\ Ready
  BY DEF CInv
<1>2. UNCHANGED <<client, pool, log, account, session, crashes, refused>> /\ overlapped' \in BOOLEAN
  BY <1>1, LiftFinds
<1>3. \/ lifted' = Off("dead")
      \/ /\ log # <<>>
         /\ \E i \in 0 .. Len(account) :
              /\ lifted' = Finds(i, Head(log).address)
              /\ i # 0 => account[i].key = Head(log).key
  BY <1>1, LiftFinds
<1>4. lifted' \in Lifted /\ (lifted'.at = "found" =>
         /\ log # <<>> /\ lifted'.row \in 0 .. Len(account)
         /\ lifted'.row # 0 => account[lifted'.row].key = Head(log).key
         /\ lifted'.row = 0 => lifted'.writes
         /\ lifted'.writes => lifted'.row = 0 \/ Head(log).address # NoRow
         /\ ~lifted'.writes /\ Head(log).address # NoRow =>
              account[lifted'.row].address = Head(log).address)
  <2>1. Len(account) \in Nat
    BY <1>1, Lists
  <2>2. CASE lifted' = Off("dead")
    BY <2>2 DEF Lifted, Off
  <2>3. ASSUME NEW i \in 0 .. Len(account), log # <<>>,
               lifted' = Finds(i, Head(log).address),
               i # 0 => account[i].key = Head(log).key
        PROVE  <1>4!1 /\ <1>4!2
    <3> DEFINE w == i = 0 \/ (Head(log).address # NoRow
                              /\ account[i].address # Head(log).address)
    <3>1. w \in BOOLEAN /\ lifted' = [at |-> "found", row |-> i, writes |-> w]
      BY <2>3 DEF Finds
    <3> HIDE DEF w
    <3>2. lifted' \in Lifted
      BY <2>1, <3>1 DEF Lifted
    <3>3. lifted'.row = i /\ lifted'.writes = w
      BY <3>1
    <3> QED
      BY <2>1, <2>3, <3>2, <3>3 DEF w
  <2> QED
    BY <1>3, <2>2, <2>3
<1>5. ClientsTypeOK'
  <2> HIDE DEF Row, Session, Lifted
  <2> QED
    BY <1>1, <1>2, <1>4 DEF ClientsTypeOK
<1>6. RowsFound'
  BY <1>1, <1>2, <1>4 DEF RowsFound
<1>7. AddressOnce' /\ Provenance' /\ LogOK' /\ Shown'
  BY <1>1, <1>2 DEF AddressOnce, Provenance, Sent, Answered, LogOK, Shown, Settled, HasRow
<1>8. Ready'
  <2> SUFFICES ASSUME lifted'.at = "found", ~lifted'.writes, Head(log).address # NoRow
               PROVE  HasRow(Head(log).key, Head(log).address)
    BY <1>2 DEF Ready, HasRow
  <2>1. /\ lifted'.row \in 1 .. Len(account)
        /\ account[lifted'.row].key = Head(log).key
        /\ account[lifted'.row].address = Head(log).address
    BY <1>1, <1>4, Lists
  <2>2. account[lifted'.row] = Tx(Head(log).key, Head(log).address)
    BY <1>1, <2>1, Lists, RowFields
  <2> QED
    BY <2>1, <2>2 DEF HasRow
<1> QED
  BY <1>5, <1>6, <1>7, <1>8 DEF CInv

\* The interpreter is idle or dead, and nothing else has changed.
LEMMA AsideCInv ==
  ASSUME CInv, UNCHANGED <<client, pool, log, account, session, overlapped, refused>>,
         lifted' \in Lifted, lifted'.at # "found", crashes' \in Nat
  PROVE  CInv'
<1>1. ClientsTypeOK /\ RowsFound /\ AddressOnce /\ Provenance /\ LogOK /\ Shown /\ Ready
  BY DEF CInv
<1>2. ClientsTypeOK'
  <2> HIDE DEF Row, Session, Lifted
  <2> QED
    BY <1>1 DEF ClientsTypeOK
<1>3. RowsFound'
  BY <1>1 DEF RowsFound
<1>4. AddressOnce' /\ Provenance' /\ LogOK' /\ Shown' /\ Ready'
  BY <1>1, Unanswered DEF Answered
<1> QED
  BY <1>2, <1>3, <1>4 DEF CInv

\* What the interpreter's commit does, when it succeeds
Passes(k, b) ==
  /\ k = Head(log).key /\ b = Head(log).address /\ k \in Key
  /\ b \in Address \cup {NoRow} /\ Head(log) = Tx(k, b)
  /\ lifted.row \in 0 .. Len(account)
  /\ lifted.row # 0 => account[lifted.row].key = k
  /\ b # NoRow => client[b] = k
  /\ \/ ~lifted.writes /\ lifted.row # 0 /\ account' = account
     \/ /\ lifted.row = 0 \/ b # NoRow
        /\ \E n \in 1 .. Len(account') : Wrote(lifted.row, n, k, b)
  /\ Unique(account') /\ Grown /\ account' \in Seq(Row)
  /\ log # <<>> /\ log' = Tail(log) /\ log' \in Seq(Row)
  /\ Range(log) = Range(log') \cup {Tx(k, b)}
  /\ \A i \in 1 .. Len(log') : i + 1 \in 1 .. Len(log) /\ log'[i] = log[i + 1]
  /\ lifted' = Off("idle")

LEMMA CommitPasses ==
  ASSUME ClientsTypeOK, RowsFound, LogOK, CommitAccount
  PROVE  /\ UNCHANGED <<client, pool, session, overlapped, crashes, refused>>
         /\ lifted.at = "found"
         /\ \/ UNCHANGED <<account, log>> /\ lifted' = Off("dead")
            \/ Passes(Head(log).key, Head(log).address)
<1> DEFINE k == Head(log).key
           b == Head(log).address
           i == lifted.row
           rows == IF lifted.writes THEN Written(i, k, b) ELSE account
<1>1. UNCHANGED <<client, pool, session, overlapped, crashes, refused>> /\ lifted.at = "found"
  BY DEF CommitAccount
<1>2. \/ UNCHANGED <<account, log>> /\ lifted' = Off("dead")
      \/ /\ account' = rows /\ Unique(account') /\ log' = Tail(log)
         /\ lifted' = Off("idle")
  BY DEF CommitAccount, Committed
<1>3. /\ log # <<>> /\ i \in 0 .. Len(account) /\ (i # 0 => account[i].key = k)
      /\ Head(log) = log[1] /\ Head(log) \in Row /\ 1 \in 1 .. Len(log)
      /\ Len(log) \in Nat /\ Len(account) \in Nat
      /\ i = 0 => lifted.writes
      /\ lifted.writes => i = 0 \/ b # NoRow
  BY <1>1, Lists DEF RowsFound
<1>4. k \in Key /\ b \in Address \cup {NoRow} /\ Head(log) = Tx(k, b)
  BY <1>3, RowFields
<1>5. b # NoRow => client[b] = k
  BY <1>3 DEF LogOK
<1>6. ASSUME account' = rows, Unique(account'), log' = Tail(log),
             lifted' = Off("idle")
      PROVE  Passes(k, b)
  <2> HIDE DEF Row
  <2>1. \/ account' = account
        \/ account' = Written(i, k, b)
    BY <1>6
  <2>2. /\ log \in Seq(Row) /\ account \in Seq(Row) /\ log' \in Seq(Row)
        /\ Len(log') = Len(log) - 1 /\ DOMAIN log' = 1 .. Len(log')
        /\ DOMAIN log = 1 .. Len(log)
        /\ \A j \in 1 .. Len(log') : log'[j] = log[j + 1]
    BY <1>3, <1>6, TypeParts, HeadTailProperties, LenProperties
  <2>3. \A j \in 1 .. Len(log') : j + 1 \in 1 .. Len(log) /\ log'[j] = log[j + 1]
    BY <1>3, <2>2
  <2>4. Range(log) = Range(log') \cup {Tx(k, b)}
    <3>1. \A j \in 1 .. Len(log) : j = 1 \/ \E m \in 1 .. Len(log') : j = m + 1
      <4> SUFFICES ASSUME NEW j \in 1 .. Len(log), j # 1
                   PROVE  \E m \in 1 .. Len(log') : j = m + 1
        OBVIOUS
      <4>1. j - 1 \in 1 .. Len(log') /\ j = (j - 1) + 1
        BY <1>3, <2>2
      <4> QED
        BY <4>1
    <3>2. log[1] = Tx(k, b)
      BY <1>3, <1>4
    <3>3. /\ Range(log) = {log[j] : j \in 1 .. Len(log)}
          /\ Range(log') = {log'[j] : j \in 1 .. Len(log')}
      BY <2>2, Zenon DEF Range
    <3>4. ASSUME NEW x \in Range(log) PROVE x \in Range(log') \/ x = Tx(k, b)
      <4>1. PICK j \in 1 .. Len(log) : x = log[j]
        BY <3>3
      <4> QED
        BY <2>3, <3>1, <3>2, <3>3, <4>1
    <3>5. ASSUME NEW x \in Range(log') PROVE x \in Range(log)
      BY <2>3, <3>3
    <3>6. Tx(k, b) \in Range(log)
      BY <1>3, <3>2, <3>3
    <3> HIDE DEF k, b
    <3> QED
      BY <3>4, <3>5, <3>6
  <2> HIDE DEF i, k, b, rows
  <2>5. account' = account \/ \E n \in 1 .. Len(account') : Wrote(i, n, k, b)
    BY <1>3, <1>4, <2>1, WrittenRow
  <2>6. \/ ~lifted.writes /\ i # 0 /\ account' = account
        \/ /\ i = 0 \/ b # NoRow
           /\ \E n \in 1 .. Len(account') : Wrote(i, n, k, b)
    <3>1. CASE ~lifted.writes
      BY <1>3, <1>6, <3>1 DEF rows
    <3>2. CASE lifted.writes
      <4>1. account' = Written(i, k, b)
        BY <1>6, <3>2 DEF rows
      <4> QED
        BY <1>3, <1>4, <3>2, <4>1, WrittenRow
    <3> QED
      BY <3>1, <3>2
  <2>7. Grown
    BY <1>3, <2>5, GrownSame, GrownWrote
  <2>8. account' \in Seq(Row)
    BY <2>2, <2>5 DEF Wrote
  <2> QED
    BY <1>3, <1>4, <1>5, <1>6, <2>2, <2>3, <2>4, <2>6, <2>7, <2>8 DEF Passes, i, k, b
<1> HIDE DEF rows
<1> QED
  BY <1>1, <1>2, <1>6

LEMMA CommitAccountCInv ==
  ASSUME CInv, CommitAccount
  PROVE  CInv'
<1>1. ClientsTypeOK /\ RowsFound /\ AddressOnce /\ Provenance /\ LogOK /\ Shown /\ Ready
  BY DEF CInv
<1>2. UNCHANGED <<client, pool, session, overlapped, crashes, refused>>
  BY <1>1, CommitPasses
<1>3. CASE UNCHANGED <<account, log>> /\ lifted' = Off("dead")
  <2>1. lifted' \in Lifted /\ lifted'.at # "found"
    BY <1>3 DEF Lifted, Off
  <2> QED
    BY <1>1, <1>2, <1>3, <2>1, AsideCInv, TypeParts
<1>4. ASSUME NEW k, NEW b, Passes(k, b) PROVE CInv'
  <2>1. ClientsTypeOK'
    <3>1. lifted' \in Lifted
      BY <1>4 DEF Passes, Lifted, Off
    <3> HIDE DEF Row, Session, Lifted
    <3> QED
      BY <1>1, <1>2, <1>4, <3>1 DEF ClientsTypeOK, Passes
  <2>2. RowsFound'
    <3>1. lifted'.at # "found" /\ Grown
      BY <1>4 DEF Passes, Off
    <3>2. \A q \in Request : session[q].at = "found" =>
            /\ session[q].row \in 0 .. Len(account')
            /\ session[q].row # 0 => account'[session[q].row].key = KeyOf[q]
      BY <1>1, <3>1, FoundStays DEF RowsFound
    <3> QED
      BY <1>1, <1>2, <3>1, <3>2 DEF RowsFound
  <2>3. AddressOnce'
    <3>1. DOMAIN account' = 1 .. Len(account')
      BY <1>4, LenProperties DEF Passes
    <3> QED
      BY <1>4, <3>1 DEF Passes, Unique, AddressOnce
  <2>4. Provenance'
    BY <1>1, <1>2 DEF Provenance, Sent, Answered
  <2>5. LogOK'
    BY <1>1, <1>2, <1>4 DEF Passes, LogOK
  <2>6. Shown'
    <3>1. ASSUME NEW c \in Address, Settled(c), Tx(client[c], c) \notin Range(log')
          PROVE  \E j \in 1 .. Len(account') : account'[j] = Tx(client[c], c)
      <4>1. CASE Tx(client[c], c) = Tx(k, b)
        <5>1. b # NoRow /\ b = c /\ client[c] = k
          BY <4>1, TxRow, Inputs
        <5>2. CASE ~lifted.writes /\ account' = account
          <6>1. HasRow(k, b)
            BY <1>1, <1>4, <3>1, <5>1, <5>2, CommitPasses DEF Passes, Ready
          <6> QED
            BY <5>1, <5>2, <6>1 DEF HasRow
        <5> QED
          BY <1>4, <5>1, <5>2 DEF Passes, Wrote
      <4>2. CASE Tx(client[c], c) # Tx(k, b)
        <5>1. HasRow(client[c], c)
          BY <1>1, <1>4, <3>1, <4>2 DEF Shown, Passes
        <5>2. CASE account' = account
          BY <5>1, <5>2 DEF HasRow
        <5>3. ASSUME NEW n \in 1 .. Len(account'), Wrote(lifted.row, n, k, b), b # NoRow
              PROVE  \E j \in 1 .. Len(account') : account'[j] = Tx(client[c], c)
          <6>1. client[c] = k => b = c
            BY <1>4, <3>1, <5>3 DEF Passes, Settled
          <6>2. /\ lifted.row \in 0 .. Len(account)
                /\ lifted.row # 0 => account[lifted.row].key = k
            BY <1>4 DEF Passes
          <6> QED
            BY <1>1, <5>1, <5>3, <6>1, <6>2, ShownStays
        <5>4. ASSUME NEW n \in 1 .. Len(account'), Wrote(lifted.row, n, k, b), lifted.row = 0
              PROVE  \E j \in 1 .. Len(account') : account'[j] = Tx(client[c], c)
          BY <1>1, <5>1, <5>4, ShownStays, Lists
        <5> QED
          BY <1>4, <5>2, <5>3, <5>4 DEF Passes
      <4> QED
        BY <4>1, <4>2
    <3> QED
      BY <1>2, <3>1 DEF Shown, Settled, HasRow
  <2>7. Ready'
    BY <1>4 DEF Passes, Ready, Off
  <2> QED
    BY <2>1, <2>2, <2>3, <2>4, <2>5, <2>6, <2>7 DEF CInv
<1> QED
  BY <1>1, <1>3, <1>4, CommitPasses

LEMMA CInvStep ==
  ASSUME CInv, [Next]_vars
  PROVE  CInv'
<1>1. ASSUME NEW r \in Request, SelectClient(r) PROVE CInv'
  BY <1>1, SelectCInv
<1>2. ASSUME NEW r \in Request, CommitClient(r) PROVE CInv'
  BY <1>2, CommitCInv
<1>3. ASSUME NEW r \in Request, RelayClient(r) PROVE CInv'
  BY <1>3, RelayCInv
<1>4. ASSUME NEW r \in Request, CrashRequest(r) PROVE CInv'
  BY <1>4, CrashRequestCInv
<1>5. ASSUME NEW d \in Direct, SendDirectly(d[1], d[2]) PROVE CInv'
  BY <1>5, SendCInv
<1>6. ASSUME NEW tx \in pool, ExecuteClient(tx) PROVE CInv'
  BY <1>6, ExecuteCInv
<1>7. ASSUME NEW k \in Depositor, ExecuteOther(k) PROVE CInv'
  BY <1>7, OtherCInv, ClientsAssumption DEF ClientsAssumption
<1>8. CASE LiftAccount
  BY <1>8, LiftCInv
<1>9. CASE CommitAccount
  BY <1>9, CommitAccountCInv
<1>10. CASE RestartInterpreter
  <2>1. /\ UNCHANGED <<client, pool, log, account, session, overlapped, crashes, refused>>
        /\ lifted' \in Lifted /\ lifted'.at # "found"
    BY <1>10 DEF RestartInterpreter, gateway, Lifted, Off
  <2> QED
    BY <2>1, AsideCInv, TypeParts DEF CInv
<1>11. CASE CrashInterpreter
  <2>1. /\ UNCHANGED <<client, pool, log, account, session, overlapped, refused>>
        /\ lifted' \in Lifted /\ lifted'.at # "found"
        /\ crashes' = crashes + 1
    BY <1>11 DEF CrashInterpreter, gateway, Lifted, Off
  <2>2. crashes' \in Nat
    BY <2>1, TypeParts DEF CInv
  <2> QED
    BY <2>1, <2>2, AsideCInv
<1>12. CASE UNCHANGED vars
  <2>1. UNCHANGED <<client, pool, log, account, session, lifted, overlapped, crashes, refused>>
    BY <1>12 DEF vars
  <2>2. ClientsTypeOK'
    <3> HIDE DEF Row, Session, Lifted
    <3> QED
      BY <2>1 DEF CInv, ClientsTypeOK
  <2>3. RowsFound' /\ AddressOnce' /\ Provenance' /\ LogOK' /\ Shown' /\ Ready'
    BY <2>1, Unanswered DEF CInv, RowsFound, Answered
  <2> QED
    BY <2>2, <2>3 DEF CInv
<1>13. ASSUME NEW k \in Lifter, LiftElsewhere(k) PROVE CInv'
  BY <1>13, ElsewhereCInv, ClientsAssumption DEF ClientsAssumption
<1> QED
  BY <1>1, <1>2, <1>3, <1>4, <1>5, <1>6, <1>7, <1>8, <1>9, <1>10, <1>11, <1>12, <1>13
     DEF Next, Interpret

-----------------------------------------------------------------------------
(***************************************************************************)
(* As long as sessions do not overlap.                                     *)
(***************************************************************************)
Alone == KeyOnce /\ FoundSo /\ LiftedSo /\ Apart /\ Kept

LEMMA AloneInit == Init => AloneInv
<1>1. account = <<>> => Len(account) = 0
  BY EmptySeq
<1> QED
  BY <1>1 DEF Init, AloneInv, KeyOnce, FoundSo, LiftedSo, Apart, Kept, Off

\* Nobody writes the table, and no session opens.
LEMMA AsideAlone ==
  ASSUME Alone, account' = account,
         \A b \in Address : client[b] # Nobody => client'[b] = client[b],
         \A q \in Request : session'[q].at = "found" => session'[q] = session[q],
         \A q \in Request :
           session'[q].at \in {"relay", "ok"} => session[q].at \in {"relay", "ok"},
         lifted'.at = "found" => lifted' = lifted /\ Head(log') = Head(log)
  PROVE  Alone'
<1>1. KeyOnce'
  BY DEF Alone, KeyOnce
<1>2. FoundSo'
  BY DEF Alone, FoundSo
<1>3. LiftedSo'
  BY DEF Alone, LiftedSo
<1>4. Apart'
  BY DEF Alone, Apart
<1>5. Kept'
  <2>1. ASSUME NEW q \in Request, Wayward(KeyOf[q])
        PROVE  \E a \in Address, r \in Request :
                 /\ client'[a] = KeyOf[q] /\ <<client'[a], a>> \in Direct
                 /\ KeyOf[r] = KeyOf[q] /\ AddressOf[r] # a
    <3>1. PICK a \in Address, r \in Request :
            /\ client[a] = KeyOf[q] /\ <<client[a], a>> \in Direct
            /\ KeyOf[r] = KeyOf[q] /\ AddressOf[r] # a
      BY <2>1 DEF Wayward, WentDirectly
    <3>2. client'[a] = client[a]
      BY <3>1, Inputs
    <3> QED
      BY <3>1, <3>2
  <2> QED
    BY <2>1 DEF Alone, Kept, HasRow, Wayward, WentDirectly
<1> QED
  BY <1>1, <1>2, <1>3, <1>4, <1>5 DEF Alone

\* What a session that opens shares nothing with
LEMMA Untouched ==
  ASSUME NEW k, NEW a \in Address \cup {NoRow},
         ~\E tx \in InHand : tx.key = k \/ (tx.address = a /\ a # NoRow)
  PROVE  /\ \A q \in Request : session[q].at = "found" =>
              KeyOf[q] # k /\ AddressOf[q] # a
         /\ lifted.at = "found" =>
              Head(log).key # k /\ (a # NoRow => Head(log).address # a)
<1>1. \A tx \in InHand : tx.key # k /\ (a # NoRow => tx.address # a)
  OBVIOUS
<1>2. ASSUME NEW q \in Request, session[q].at = "found"
      PROVE  KeyOf[q] # k /\ AddressOf[q] # a
  <2>1. Tx(KeyOf[q], AddressOf[q]) \in InHand
    BY <1>2 DEF InHand
  <2> QED
    BY <1>1, <2>1, TxRow, Inputs
<1>3. lifted.at = "found" => Head(log) \in InHand
  BY DEF InHand
<1> QED
  BY <1>1, <1>2, <1>3

LEMMA SelectUntouched ==
  ASSUME NEW r \in Request, SelectClient(r), ~overlapped'
  PROVE  /\ UNCHANGED <<client, pool, log, account, lifted>>
         /\ ~\E tx \in InHand : \/ tx.key = KeyOf[r]
                                \/ tx.address = AddressOf[r] /\ AddressOf[r] # NoRow
BY DEF SelectClient, Touch

LEMMA SelectAlone ==
  ASSUME CInv, Alone, NEW r \in Request, SelectClient(r), ~overlapped'
  PROVE  Alone'
<1>0. PICK k, a : k = KeyOf[r] /\ a = AddressOf[r]
  OBVIOUS
<1>1. ClientsTypeOK /\ DOMAIN account = 1 .. Len(account) /\ k \in Key /\ a \in Address
      /\ a # NoRow /\ Len(account) \in Nat
  BY <1>0, Lists, Inputs DEF CInv
<1>2. /\ UNCHANGED <<client, pool, log, account, lifted>>
      /\ ~\E tx \in InHand : tx.key = k \/ (tx.address = a /\ a # NoRow)
  BY <1>0, SelectUntouched
<1>3. PICK st, row :
        /\ Sets(r, st, row) /\ st \in {"found", "idle"} /\ row \in Nat
        /\ st = "found" /\ row = 0 => \A j \in 1 .. Len(account) :
             account[j].key # k /\ account[j].address # a
        /\ st = "found" /\ row # 0 =>
             /\ account[row].address \in {NoRow, a}
             /\ \A j \in 1 .. Len(account) : j # row => account[j].address # a
  <2>1. \A j \in 1 .. Len(account) : j \notin Matches(k, a) =>
          account[j].key # k /\ account[j].address # a
    BY <1>1 DEF Matches
  <2>2. Matches(k, a) \subseteq 1 .. Len(account)
    BY <1>1 DEF Matches
  <2>3. CASE Matches(k, a) = {} /\ Sets(r, "found", 0)
    BY <2>1, <2>3
  <2>4. CASE Sets(r, "idle", 0)
    BY <2>4
  <2>5. ASSUME NEW i \in Matches(k, a), Matches(k, a) = {i},
               account[i].address \in {NoRow, a}, Sets(r, "found", i)
        PROVE  /\ i \in Nat /\ i # 0
               /\ \A j \in 1 .. Len(account) : j # i => account[j].address # a
    BY <1>1, <2>1, <2>2, <2>5
  <2>6. \/ Matches(k, a) = {} /\ Sets(r, "found", 0)
        \/ Sets(r, "idle", 0)
        \/ \E i \in Matches(k, a) :
             /\ Matches(k, a) = {i} /\ account[i].address \in {NoRow, a}
             /\ Sets(r, "found", i)
    BY <1>0 DEF SelectClient, Touch
  <2> QED
    BY <2>3, <2>4, <2>5, <2>6
<1>4. /\ session'[r].at = st /\ session'[r].row = row
      /\ st = "found" => session'[r].writes = (row = 0 \/ account[row].address = NoRow)
      /\ \A q \in Request : q # r => session'[q] = session[q]
  BY <1>1, <1>3, SetsSession
<1>5. /\ \A q \in Request : session[q].at = "found" =>
           KeyOf[q] # k /\ AddressOf[q] # a
      /\ lifted.at = "found" => Head(log).key # k /\ Head(log).address # a
  BY <1>1, <1>2, Untouched
<1>6. KeyOnce' /\ LiftedSo'
  BY <1>2 DEF Alone, KeyOnce, LiftedSo
<1>7. FoundSo'
  <2>1. ASSUME NEW q \in Request, session'[q].at = "found"
        PROVE  /\ session'[q].row = 0 => \A i \in 1 .. Len(account) :
                    account[i].key # KeyOf[q] /\ account[i].address # AddressOf[q]
               /\ session'[q].row # 0 =>
                    /\ account[session'[q].row].address =
                         IF session'[q].writes THEN NoRow ELSE AddressOf[q]
                    /\ \A i \in 1 .. Len(account) :
                         i # session'[q].row => account[i].address # AddressOf[q]
    <3>1. CASE q = r
      BY <1>0, <1>3, <1>4, <2>1, <3>1
    <3>2. CASE q # r
      BY <1>4, <2>1, <3>2 DEF Alone, FoundSo
    <3> QED
      BY <3>1, <3>2
  <2> QED
    BY <1>2, <2>1 DEF FoundSo
<1>8. Apart'
  <2>1. ASSUME NEW q \in Request, NEW p \in Request, q # p,
               session'[q].at = "found", session'[p].at = "found"
        PROVE  KeyOf[q] # KeyOf[p] /\ AddressOf[q] # AddressOf[p]
    <3>1. CASE q = r
      BY <1>0, <1>4, <1>5, <2>1, <3>1
    <3>2. CASE p = r
      BY <1>0, <1>4, <1>5, <2>1, <3>2
    <3>3. CASE q # r /\ p # r
      BY <1>4, <2>1, <3>3 DEF Alone, Apart
    <3> QED
      BY <3>1, <3>2, <3>3
  <2>2. ASSUME NEW q \in Request, session'[q].at = "found", lifted.at = "found"
        PROVE  KeyOf[q] # Head(log).key /\ AddressOf[q] # Head(log).address
    <3>1. CASE q = r
      BY <1>0, <1>5, <2>2, <3>1
    <3>2. CASE q # r
      BY <1>4, <2>2, <3>2 DEF Alone, Apart
    <3> QED
      BY <3>1, <3>2
  <2> QED
    BY <1>2, <2>1, <2>2 DEF Apart
<1>9. Kept'
  <2>1. \A q \in Request : session'[q].at \in {"relay", "ok"} =>
          session[q].at \in {"relay", "ok"}
    BY <1>3, <1>4
  <2> QED
    BY <1>2, <2>1 DEF Alone, Kept, HasRow, Wayward, WentDirectly
<1> QED
  BY <1>6, <1>7, <1>8, <1>9 DEF Alone

\* A write for key k and address a, whose row was the only one of the key: all
\* keys still have one row, and sessions about others find what they found.
LEMMA WroteAlone ==
  ASSUME ClientsTypeOK, RowsFound, KeyOnce, FoundSo,
         NEW i \in 0 .. Len(account), NEW n, NEW k, NEW a, Wrote(i, n, k, a),
         i # 0 => account[i].key = k,
         i = 0 => \A j \in 1 .. Len(account) : account[j].key # k
  PROVE  /\ KeyOnce'
         /\ \A q \in Request :
              session[q].at = "found" /\ KeyOf[q] # k /\ AddressOf[q] # a =>
              /\ session[q].row = 0 => \A j \in 1 .. Len(account') :
                   account'[j].key # KeyOf[q] /\ account'[j].address # AddressOf[q]
              /\ session[q].row # 0 =>
                   /\ account'[session[q].row].address =
                        IF session[q].writes THEN NoRow ELSE AddressOf[q]
                   /\ \A j \in 1 .. Len(account') :
                        j # session[q].row => account'[j].address # AddressOf[q]
<1>1. /\ Len(account) \in Nat /\ Len(account') \in Nat /\ n \in 1 .. Len(account')
      /\ account'[n].key = k /\ account'[n].address = a
      /\ \A j \in 1 .. Len(account') :
           j # n => j \in 1 .. Len(account) /\ account'[j] = account[j]
      /\ i = 0 => n = Len(account) + 1
      /\ i # 0 => n = i
  BY Lists, TxRow DEF Wrote
<1>2. \A j \in 1 .. Len(account') : j # n => account[j].key # k
  <2>1. CASE i = 0
    BY <1>1, <2>1
  <2>2. CASE i # 0
    BY <1>1, <2>2 DEF KeyOnce
  <2> QED
    BY <2>1, <2>2
<1>3. KeyOnce'
  <2>1. ASSUME NEW j \in 1 .. Len(account'), NEW m \in 1 .. Len(account'), j # m
        PROVE  account'[j].key # account'[m].key
    <3>1. CASE j = n
      BY <1>1, <1>2, <2>1, <3>1
    <3>2. CASE m = n
      BY <1>1, <1>2, <2>1, <3>2
    <3>3. CASE j # n /\ m # n
      BY <1>1, <2>1, <3>3 DEF KeyOnce
    <3> QED
      BY <3>1, <3>2, <3>3
  <2> QED
    BY <2>1 DEF KeyOnce
<1>4. ASSUME NEW q \in Request, session[q].at = "found", KeyOf[q] # k, AddressOf[q] # a,
             session[q].row = 0, NEW j \in 1 .. Len(account')
      PROVE  account'[j].key # KeyOf[q] /\ account'[j].address # AddressOf[q]
  <2>1. CASE j = n
    BY <1>1, <1>4, <2>1
  <2>2. CASE j # n
    BY <1>1, <1>4, <2>2 DEF FoundSo
  <2> QED
    BY <2>1, <2>2
<1>5. ASSUME NEW q \in Request, session[q].at = "found", KeyOf[q] # k, AddressOf[q] # a,
             session[q].row # 0
      PROVE  /\ account'[session[q].row].address =
                        IF session[q].writes THEN NoRow ELSE AddressOf[q]
             /\ \A j \in 1 .. Len(account') :
                  j # session[q].row => account'[j].address # AddressOf[q]
  <2>1. session[q].row \in 1 .. Len(account) /\ account[session[q].row].key = KeyOf[q]
    BY <1>1, <1>5 DEF RowsFound
  <2>2. session[q].row # n /\ session[q].row \in 1 .. Len(account')
    BY <1>1, <1>5, <2>1, WroteKeys
  <2>3. account'[session[q].row].address =
          IF session[q].writes THEN NoRow ELSE AddressOf[q]
    BY <1>1, <1>5, <2>2 DEF FoundSo
  <2>4. ASSUME NEW j \in 1 .. Len(account'), j # session[q].row
        PROVE  account'[j].address # AddressOf[q]
    <3>1. CASE j = n
      BY <1>1, <1>5, <3>1
    <3>2. CASE j # n
      BY <1>1, <1>5, <2>4, <3>2 DEF FoundSo
    <3> QED
      BY <3>1, <3>2
  <2> QED
    BY <2>3, <2>4
<1> QED
  BY <1>3, <1>4, <1>5

LEMMA CommitAlone ==
  ASSUME CInv, Alone, NEW r \in Request, CommitClient(r)
  PROVE  Alone'
<1> DEFINE k == KeyOf[r]
           a == AddressOf[r]
           i == session[r].row
           w == session[r].writes
<1>1. /\ ClientsTypeOK /\ RowsFound
      /\ KeyOnce /\ FoundSo /\ LiftedSo /\ Apart /\ Kept
  BY DEF CInv, Alone
<1>2. /\ UNCHANGED <<client, pool, log, lifted, overlapped, crashes, refused>>
      /\ session[r].at = "found"
  BY DEF CommitClient
<1>3. /\ i \in 0 .. Len(account) /\ (i # 0 => account[i].key = k)
      /\ (i = 0 => \A j \in 1 .. Len(account) : account[j].key # k)
      /\ (i = 0 => w)
      /\ (i # 0 => account[i].address = IF w THEN NoRow ELSE a)
      /\ k \in Key /\ a \in Address /\ Len(account) \in Nat
  BY <1>1, <1>2, Inputs, Lists DEF RowsFound, FoundSo
<1> HIDE DEF i, k, a, w
<1>4. PICK st \in {"relay", "idle"} :
        /\ Sets(r, st, 0)
        /\ st = "relay" => account' = IF w THEN Written(i, k, a) ELSE account
        /\ st = "idle" => account' = account
  BY DEF CommitClient, Committed, i, k, a, w
<1>5. /\ session'[r].at = st
      /\ \A q \in Request : q # r => session'[q] = session[q]
  BY <1>1, <1>4, SetsSession
<1>6. CASE st = "idle"
  BY <1>2, <1>4, <1>5, <1>6, AsideAlone
<1>8. CASE st = "relay" /\ ~w
  <2>1. /\ account' = account /\ i \in 1 .. Len(account)
        /\ account[i].key = k /\ account[i].address = a
    BY <1>3, <1>4, <1>8
  <2>2. account[i] = Tx(k, a)
    BY <1>1, <2>1, Lists, RowFields
  <2>3. \A q \in Request : session'[q].at = "found" => session'[q] = session[q]
    BY <1>5, <1>8
  <2>4. KeyOnce' /\ LiftedSo'
    BY <1>1, <1>2, <2>1 DEF KeyOnce, LiftedSo
  <2>5. FoundSo'
    BY <1>1, <2>1, <2>3 DEF FoundSo
  <2>6. Apart'
    BY <1>1, <1>2, <2>3 DEF Apart
  <2>7. Kept'
    <3>1. ASSUME NEW q \in Request, session'[q].at \in {"relay", "ok"}
          PROVE  HasRow(KeyOf[q], AddressOf[q]) \/ Wayward(KeyOf[q])
      <4>1. CASE q = r
        BY <2>1, <2>2, <4>1 DEF HasRow, k, a
      <4>2. CASE q # r
        BY <1>1, <1>5, <3>1, <4>2 DEF Kept
      <4> QED
        BY <4>1, <4>2
    <3> QED
      BY <1>2, <2>1, <3>1 DEF Kept, HasRow, Wayward, WentDirectly
  <2> QED
    BY <2>4, <2>5, <2>6, <2>7 DEF Alone
<1>7. CASE st = "relay" /\ w
  <2>1. PICK n \in 1 .. Len(account') : Wrote(i, n, k, a)
    BY <1>1, <1>3, <1>4, <1>7, WrittenRow
  <2>2. /\ account'[n] = Tx(k, a) /\ account'[n].key = k
        /\ \A j \in 1 .. Len(account') :
             j # n => j \in 1 .. Len(account) /\ account'[j] = account[j]
    BY <2>1, TxRow DEF Wrote
  <2>3. \A q \in Request : session'[q].at = "found" =>
          q # r /\ session[q] = session'[q] /\ KeyOf[q] # k /\ AddressOf[q] # a
    BY <1>1, <1>2, <1>5, <1>7 DEF Apart, k, a
  <2>4. KeyOnce'
    BY <1>1, <1>3, <2>1, WroteAlone
  <2>5. FoundSo'
    <3>1. \A q \in Request : session'[q].at = "found" =>
            /\ session[q].row = 0 => \A j \in 1 .. Len(account') :
                 account'[j].key # KeyOf[q] /\ account'[j].address # AddressOf[q]
            /\ session[q].row # 0 =>
                 /\ account'[session[q].row].address =
                        IF session[q].writes THEN NoRow ELSE AddressOf[q]
                 /\ \A j \in 1 .. Len(account') :
                      j # session[q].row => account'[j].address # AddressOf[q]
      BY <1>1, <1>3, <2>1, <2>3, WroteAlone
    <3> QED
      BY <2>3, <3>1 DEF FoundSo
  <2>6. LiftedSo'
    <3>1. lifted.at = "found" => Head(log).key # k
      BY <1>1, <1>2 DEF Apart, k
    <3> QED
      BY <1>1, <1>2, <2>2, <3>1 DEF LiftedSo
  <2>7. Apart'
    BY <1>1, <1>2, <2>3 DEF Apart
  <2>8. Kept'
    <3>1. ASSUME NEW q \in Request, session'[q].at \in {"relay", "ok"}
          PROVE  \/ \E j \in 1 .. Len(account') : account'[j] = Tx(KeyOf[q], AddressOf[q])
                 \/ Wayward(KeyOf[q])
      <4>1. CASE q = r
        BY <2>2, <4>1 DEF k, a
      <4>2. CASE q # r
        <5>1. HasRow(KeyOf[q], AddressOf[q]) \/ Wayward(KeyOf[q])
          BY <1>1, <1>5, <3>1, <4>2 DEF Kept
        <5>2. ASSUME NEW j \in 1 .. Len(account), account[j] = Tx(KeyOf[q], AddressOf[q]),
                     i # 0, KeyOf[q] = k
              PROVE  a = AddressOf[q]
          <6>1. j = i
            BY <1>1, <1>3, <5>2, TxRow DEF KeyOnce
          <6> QED
            BY <1>3, <5>2, <6>1, TxRow, Inputs
        <5>3. HasRow(KeyOf[q], AddressOf[q]) =>
                \E j \in 1 .. Len(account') : account'[j] = Tx(KeyOf[q], AddressOf[q])
          BY <1>1, <1>3, <2>1, <5>2, ShownStays DEF HasRow
        <5> QED
          BY <5>1, <5>3
      <4> QED
        BY <4>1, <4>2
    <3> QED
      BY <1>2, <3>1 DEF Kept, HasRow, Wayward, WentDirectly
  <2> QED
    BY <2>4, <2>5, <2>6, <2>7, <2>8 DEF Alone
<1> QED
  BY <1>6, <1>7, <1>8

LEMMA LiftAlone ==
  ASSUME CInv, Alone, LiftAccount, ~overlapped'
  PROVE  Alone'
<1>1. /\ ClientsTypeOK /\ RowsFound
      /\ KeyOnce /\ FoundSo /\ LiftedSo /\ Apart /\ Kept
  BY DEF CInv, Alone
<1>2. UNCHANGED <<client, pool, log, account, session>>
  BY <1>1, LiftFinds
<1>3. CASE lifted' = Off("dead")
  BY <1>2, <1>3, AsideAlone DEF Off
<1>4. ASSUME log # <<>>, NEW i \in 0 .. Len(account),
             lifted' = Finds(i, Head(log).address),
             i = 0 => \A j \in 1 .. Len(account) : account[j].key # Head(log).key
      PROVE  Alone'
  <2>1. /\ Head(log).address \in Address \cup {NoRow}
        /\ ~\E tx \in InHand :
              \/ tx.key = Head(log).key
              \/ tx.address = Head(log).address /\ Head(log).address # NoRow
    BY <1>1, <1>4, Lists, RowFields DEF LiftAccount, Touch
  <2>2. \A q \in Request : session[q].at = "found" =>
          KeyOf[q] # Head(log).key /\ AddressOf[q] # Head(log).address
    BY <2>1, Untouched
  <2>3. LiftedSo'
    BY <1>2, <1>4 DEF LiftedSo, Finds
  <2>4. Apart'
    BY <1>1, <1>2, <2>2 DEF Apart
  <2>5. KeyOnce' /\ FoundSo' /\ Kept'
    BY <1>1, <1>2 DEF KeyOnce, FoundSo, Kept, HasRow, Wayward, WentDirectly
  <2> QED
    BY <2>3, <2>4, <2>5 DEF Alone
<1> QED
  BY <1>1, <1>3, <1>4, LiftFinds

LEMMA CommitAccountAlone ==
  ASSUME CInv, Alone, CommitAccount
  PROVE  Alone'
<1>1. /\ ClientsTypeOK /\ RowsFound /\ LogOK /\ Provenance
      /\ KeyOnce /\ FoundSo /\ LiftedSo /\ Apart /\ Kept
  BY DEF CInv, Alone
<1>2. UNCHANGED <<client, pool, session, overlapped, crashes, refused>> /\ lifted.at = "found"
  BY <1>1, CommitPasses
<1>3. CASE account' = account /\ lifted'.at # "found"
  BY <1>2, <1>3, AsideAlone
<1>4. ASSUME NEW k, NEW b, Passes(k, b),
             NEW n \in 1 .. Len(account'), Wrote(lifted.row, n, k, b),
             lifted.row = 0 \/ b # NoRow
      PROVE  Alone'
  <2>1. /\ lifted.row \in 0 .. Len(account) /\ lifted'.at # "found"
        /\ k = Head(log).key /\ b = Head(log).address
        /\ lifted.row # 0 => account[lifted.row].key = k
        /\ b # NoRow => b \in Address /\ client[b] = k
        /\ k \in Key
    BY <1>4 DEF Passes, Off
  <2>2. lifted.row = 0 => \A j \in 1 .. Len(account) : account[j].key # k
    BY <1>1, <1>2, <2>1 DEF LiftedSo
  <2>3. KeyOnce'
    BY <1>1, <1>4, <2>1, <2>2, WroteAlone
  <2>4. \A q \in Request : session[q].at = "found" => KeyOf[q] # k /\ AddressOf[q] # b
    BY <1>1, <1>2, <2>1 DEF Apart
  <2>5. FoundSo'
    <3>1. \A q \in Request : session[q].at = "found" =>
            /\ session[q].row = 0 => \A j \in 1 .. Len(account') :
                 account'[j].key # KeyOf[q] /\ account'[j].address # AddressOf[q]
            /\ session[q].row # 0 =>
                 /\ account'[session[q].row].address =
                        IF session[q].writes THEN NoRow ELSE AddressOf[q]
                 /\ \A j \in 1 .. Len(account') :
                      j # session[q].row => account'[j].address # AddressOf[q]
      BY <1>1, <1>4, <2>1, <2>2, <2>4, WroteAlone
    <3> QED
      BY <1>2, <3>1 DEF FoundSo
  <2>6. LiftedSo' /\ Apart'
    BY <1>1, <1>2, <2>1 DEF LiftedSo, Apart
  <2>7. Kept'
    <3>1. ASSUME NEW q \in Request, session[q].at \in {"relay", "ok"}
          PROVE  \/ \E j \in 1 .. Len(account') : account'[j] = Tx(KeyOf[q], AddressOf[q])
                 \/ Wayward(KeyOf[q])
      <4>1. CASE lifted.row # 0 /\ KeyOf[q] = k /\ b # AddressOf[q]
        <5>1. client[b] = k /\ b \in Address /\ k # Nobody
          BY <1>4, <2>1, <4>1, Inputs
        <5>2. CASE <<k, b>> \in Direct
          BY <4>1, <5>1, <5>2 DEF Wayward, WentDirectly
        <5>3. ASSUME NEW p \in Request, Answered(p), Tx(k, b) = Tx(KeyOf[p], AddressOf[p])
              PROVE  Wayward(KeyOf[q])
          <6>1. KeyOf[p] = k /\ AddressOf[p] = b
            BY <5>3, TxRow
          <6>2. HasRow(k, b) \/ Wayward(k)
            BY <1>1, <5>3, <6>1 DEF Kept, Answered
          <6>3. HasRow(k, AddressOf[q]) \/ Wayward(k)
            BY <1>1, <3>1, <4>1 DEF Kept
          <6>4. ~(HasRow(k, b) /\ HasRow(k, AddressOf[q]))
            BY <1>1, <4>1, TxRow DEF HasRow, KeyOnce
          <6> QED
            BY <4>1, <6>2, <6>3, <6>4
        <5> QED
          BY <1>1, <5>1, <5>2, <5>3 DEF Provenance, Sent
      <4>2. CASE ~(lifted.row # 0 /\ KeyOf[q] = k /\ b # AddressOf[q])
        <5>1. HasRow(KeyOf[q], AddressOf[q]) =>
                \E j \in 1 .. Len(account') : account'[j] = Tx(KeyOf[q], AddressOf[q])
          BY <1>1, <1>4, <2>1, <4>2, ShownStays
        <5> QED
          BY <1>1, <3>1, <5>1 DEF Kept
      <4> QED
        BY <4>1, <4>2
    <3> QED
      BY <1>2, <3>1 DEF Kept, HasRow, Wayward, WentDirectly
  <2> QED
    BY <2>3, <2>5, <2>6, <2>7 DEF Alone
<1> QED
  BY <1>1, <1>3, <1>4, CommitPasses DEF Passes, Off

LEMMA ElsewhereAlone ==
  ASSUME CInv, Alone, NEW k \in Key, LiftElsewhere(k), ~overlapped'
  PROVE  Alone'
<1>1. /\ ClientsTypeOK /\ RowsFound /\ 0 \in 0 .. Len(account)
      /\ DOMAIN account = 1 .. Len(account)
      /\ KeyOnce /\ FoundSo /\ LiftedSo /\ Apart /\ Kept
  BY Lists DEF CInv, Alone
<1>2. /\ UNCHANGED <<client, pool, log, session, lifted>>
      /\ account' = Written(0, k, NoRow)
      /\ \A j \in 1 .. Len(account) : account[j].key # k
      /\ ~\E tx \in InHand : tx.key = k \/ (tx.address = NoRow /\ NoRow # NoRow)
  BY <1>1 DEF LiftElsewhere, Named
<1>3. PICK n \in 1 .. Len(account') : Wrote(0, n, k, NoRow)
  BY <1>1, <1>2, WrittenRow
<1>4. /\ \A q \in Request : session[q].at = "found" =>
           KeyOf[q] # k /\ AddressOf[q] # NoRow
      /\ lifted.at = "found" => Head(log).key # k
  BY <1>2, Untouched
<1>5. KeyOnce'
  BY <1>1, <1>2, <1>3, WroteAlone
<1>6. FoundSo'
  <2>1. \A q \in Request : session[q].at = "found" =>
          /\ session[q].row = 0 => \A j \in 1 .. Len(account') :
               account'[j].key # KeyOf[q] /\ account'[j].address # AddressOf[q]
          /\ session[q].row # 0 =>
               /\ account'[session[q].row].address =
                    IF session[q].writes THEN NoRow ELSE AddressOf[q]
               /\ \A j \in 1 .. Len(account') :
                    j # session[q].row => account'[j].address # AddressOf[q]
    BY <1>1, <1>2, <1>3, <1>4, WroteAlone
  <2> QED
    BY <1>2, <2>1 DEF FoundSo
<1>7. LiftedSo'
  <2>1. account'[n].key = k /\ \A j \in 1 .. Len(account') :
          j # n => j \in 1 .. Len(account) /\ account'[j] = account[j]
    BY <1>3, TxRow DEF Wrote
  <2> QED
    BY <1>1, <1>2, <1>4, <2>1 DEF LiftedSo
<1>8. Apart'
  BY <1>1, <1>2 DEF Apart
<1>9. Kept'
  <2>1. \A q \in Request : HasRow(KeyOf[q], AddressOf[q]) =>
          \E j \in 1 .. Len(account') : account'[j] = Tx(KeyOf[q], AddressOf[q])
    BY <1>1, <1>3, ShownStays
  <2> QED
    BY <1>1, <1>2, <2>1 DEF Kept, HasRow, Wayward, WentDirectly
<1> QED
  BY <1>5, <1>6, <1>7, <1>8, <1>9 DEF Alone

LEMMA AloneStep ==
  ASSUME CInv, AloneInv, [Next]_vars
  PROVE  AloneInv'
<1> SUFFICES ASSUME ~overlapped' PROVE Alone'
  BY DEF AloneInv, Alone
<1>1. ClientsTypeOK /\ RowsFound /\ LogOK
  BY DEF CInv
<1>2. overlapped \in BOOLEAN
  BY <1>1, TypeParts
<1>3. ~overlapped
  BY <1>2 DEF Next, Interpret, SelectClient, CommitClient, RelayClient, CrashRequest,
         SendDirectly, ExecuteClient, ExecuteOther, LiftAccount, CommitAccount,
         RestartInterpreter, CrashInterpreter, LiftElsewhere, Touch, vars, gateway
<1>4. Alone
  BY <1>3 DEF AloneInv, Alone
<1>5. ASSUME NEW r \in Request, SelectClient(r) PROVE Alone'
  BY <1>4, <1>5, SelectAlone
<1>6. ASSUME NEW r \in Request, CommitClient(r) PROVE Alone'
  BY <1>4, <1>6, CommitAlone
<1>7. ASSUME NEW r \in Request, RelayClient(r) \/ CrashRequest(r) PROVE Alone'
  <2>1. /\ UNCHANGED <<client, log, account, lifted>>
        /\ \E st \in {"ok", "idle"} :
             Sets(r, st, 0) /\ (st = "ok" => session[r].at = "relay")
    BY <1>7 DEF RelayClient, CrashRequest
  <2>2. PICK st \in {"ok", "idle"} :
             Sets(r, st, 0) /\ (st = "ok" => session[r].at = "relay")
    BY <2>1
  <2>3. session'[r].at = st /\ \A q \in Request : q # r => session'[q] = session[q]
    BY <1>1, <2>2, SetsSession
  <2> QED
    BY <1>4, <2>1, <2>2, <2>3, AsideAlone
<1>8. ASSUME NEW d \in Direct, SendDirectly(d[1], d[2]) PROVE Alone'
  BY <1>4, <1>8, AsideAlone DEF SendDirectly, gateway
<1>9. ASSUME NEW tx \in pool, ExecuteClient(tx) PROVE Alone'
  <2>1. UNCHANGED <<account, session, lifted>>
    BY <1>9 DEF ExecuteClient, gateway
  <2>2. tx \in Row /\ tx.address \in Address
    <3>1. tx \in [key : Key, address : Address]
      BY <1>1, TypeParts
    <3> QED
      BY <3>1 DEF Row
  <2>3. \A b \in Address : client[b] # Nobody => client'[b] = client[b]
    <3>1. client \in [Address -> Key \cup {Nobody}]
      BY <1>1, TypeParts
    <3> QED
      BY <1>9, <3>1 DEF ExecuteClient
  <2>4. log # <<>> => Head(log') = Head(log)
    <3>1. CASE log' = log
      BY <3>1
    <3>2. CASE log' = Append(log, tx)
      BY <1>1, <2>2, <3>2, AppendLogged DEF Logged
    <3> QED
      BY <1>9, <3>1, <3>2 DEF ExecuteClient
  <2>5. lifted.at = "found" => log # <<>>
    BY <1>1 DEF RowsFound
  <2> QED
    BY <1>4, <2>1, <2>3, <2>4, <2>5, AsideAlone
<1>10. ASSUME NEW k \in Depositor, ExecuteOther(k) PROVE Alone'
  <2>1. UNCHANGED <<client, account, session, lifted>>
    BY <1>10 DEF ExecuteOther, gateway
  <2>2. Tx(k, NoRow) \in Row
    BY TxRow, ClientsAssumption DEF ClientsAssumption
  <2>3. log # <<>> => Head(log') = Head(log)
    BY <1>1, <1>10, <2>2, AppendLogged DEF ExecuteOther, Logged
  <2>4. lifted.at = "found" => log # <<>>
    BY <1>1 DEF RowsFound
  <2> QED
    BY <1>4, <2>1, <2>3, <2>4, AsideAlone
<1>11. CASE LiftAccount
  BY <1>4, <1>11, LiftAlone
<1>12. CASE CommitAccount
  BY <1>4, <1>12, CommitAccountAlone
<1>13. CASE RestartInterpreter \/ CrashInterpreter
  <2>1. UNCHANGED <<client, log, account, session>> /\ lifted'.at # "found"
    BY <1>13 DEF RestartInterpreter, CrashInterpreter, gateway, Off
  <2> QED
    BY <1>4, <2>1, AsideAlone
<1>14. CASE UNCHANGED vars
  BY <1>4, <1>14, AsideAlone DEF vars
<1>15. ASSUME NEW k \in Lifter, LiftElsewhere(k) PROVE Alone'
  BY <1>4, <1>15, ElsewhereAlone, ClientsAssumption DEF ClientsAssumption
<1> QED
  BY <1>5, <1>6, <1>7, <1>8, <1>9, <1>10, <1>11, <1>12, <1>13, <1>14, <1>15
     DEF Next, Interpret

-----------------------------------------------------------------------------
(***************************************************************************)
(* The theorems.                                                           *)
(***************************************************************************)

\* The inductive invariant: what holds however sessions overlap, and what holds
\* as long as they do not (register_client of serve.py, lift_account of
\* interpret.py).
THEOREM ClientsSafe == Spec => [](CInv /\ AloneInv)
<1>1. Init => CInv /\ AloneInv
  BY CInvInit, AloneInit
<1>2. CInv /\ AloneInv /\ [Next]_vars => (CInv /\ AloneInv)'
  BY CInvStep, AloneStep
<1> QED
  BY <1>1, <1>2, PTL DEF Spec

\* As long as no two sessions are open for one key or one address, a key has one
\* row in the table account and an address one key.
THEOREM ClientsInvHolds == Spec => []ClientsInv
<1>1. ASSUME CInv, AloneInv PROVE ClientsInv
  <2>1. ClientsTypeOK /\ DOMAIN account = 1 .. Len(account)
    BY <1>1, Lists DEF CInv
  <2>2. OneRow
    BY <1>1, <2>1 DEF CInv, AddressOnce, AloneInv, KeyOnce, OneRow
  <2> QED
    BY <2>1, <2>2 DEF ClientsInv
<1> QED
  BY <1>1, ClientsSafe, PTL

\* Of requests that do not overlap, what the gateway answered 200 for is not
\* answered 200 for anybody else, except for users who registered elsewhere too.
THEOREM AnsweredOnceHolds == Spec => []AnsweredOnce
<1>1. ASSUME CInv, AloneInv PROVE AnsweredOnce
  <2> SUFFICES ASSUME ~overlapped, NEW r \in Request, NEW s \in Request,
                      session[r].at = "ok", session[s].at = "ok",
                      ~Wayward(KeyOf[r]), ~Wayward(KeyOf[s])
               PROVE  (KeyOf[r] = KeyOf[s]) = (AddressOf[r] = AddressOf[s])
    BY DEF AnsweredOnce
  <2>1. HasRow(KeyOf[r], AddressOf[r]) /\ HasRow(KeyOf[s], AddressOf[s])
    BY <1>1 DEF AloneInv, Kept
  <2>2. PICK i \in 1 .. Len(account) : account[i] = Tx(KeyOf[r], AddressOf[r])
    BY <2>1 DEF HasRow
  <2>3. PICK j \in 1 .. Len(account) : account[j] = Tx(KeyOf[s], AddressOf[s])
    BY <2>1 DEF HasRow
  <2>4. KeyOf[r] = KeyOf[s] => i = j
    BY <1>1, <2>2, <2>3, TxRow DEF AloneInv, KeyOnce
  <2>5. AddressOf[r] = AddressOf[s] => i = j
    BY <1>1, <2>2, <2>3, TxRow, Inputs DEF CInv, AddressOnce
  <2>6. i = j => KeyOf[r] = KeyOf[s] /\ AddressOf[r] = AddressOf[s]
    BY <2>2, <2>3, TxRow
  <2> QED
    BY <2>4, <2>5, <2>6
<1> QED
  BY <1>1, ClientsSafe, PTL

\* Whatever overlaps: once the interpreter has passed the registration of an
\* address, the gateway shows the key that L2 knows, and goes on to show it.
THEOREM WarmAgreesHolds == Spec => []WarmAgrees
<1>1. ASSUME CInv PROVE WarmAgrees
  <2> SUFFICES ASSUME NEW a \in Address, Settled(a), Tx(client[a], a) \notin Range(log)
               PROVE  {account[i].key : i \in {j \in DOMAIN account : account[j].address = a}}
                        = {client[a]}
    BY DEF WarmAgrees
  <2>1. PICK i \in 1 .. Len(account) : account[i] = Tx(client[a], a)
    BY <1>1 DEF CInv, Shown, HasRow
  <2>2. account[i].key = client[a] /\ account[i].address = a /\ a # NoRow
    BY <2>1, TxRow, Inputs
  <2>3. DOMAIN account = 1 .. Len(account)
    BY <1>1, Lists DEF CInv
  <2>4. \A j \in DOMAIN account : account[j].address = a => j = i
    BY <1>1, <2>2, <2>3 DEF CInv, AddressOnce
  <2> QED
    BY <2>2, <2>3, <2>4
<1> QED
  BY <1>1, ClientsSafe, PTL
==============================================================================
