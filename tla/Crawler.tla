------------------------------- MODULE Crawler -------------------------------
(***************************************************************************)
(* Three processes share the tables block and transaction: the crawler     *)
(* stores the blocks of L2, upwards from the head it meets and downwards   *)
(* to the first one; purge refreshes the blocks that are not final and     *)
(* drops the transactions of those that L2 has replaced; the interpreter   *)
(* passes over the stored blocks, one number after another.                *)
(***************************************************************************)
EXTENDS Integers, Sequences, FiniteSets

CONSTANTS
  MaxBlock,    \* bound: the number of the last block of L2
  Deploy,      \* the block that deploys the exchange
  Calls,       \* the blocks that call it
  Referring,   \* those of them whose call leaves a row that refers to it
  Replaceable, \* the blocks that L2 may abort or replace before they are final
  Bucket,      \* how many numbers the block cache reads at once (1000)
  Batch,       \* how many blocks purge takes at once (20)
  Thru,        \* the blocks that --thru may name; NoBlock: no option
  NoBlock,     \* no row, no document or no number
  MaxReplaced, \* bound: numbers whose first block L2 gives up
  MaxCrashes,  \* bound: crashes, of all three processes
  MaxPurges    \* bound: purges

Number == 0 .. MaxBlock

\* version 1 is the block that L2 shows first, 2 the one that replaces it.
Row == [version : {1, 2}, final : BOOLEAN]
Document == [n : Number, row : Row, aborted : BOOLEAN]

ASSUME CrawlerAssumption ==
  /\ MaxBlock \in Nat /\ Deploy \in Number
  /\ Calls \subseteq Deploy .. MaxBlock /\ Referring \subseteq Calls
  /\ Replaceable \subseteq Number
  /\ Bucket \in Nat \ {0} /\ Batch \in Nat \ {0}
  /\ NoBlock \notin Int \cup Row \cup Document
  /\ Thru \subseteq Number \cup {NoBlock} /\ Thru # {}
  /\ MaxReplaced \in Nat /\ MaxCrashes \in Nat /\ MaxPurges \in Nat

VARIABLES
  chain,      \* L2: a sequence of [version, final]; number n is chain[n + 1]
  aborted,    \* history: the numbers whose first block L2 has aborted
  block,      \* the table: [Number -> [version, final] or NoBlock]
  txs,        \* <<n, version>>: the transactions of that block are stored
  flows,      \* <<n, version>>: rows of the interpreter that refer to those
  executed,   \* history: <<n, version>>: the calls that it has executed
  crawl,      \* the crawler: its cursors, its cache and its document
  counter,    \* stark_contract.block_counter
  reading,    \* the interpreter's progress in the block at its counter
  purge,      \* the progress of purge
  crashes, purges

chainVars == <<chain, aborted>>
crawlVars == <<crawl>>
interpretVars == <<flows, executed, counter, reading>>
purgeVars == <<purge, purges>>
vars == <<chainVars, block, txs, interpretVars, crawlVars, purgeVars, crashes>>

\* mode: "up" while the cooldown is over, "failed" right after a BadRequest
Idle == [mode |-> "off", i |-> 0, j |-> 0, thru |-> NoBlock,
         lo |-> -1, seen |-> {}, doc |-> NoBlock]
Unread == [at |-> "idle", n |-> NoBlock, version |-> NoBlock]
NoPurge == [at |-> "off", dry |-> FALSE, number |-> 0, number0 |-> -1,
            error |-> -1, todo |-> {}, fresh |-> {}]

Init ==
  /\ chain = <<[version |-> 1, final |-> FALSE]>>
  /\ aborted = {}
  /\ block = [n \in Number |-> NoBlock]
  /\ txs = {}
  /\ flows = {}
  /\ executed = {}
  /\ crawl = Idle
  /\ counter = NoBlock
  /\ reading = Unread
  /\ purge = NoPurge
  /\ crashes = 0
  /\ purges = 0

Head0 == Len(chain) - 1
OnChain(n) == chain[n + 1]
Stored == {n \in Number : block[n] # NoBlock}

-----------------------------------------------------------------------------
(***************************************************************************)
(* L2: it grows, proves its blocks to L1 in order, and before that it may  *)
(* abort a block, which is shown with the status ABORTED from then on, or  *)
(* replace it by one with the same number and other transactions.          *)
(***************************************************************************)
Replaced == {n \in 0 .. Head0 : OnChain(n).version = 2}

\* The first block of n is not given up.
Standing(n) == OnChain(n).version = 1 /\ n \notin aborted

GivesUp(n) ==
  /\ n <= Head0 /\ ~OnChain(n).final /\ OnChain(n).version = 1
  /\ n \in aborted \/ Cardinality(Replaced \cup aborted) < MaxReplaced

Extend ==
  /\ Head0 < MaxBlock
  /\ chain' = Append(chain, [version |-> 1, final |-> FALSE])
  /\ UNCHANGED <<aborted, block, txs, interpretVars, crawlVars, purgeVars, crashes>>

Finalize ==
  /\ \E n \in 0 .. Head0 :
       /\ ~OnChain(n).final /\ (Standing(n) \/ n \in Replaced)
       /\ \A m \in 0 .. n - 1 : OnChain(m).final
       /\ chain' = [chain EXCEPT ![n + 1].final = TRUE]
  /\ UNCHANGED <<aborted, block, txs, interpretVars, crawlVars, purgeVars, crashes>>

Abort(n) ==
  /\ GivesUp(n) /\ n \notin aborted
  /\ aborted' = aborted \cup {n}
  /\ UNCHANGED <<chain, block, txs, interpretVars, crawlVars, purgeVars, crashes>>

Replace(n) ==
  /\ GivesUp(n)
  /\ chain' = [chain EXCEPT ![n + 1].version = 2]
  /\ UNCHANGED <<aborted, block, txs, interpretVars, crawlVars, purgeVars, crashes>>

\* The feeder's answer: the crawler stores an aborted block like any other.
Shown(n) ==
  [n |-> n, row |-> OnChain(n), aborted |-> n \notin Replaced /\ n \in aborted]

-----------------------------------------------------------------------------
(***************************************************************************)
(* The crawler.                                                            *)
(***************************************************************************)
StartCrawl(thru) ==
  LET first == IF thru = NoBlock THEN Head0 + 1 ELSE thru + 1 IN
  /\ crawl.mode = "off"
  /\ thru # NoBlock => thru <= Head0
  /\ crawl' = [Idle EXCEPT !.mode = IF thru = NoBlock THEN "up" ELSE "cooling",
                           !.i = first, !.j = first, !.thru = thru]
  /\ UNCHANGED <<chainVars, block, txs, interpretVars, purgeVars, crashes>>

\* The numbers of one bucket are read when the crawler enters it.
Hit_Slip(c, n) ==
  IF c.lo # -1 THEN c
  ELSE [c EXCEPT !.lo = n \div Bucket,
                 !.seen = {m \in Stored : m \div Bucket = n \div Bucket}]

Hit(c, n) ==
  LET lo == n \div Bucket IN
  IF c.lo = lo THEN c
  ELSE [c EXCEPT !.lo = lo, !.seen = {m \in Stored : m \div Bucket = lo}]

Ascended(c) == [c EXCEPT !.j = @ + 1]

Descended(c) == [c EXCEPT !.i = @ - 1, !.mode = "cooling"]

\* The crawler once the block that it has come to is stored.
Advanced(c) == IF c.mode = "up" THEN Ascended(c) ELSE Descended(c)

\* _crawl
Visit(n) ==
  LET c == Hit(crawl, n) IN
  IF n \in c.seen THEN crawl' = Advanced(c)
  ELSE IF n > Head0
  THEN crawl' = [c EXCEPT !.mode = "failed"]
  ELSE crawl' = [c EXCEPT !.doc = Shown(n)]

\* j may pass MaxBlock by one: then there is no such block.
Ascend ==
  /\ crawl.mode = "up" /\ crawl.doc = NoBlock
  /\ Visit(crawl.j)
  /\ UNCHANGED <<chainVars, block, txs, interpretVars, purgeVars, crashes>>

Descend ==
  /\ crawl.mode \in {"failed", "cooling"} /\ crawl.doc = NoBlock
  /\ crawl.i > 0
  /\ Visit(crawl.i - 1)
  /\ UNCHANGED <<chainVars, block, txs, interpretVars, purgeVars, crashes>>

Sleep ==
  /\ crawl.mode = "failed" /\ crawl.i = 0
  /\ crawl' = [crawl EXCEPT !.mode = "cooling"]
  /\ UNCHANGED <<chainVars, block, txs, interpretVars, purgeVars, crashes>>

\* The cooldown is over; with --thru the crawler never goes up.
CooledDown ==
  /\ crawl.mode = "cooling" /\ crawl.doc = NoBlock /\ crawl.thru = NoBlock
  /\ crawl' = [crawl EXCEPT !.mode = "up"]
  /\ UNCHANGED <<chainVars, block, txs, interpretVars, purgeVars, crashes>>

\* One transaction of the database for a block and its transactions.  A block
\* that is there already is a primary key twice, and the process dies of it.
Persist ==
  LET d == crawl.doc IN
  /\ d # NoBlock
  /\ \/ /\ block[d.n] = NoBlock
        /\ block' = [block EXCEPT ![d.n] = d.row]
        /\ txs' = txs \cup {<<d.n, d.row.version>>}
        /\ crawl' = [Advanced(crawl) EXCEPT !.doc = NoBlock]
     \/ /\ block[d.n] # NoBlock
        /\ crawl' = Idle
        /\ UNCHANGED <<block, txs>>
  /\ UNCHANGED <<chainVars, interpretVars, purgeVars, crashes>>

CrashCrawl ==
  /\ crawl.mode # "off" /\ crashes < MaxCrashes
  /\ crawl' = Idle
  /\ crashes' = crashes + 1
  /\ UNCHANGED <<chainVars, block, txs, interpretVars, purgeVars>>

-----------------------------------------------------------------------------
(***************************************************************************)
(* The interpreter's loop.  Its session sees the tables as they are at     *)
(* each of its selects, and commits at the end of the block.               *)
(***************************************************************************)
Locate_Slip(n) == n \in Calls /\ \E v \in {1, 2} : <<n, v>> \in txs

\* The DEPLOY transaction of the exchange is stored, in block n.
Locate(n) == n = Deploy /\ \E v \in {1, 2} : <<n, v>> \in txs

\* The number that comes next is the one after the last committed one.
SelectBlock ==
  /\ reading.at = "idle"
  /\ \E n \in Stored :
       /\ IF counter = NoBlock THEN Locate(n) ELSE n = counter
       /\ reading' = [Unread EXCEPT !.at = "block", !.n = n]
  /\ UNCHANGED <<chainVars, block, txs, flows, executed, counter, crawlVars, purgeVars, crashes>>

SelectTransactions ==
  LET found == {v \in {1, 2} : reading.n \in Calls /\ <<reading.n, v>> \in txs} IN
  /\ reading.at = "block"
  /\ reading' = [reading EXCEPT !.at = "calls",
       !.version = IF found = {} THEN NoBlock ELSE CHOOSE v \in found : TRUE]
  /\ UNCHANGED <<chainVars, block, txs, flows, executed, counter, crawlVars, purgeVars, crashes>>

Executed ==
  IF reading.version = NoBlock THEN {} ELSE {<<reading.n, reading.version>>}

\* Deposits, withdrawals, orders and transfers of tokens leave a row with the
\* transaction's key; registrations and transfers of amounts do not.
Referred == {t \in Executed : t[1] \in Referring}

\* A row that refers to a transaction that purge has deleted is refused, and
\* the interpreter is started again.
CommitBlock ==
  /\ reading.at = "calls"
  /\ \/ /\ Referred \subseteq txs
        /\ flows' = flows \cup Referred
        /\ executed' = executed \cup Executed
        /\ counter' = reading.n + 1
     \/ /\ ~(Referred \subseteq txs)
        /\ UNCHANGED <<flows, executed, counter>>
  /\ reading' = Unread
  /\ UNCHANGED <<chainVars, block, txs, crawlVars, purgeVars, crashes>>

CrashInterpret ==
  /\ reading.at # "idle" /\ crashes < MaxCrashes
  /\ reading' = Unread
  /\ crashes' = crashes + 1
  /\ UNCHANGED <<chainVars, block, txs, flows, executed, counter, crawlVars, purgeVars>>

Interpret == SelectBlock \/ SelectTransactions \/ CommitBlock

-----------------------------------------------------------------------------
(***************************************************************************)
(* Purge: a command that somebody runs from time to time.                  *)
(***************************************************************************)
StartPurge(dry) ==
  /\ purge.at = "off" /\ purges < MaxPurges
  /\ purge' = [NoPurge EXCEPT !.at = "loop", !.dry = dry]
  /\ purges' = purges + 1
  /\ UNCHANGED <<chainVars, block, txs, interpretVars, crawlVars, crashes>>

Resume_Slip(p) == IF p.error = NoBlock THEN p.number ELSE p.error - 1

\* The next batch begins after the first block of this one that failed.
Resume(p) == IF p.error = NoBlock THEN p.number ELSE p.error

PurgeBatch ==
  LET from == Resume(purge)
      open == {n \in Stored : n > from /\ ~block[n].final}
  IN
  /\ purge.at = "loop"
  /\ purge' = IF purge.number0 < purge.number
              THEN [purge EXCEPT !.at = "batch", !.number = from, !.number0 = from,
                      !.error = NoBlock, !.fresh = {},
                      !.todo = {n \in open : Cardinality({m \in open : m < n}) < Batch}]
              ELSE NoPurge
  /\ UNCHANGED <<chainVars, block, txs, interpretVars, crawlVars, purges, crashes>>

\* Block by block, upwards: the feeder answers with the block, or with an error.
PurgeBlock ==
  /\ purge.at = "batch"
  /\ \E n \in purge.todo :
       LET after == [purge EXCEPT !.number = n, !.todo = @ \ {n}] IN
       /\ \A m \in purge.todo : n <= m
       /\ \/ purge' = [after EXCEPT !.error = IF @ = NoBlock THEN n ELSE @]
          \/ /\ ~purge.dry
             /\ purge' = [after EXCEPT !.fresh = @ \cup {Shown(n)}]
          \/ /\ purge.dry
             /\ purge' = after
  /\ UNCHANGED <<chainVars, block, txs, interpretVars, crawlVars, purges, crashes>>

Dropped_Slip(fresh) == {}

\* The transactions that go: those of blocks that L2 has replaced or aborted.
Gone(d) == d.row.version # block[d.n].version \/ d.aborted

Dropped(fresh) == {<<d.n, block[d.n].version>> : d \in {e \in fresh : Gone(e)}}

\* The new document brings the status; the row and its hash stay.
Refreshed(fresh) ==
  [n \in Number |->
     IF \E d \in fresh : d.n = n
     THEN [block[n] EXCEPT !.final = (CHOOSE d \in fresh : d.n = n).row.final]
     ELSE block[n]]

\* All of the batch or, when a transaction to go is referred to, nothing of it.
PurgeCommit ==
  LET gone == Dropped(purge.fresh) IN
  /\ purge.at = "batch" /\ purge.todo = {}
  /\ \/ /\ gone \cap flows = {}
        /\ block' = Refreshed(purge.fresh)
        /\ txs' = txs \ gone
        /\ purge' = [purge EXCEPT !.at = "loop", !.fresh = {}]
     \/ /\ gone \cap flows # {}
        /\ purge' = NoPurge
        /\ UNCHANGED <<block, txs>>
  /\ UNCHANGED <<chainVars, interpretVars, crawlVars, purges, crashes>>

CrashPurge ==
  /\ purge.at # "off" /\ crashes < MaxCrashes
  /\ purge' = NoPurge
  /\ crashes' = crashes + 1
  /\ UNCHANGED <<chainVars, block, txs, interpretVars, crawlVars, purges>>

Purge == PurgeBatch \/ PurgeBlock \/ PurgeCommit

-----------------------------------------------------------------------------
Next ==
  \/ Extend \/ Finalize \/ \E n \in Replaceable : Abort(n) \/ Replace(n)
  \/ \E thru \in Thru : StartCrawl(thru)
  \/ Ascend \/ Descend \/ Sleep \/ CooledDown \/ Persist \/ CrashCrawl
  \/ Interpret \/ CrashInterpret
  \/ \E dry \in BOOLEAN : StartPurge(dry)
  \/ Purge \/ CrashPurge

Spec == Init /\ [][Next]_vars

-----------------------------------------------------------------------------
CrawlerTypeOK ==
  /\ chain \in Seq(Row) /\ Len(chain) \in 1 .. MaxBlock + 1
  /\ aborted \subseteq Number
  /\ block \in [Number -> Row \cup {NoBlock}]
  /\ txs \subseteq Number \X {1, 2}
  /\ flows \subseteq executed /\ executed \subseteq Calls \X {1, 2}
  /\ crawl.mode \in {"off", "up", "failed", "cooling"}
  /\ crawl.i \in 0 .. MaxBlock + 1 /\ crawl.j \in 0 .. MaxBlock + 1
  /\ crawl.doc \in Document \cup {NoBlock}
  /\ counter \in Deploy .. MaxBlock + 1 \cup {NoBlock}
  /\ reading.at \in {"idle", "block", "calls"}
  /\ purge.at \in {"off", "loop", "batch"} /\ purge.dry \in BOOLEAN
  /\ purge.fresh \subseteq Document
  /\ crashes \in 0 .. MaxCrashes /\ purges \in 0 .. MaxPurges

\* The crawler never inserts a number that is stored, however old its cache is,
\* whatever it was restarted from and whatever purge does: the primary key
\* would stop it.
NeverStoredTwice == crawl.doc # NoBlock => block[crawl.doc.n] = NoBlock

\* The cursors stay among the blocks, and the crawler never runs into a block
\* that is there.
CrawlerInv == CrawlerTypeOK /\ NeverStoredTwice

\* Once purge, or the crawler, has marked a block as final, the transactions
\* stored for it are the ones L2 proved: what a replaced block had is gone.
FinalTransactions ==
  \A t \in txs :
    /\ block[t[1]] # NoBlock
    /\ block[t[1]].final => OnChain(t[1]) = [version |-> t[2], final |-> TRUE]

\* What the interpreter has passed it has executed once: a call before its
\* counter is missing only if L2 aborted or replaced its block.  Holes that a
\* crash of the crawler leaves make it wait.
NothingSkipped ==
  \A n \in Calls :
    /\ counter # NoBlock /\ n < counter /\ Standing(n) => <<n, 1>> \in executed
    /\ Cardinality({v \in {1, 2} : <<n, v>> \in executed}) <= 1

\* Purge ends, whichever answers of the feeder fail: a batch begins after the
\* block where the last one began (error is -1 before the first batch only), so
\* none is taken again without progress.
PurgeAdvances ==
  [][purge.at = "loop" /\ purge'.at = "batch" =>
       purge.error = -1 \/ purge'.number0 > purge.number0]_vars
=============================================================================
