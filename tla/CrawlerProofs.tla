---------------------------- MODULE CrawlerProofs ----------------------------
(***************************************************************************)
(* What crawler, purge and interpreter may rely on in the tables that they *)
(* share: for any number of blocks, sizes of the cache and of the batches, *)
(* replaced blocks, crashes and purges.                                    *)
(***************************************************************************)
EXTENDS Crawler, FiniteSetTheorems, SequenceTheorems, TLAPS

-----------------------------------------------------------------------------
(***************************************************************************)
(* The inductive invariant.                                                *)
(***************************************************************************)
CrawlState ==
  [mode : {"off", "up", "failed", "cooling"},
   i : 0 .. MaxBlock + 1, j : 0 .. MaxBlock + 1, thru : Number \cup {NoBlock},
   lo : Int, seen : SUBSET Number, doc : Document \cup {NoBlock}]

ReadState ==
  [at : {"idle", "block", "calls"}, n : Number \cup {NoBlock},
   version : {1, 2, NoBlock}]

PurgeState ==
  [at : {"off", "loop", "batch"}, dry : BOOLEAN, number : Int, number0 : Int,
   error : Int \cup {NoBlock}, todo : SUBSET Number, fresh : SUBSET Document]

StatesOK ==
  crawl \in CrawlState /\ reading \in ReadState /\ purge \in PurgeState

\* What a document says may be old, but not of a final block.
AsL2(d) ==
  /\ d.n <= Head0
  /\ d.row.version <= OnChain(d.n).version
  /\ d.row.final => OnChain(d.n) = d.row
  /\ d.aborted => d.n \in aborted

\* A stored block is the one on L2, or one that was replaced.
BlocksOK ==
  \A n \in Stored : n <= Head0 /\ block[n].version <= OnChain(n).version

\* The crawler has walked from i up to j.  Of the bucket in its cache, it has
\* stored itself what the cache does not show.
Cached(c) ==
  c.mode # "off" =>
    /\ c.i <= c.j /\ c.j <= Head0 + 1
    /\ c.seen \subseteq Stored
    /\ \A m \in Stored : m \div Bucket = c.lo => m \in c.seen \/ m \in c.i .. c.j - 1

\* It has fetched the block that it will go on with.
Fetched(c) ==
  c.doc # NoBlock =>
    /\ c.mode # "off"
    /\ c.doc.n = IF c.mode = "up" THEN c.j ELSE c.i - 1
    /\ block[c.doc.n] = NoBlock
    /\ AsL2(c.doc)

CrawlOK == Cached(crawl) /\ Fetched(crawl)

\* The transactions are those of stored blocks, and purge drops none of a block
\* that L2 has never given up.
TxsOK ==
  /\ \A t \in txs : t[1] \in Stored /\ t[2] = block[t[1]].version
  /\ \A n \in Stored : Standing(n) => <<n, 1>> \in txs

\* A batch goes over stored blocks after number0, each asked for once.
PurgeGood(p) ==
  /\ p.todo \subseteq Stored
  /\ \A n \in p.todo : n > p.number0
  /\ p.error \notin {NoBlock, -1} => p.error > p.number0
  /\ \A d \in p.fresh : d.n \in Stored /\ d.n \notin p.todo /\ AsL2(d)
  /\ \A d, e \in p.fresh : d.n = e.n => d = e

PurgeOK == PurgeGood(purge)

\* The interpreter reads the block at its counter, and the first version of it
\* unless L2 has given it up.
ReadOK ==
  reading.at # "idle" =>
    /\ reading.n \in Stored
    /\ reading.n = IF counter = NoBlock THEN Deploy ELSE counter
    /\ reading.version # NoBlock => reading.n \in Calls
    /\ reading.at = "calls" /\ reading.n \in Calls /\ Standing(reading.n)
         => reading.version = 1

\* It has passed what is before its counter, once.
FlowsOK ==
  /\ \A f \in executed : counter # NoBlock /\ f[1] < counter
  /\ \A f, g \in executed : f[1] = g[1] => f = g
  /\ counter # NoBlock => counter <= Head0 + 1
  /\ \A n \in Calls : counter # NoBlock /\ n < counter /\ Standing(n)
       => <<n, 1>> \in executed

CrawlInv ==
  /\ CrawlerTypeOK /\ StatesOK /\ BlocksOK /\ CrawlOK
  /\ TxsOK /\ FinalTransactions /\ PurgeOK /\ ReadOK /\ FlowsOK

\* What a step may do to the chain and the table of blocks: L2 goes on and keeps
\* its final blocks, and no row of a block is removed.
Onwards ==
  /\ Head0' >= Head0
  /\ \A n \in 0 .. Head0 :
       /\ OnChain(n).version <= OnChain(n)'.version
       /\ OnChain(n).final => OnChain(n)' = OnChain(n)
  /\ Stored \subseteq Stored' /\ aborted \subseteq aborted'

-----------------------------------------------------------------------------
(***************************************************************************)
(* Lemmas about the chain and the tables.                                  *)
(***************************************************************************)

\* What the constants are.
LEMMA Values ==
  /\ MaxBlock \in Nat /\ Deploy \in Number /\ Calls \subseteq Number
  /\ \A n \in Calls : n >= Deploy
  /\ NoBlock \notin Int /\ NoBlock \notin Row /\ NoBlock \notin Document
  /\ Thru \subseteq Number \cup {NoBlock}
  /\ Bucket \in Nat \ {0} /\ MaxCrashes \in Nat /\ MaxPurges \in Nat
BY CrawlerAssumption DEF Number

\* A bucket has a natural number.
LEMMA BucketNat == \A n \in Nat : n \div Bucket \in Nat
BY Values

RowsOK ==
  /\ Head0 \in Number
  /\ \A n \in 0 .. Head0 : n \in Number /\ OnChain(n) \in Row
  /\ Stored \subseteq Number
  /\ \A n \in Stored : block[n] \in Row

\* Blocks of L2 and of the table have their types, before a step and after it.
LEMMA Rows == CrawlerTypeOK => RowsOK
<1> SUFFICES ASSUME CrawlerTypeOK PROVE RowsOK
  OBVIOUS
<1>1. /\ chain \in Seq(Row) /\ Len(chain) \in 1 .. MaxBlock + 1
      /\ block \in [Number -> Row \cup {NoBlock}]
  BY DEF CrawlerTypeOK
<1>2. \A k \in 1 .. Len(chain) : chain[k] \in Row
  BY <1>1, ElementOfSeq
<1>3. Head0 \in Number
  BY <1>1, Values DEF Head0, Number
<1>4. \A n \in 0 .. Head0 : n \in Number /\ n + 1 \in 1 .. Len(chain)
  BY <1>1, Values DEF Head0, Number
<1>5. Stored \subseteq Number /\ \A n \in Stored : block[n] \in Row
  BY <1>1 DEF Stored
<1> QED
  BY <1>2, <1>3, <1>4, <1>5 DEF OnChain, RowsOK

\* The same for the state that a step leads to.
LEMMA RowsNext == CrawlerTypeOK' => RowsOK'
BY Rows, PTL

\* The chain and the table of blocks are left alone.
LEMMA SameBlocks ==
  ASSUME CrawlerTypeOK, UNCHANGED <<chain, aborted, block>>
  PROVE  Onwards /\ Stored' = Stored
<1>1. Head0' = Head0 /\ Stored' = Stored /\ \A n : OnChain(n)' = OnChain(n)
  BY DEF Head0, Stored, OnChain
<1>2. Head0 \in Number /\ \A n \in 0 .. Head0 : OnChain(n).version \in {1, 2}
  BY Rows, RowsNext DEF RowsOK, Row
<1> QED
  BY <1>1, <1>2, Values DEF Onwards, Number

\* A document does not get worse as L2 goes on.
LEMMA DocumentKept ==
  ASSUME CrawlerTypeOK, CrawlerTypeOK', Onwards, NEW d \in Document, AsL2(d)
  PROVE  AsL2(d)'
<1>1. d.n \in Number /\ d.row.version \in {1, 2}
  BY DEF Document, Row
<1>2. /\ Head0 \in Number /\ Head0' \in Number /\ Head0' >= Head0
      /\ d.n \in 0 .. Head0 /\ d.n \in 0 .. Head0'
  BY <1>1, Rows, RowsNext, Values DEF RowsOK, AsL2, Onwards, Number
<1>3. /\ OnChain(d.n) \in Row /\ OnChain(d.n)' \in Row
  BY <1>2, Rows, RowsNext DEF RowsOK
<1>4. /\ OnChain(d.n).version \in {1, 2} /\ OnChain(d.n)'.version \in {1, 2}
      /\ OnChain(d.n).version <= OnChain(d.n)'.version
      /\ OnChain(d.n).final => OnChain(d.n)' = OnChain(d.n)
  BY <1>2, <1>3 DEF Row, Onwards
<1>5. d.row.final => OnChain(d.n) = d.row /\ OnChain(d.n)' = d.row
  BY <1>4 DEF AsL2
<1>6. d.aborted => d.n \in aborted'
  BY DEF AsL2, Onwards
<1> QED
  BY <1>1, <1>2, <1>4, <1>5, <1>6 DEF AsL2, Number

\* A block that is not given up was not before.
LEMMA NeverReplaced ==
  ASSUME CrawlerTypeOK, CrawlerTypeOK', Onwards, NEW n \in 0 .. Head0, Standing(n)'
  PROVE  Standing(n)
<1>1. OnChain(n).version \in {1, 2} /\ OnChain(n).version <= OnChain(n)'.version
  BY Rows, RowsNext DEF RowsOK, Row, Onwards
<1>2. OnChain(n)'.version = 1 /\ n \notin aborted' /\ aborted \subseteq aborted'
  BY DEF Standing, Onwards
<1> QED
  BY <1>1, <1>2 DEF Standing

\* What others rely on stays as L2 goes on and rows are added.
LEMMA Frame ==
  ASSUME CrawlInv, CrawlerTypeOK', Onwards
  PROVE  /\ \A p \in PurgeState : PurgeGood(p) => PurgeGood(p)'
         /\ UNCHANGED purge => PurgeOK'
         /\ UNCHANGED <<reading, counter>> => ReadOK'
         /\ UNCHANGED <<executed, counter>> => FlowsOK'
         /\ \A c \in CrawlState : Stored' = Stored /\ Cached(c) /\ Fetched(c)
              => Cached(c)' /\ Fetched(c)'
         /\ UNCHANGED <<block, txs>> => BlocksOK' /\ TxsOK' /\ FinalTransactions'
<1>1. /\ CrawlerTypeOK /\ StatesOK /\ BlocksOK /\ CrawlOK
      /\ TxsOK /\ FinalTransactions /\ PurgeOK /\ ReadOK /\ FlowsOK
  BY DEF CrawlInv
<1>2. /\ Stored \subseteq Stored' /\ Stored \subseteq Number
      /\ Head0 \in Nat /\ Head0' \in Nat /\ Head0' >= Head0
  BY <1>1, Rows, RowsNext, Values DEF RowsOK, Onwards, Number
<1>3. \A n \in Stored : n \in 0 .. Head0
  BY <1>1, <1>2, Values DEF BlocksOK, Number
<1>4. ASSUME NEW p \in PurgeState, PurgeGood(p) PROVE PurgeGood(p)'
  <2>1. \A d \in p.fresh : d \in Document
    BY DEF PurgeState
  <2>2. \A d \in p.fresh : AsL2(d)'
    BY <1>1, <1>4, <2>1, DocumentKept DEF PurgeGood
  <2> QED
    BY <1>2, <1>4, <2>2 DEF PurgeGood
<1>5. ASSUME UNCHANGED purge PROVE PurgeOK'
  <2>1. PICK p \in PurgeState : p = purge
    BY <1>1 DEF StatesOK
  <2>2. PurgeGood(p)'
    BY <1>1, <1>4, <2>1 DEF PurgeOK, PurgeGood
  <2> QED
    BY <1>5, <2>1, <2>2 DEF PurgeOK, PurgeGood
<1>6. ASSUME UNCHANGED <<reading, counter>> PROVE ReadOK'
  <2>1. PICK n : n = reading.n
    OBVIOUS
  <2>2. ASSUME reading.at # "idle"
        PROVE  /\ n \in Stored'
               /\ n = IF counter = NoBlock THEN Deploy ELSE counter
               /\ reading.version # NoBlock => n \in Calls
    BY <1>1, <1>2, <2>1, <2>2 DEF ReadOK
  <2>3. ASSUME reading.at = "calls", n \in Calls, Standing(n)'
        PROVE  reading.version = 1
    <3>1. n \in 0 .. Head0
      BY <1>1, <1>3, <2>1, <2>3 DEF ReadOK
    <3>2. Standing(n)
      BY <1>1, <2>3, <3>1, NeverReplaced
    <3> QED
      BY <1>1, <2>1, <2>3, <3>2 DEF ReadOK
  <2>4. reading' = reading /\ counter' = counter
    BY <1>6
  <2> QED
    BY <2>1, <2>2, <2>3, <2>4 DEF ReadOK, Standing, OnChain
<1>7. ASSUME UNCHANGED <<executed, counter>> PROVE FlowsOK'
  <2>1. counter # NoBlock => counter \in Nat
    BY <1>1, Values DEF CrawlerTypeOK, Number
  <2>2. counter # NoBlock => counter <= Head0 + 1
    BY <1>1 DEF FlowsOK
  <2>3. ASSUME NEW n \in Calls, counter # NoBlock, n < counter, Standing(n)'
        PROVE  <<n, 1>> \in executed
    <3>1. n \in 0 .. Head0
      BY <1>2, <2>1, <2>2, <2>3, Values DEF Number
    <3>2. Standing(n)
      BY <1>1, <2>3, <3>1, NeverReplaced
    <3> QED
      BY <1>1, <2>3, <3>2 DEF FlowsOK
  <2> QED
    BY <1>1, <1>2, <1>7, <2>1, <2>2, <2>3 DEF FlowsOK
<1>8. ASSUME NEW c \in CrawlState, Stored' = Stored, Cached(c), Fetched(c)
      PROVE  Cached(c)' /\ Fetched(c)'
  <2>1. c.j \in Nat /\ (c.doc # NoBlock => c.doc \in Document)
    BY Values DEF CrawlState
  <2>2. Cached(c)'
    BY <1>2, <1>8, <2>1 DEF Cached
  <2>3. c.doc # NoBlock => AsL2(c.doc)'
    BY <1>1, <1>8, <2>1, DocumentKept DEF Fetched
  <2>4. c.doc # NoBlock => block[c.doc.n] = NoBlock /\ c.doc.n \in Number
    BY <1>8, <2>1 DEF Fetched, Document
  <2>5. c.doc # NoBlock => block'[c.doc.n] = NoBlock
    BY <1>8, <2>4 DEF Stored
  <2> QED
    BY <1>8, <2>2, <2>3, <2>5 DEF Fetched
<1>9. ASSUME UNCHANGED <<block, txs>> PROVE BlocksOK' /\ TxsOK' /\ FinalTransactions'
  <2>1. Stored' = Stored
    BY <1>9 DEF Stored
  <2>2. ASSUME NEW n \in Stored
        PROVE  /\ n <= Head0' /\ block[n].version <= OnChain(n)'.version
               /\ Standing(n)' => <<n, 1>> \in txs
    <3>1. /\ n \in 0 .. Head0 /\ n \in 0 .. Head0'
      BY <1>2, <1>3
    <3>2. /\ block[n].version \in {1, 2} /\ OnChain(n).version \in {1, 2}
          /\ OnChain(n)'.version \in {1, 2}
      BY <1>1, <3>1, Rows, RowsNext DEF RowsOK, Row
    <3>3. block[n].version <= OnChain(n).version
          /\ OnChain(n).version <= OnChain(n)'.version
      BY <1>1, <3>1 DEF BlocksOK, Onwards
    <3>4. Standing(n)' => <<n, 1>> \in txs
      BY <1>1, <3>1, NeverReplaced DEF TxsOK
    <3> QED
      BY <3>1, <3>2, <3>3, <3>4
  <2>3. BlocksOK'
    BY <1>9, <2>1, <2>2 DEF BlocksOK
  <2>4. TxsOK'
    BY <1>1, <1>9, <2>1, <2>2 DEF TxsOK
  <2>5. ASSUME NEW t \in txs
        PROVE  /\ block[t[1]] # NoBlock
               /\ block[t[1]].final => OnChain(t[1])' = [version |-> t[2], final |-> TRUE]
    <3>1. t[1] \in Stored
      BY <1>1 DEF TxsOK
    <3>2. t[1] \in 0 .. Head0
      BY <1>3, <3>1
    <3>3. /\ block[t[1]] # NoBlock
          /\ block[t[1]].final => OnChain(t[1]) = [version |-> t[2], final |-> TRUE]
      BY <1>1 DEF FinalTransactions
    <3> QED
      BY <3>2, <3>3 DEF Onwards
  <2>6. FinalTransactions'
    BY <1>9, <2>5 DEF FinalTransactions
  <2> QED
    BY <2>3, <2>4, <2>6
<1> QED
  BY <1>4, <1>6, <1>7, <1>8, <1>9, <1>5

-----------------------------------------------------------------------------
(***************************************************************************)
(* L2 goes on.                                                             *)
(***************************************************************************)

\* The invariant holds at the start.
LEMMA CrawlStart == Init => CrawlInv
<1> SUFFICES ASSUME Init PROVE CrawlInv
  OBVIOUS
<1>1. /\ chain \in Seq(Row) /\ Len(chain) = 1
  BY DEF Init, Row
<1>2. Stored = {} /\ block \in [Number -> Row \cup {NoBlock}]
  BY DEF Init, Stored
<1>3. StatesOK
  BY Values DEF Init, StatesOK, CrawlState, ReadState, PurgeState, Idle, Unread, NoPurge, Number
<1>4. CrawlerTypeOK
  <2>1. Len(chain) \in 1 .. MaxBlock + 1
    BY <1>1, Values
  <2>2. /\ txs \subseteq Number \X {1, 2} /\ flows \subseteq executed
        /\ executed \subseteq Calls \X {1, 2} /\ aborted \subseteq Number
        /\ counter \in Deploy .. MaxBlock + 1 \cup {NoBlock}
        /\ crashes \in 0 .. MaxCrashes /\ purges \in 0 .. MaxPurges
    BY Values DEF Init
  <2> QED
    BY <1>1, <1>2, <1>3, <2>1, <2>2
       DEF CrawlerTypeOK, StatesOK, CrawlState, ReadState, PurgeState
<1>5. BlocksOK /\ TxsOK /\ FinalTransactions
  BY <1>2 DEF Init, BlocksOK, TxsOK, FinalTransactions
<1>6. CrawlOK
  BY DEF Init, Idle, CrawlOK, Cached, Fetched
<1>7. PurgeOK /\ ReadOK /\ FlowsOK
  BY DEF Init, NoPurge, Unread, PurgeOK, PurgeGood, ReadOK, FlowsOK
<1> QED
  BY <1>3, <1>4, <1>5, <1>6, <1>7 DEF CrawlInv

\* A step of L2 that keeps its final blocks disturbs nobody.
LEMMA ChainStep ==
  ASSUME CrawlInv, chain' \in Seq(Row), Len(chain') \in 1 .. MaxBlock + 1,
         Onwards, aborted' \subseteq Number,
         UNCHANGED <<block, txs, interpretVars, crawlVars, purgeVars, crashes>>
  PROVE  CrawlInv'
<1>1. UNCHANGED <<block, txs, flows, executed, counter, reading, crawl, purge, purges, crashes>>
  BY DEF interpretVars, crawlVars, purgeVars
<1>2. CrawlerTypeOK' /\ StatesOK' /\ Stored' = Stored
  BY <1>1 DEF CrawlInv, CrawlerTypeOK, StatesOK, Stored
<1>3. CrawlOK'
  <2>1. crawl \in CrawlState /\ Cached(crawl) /\ Fetched(crawl)
    BY DEF CrawlInv, StatesOK, CrawlOK
  <2>2. PICK c \in CrawlState : c = crawl
    BY <2>1
  <2>3. Cached(c)' /\ Fetched(c)'
    BY <1>2, <2>1, <2>2, Frame
  <2>4. crawl' = c
    BY <1>1, <2>2
  <2> QED
    BY <2>3, <2>4 DEF CrawlOK, Cached, Fetched, AsL2, OnChain
<1> QED
  BY <1>1, <1>2, <1>3, Frame DEF CrawlInv

\* A new block.
LEMMA ExtendStep == ASSUME CrawlInv, Extend PROVE CrawlInv'
<1> DEFINE row == [version |-> 1, final |-> FALSE]
<1>1. /\ CrawlerTypeOK /\ chain \in Seq(Row) /\ Len(chain) \in 1 .. MaxBlock + 1
      /\ row \in Row
  BY DEF CrawlInv, CrawlerTypeOK, Row
<1>2. /\ chain' = Append(chain, row) /\ Len(chain) < MaxBlock + 1
      /\ UNCHANGED <<aborted, block, txs, interpretVars, crawlVars, purgeVars, crashes>>
  BY <1>1, Values DEF Extend, Head0
<1> HIDE DEF row
<1>3. /\ chain' \in Seq(Row) /\ Len(chain') = Len(chain) + 1
      /\ \A k \in 1 .. Len(chain) : chain'[k] = chain[k]
  BY <1>1, <1>2, AppendProperties
<1>4. \A n \in 0 .. Head0 : OnChain(n)' = OnChain(n)
  BY <1>1, <1>3 DEF OnChain, Head0
<1>5. Onwards
  <2>1. \A n \in 0 .. Head0 : OnChain(n).version \in {1, 2}
    BY <1>1, Rows DEF RowsOK, Row
  <2>2. Stored' = Stored
    BY <1>2 DEF Stored
  <2>3. Head0' >= Head0
    BY <1>1, <1>3 DEF Head0
  <2> QED
    BY <1>2, <1>4, <2>1, <2>2, <2>3 DEF Onwards
<1>6. Len(chain') \in 1 .. MaxBlock + 1
  BY <1>1, <1>2, <1>3, Values
<1>7. aborted' \subseteq Number
  BY <1>1, <1>2 DEF CrawlerTypeOK
<1> QED
  BY <1>2, <1>3, <1>5, <1>6, <1>7, ChainStep

\* One block that is not final gets another row, with a version that is not less.
LEMMA RowStep ==
  ASSUME CrawlInv, NEW n \in 0 .. Head0, NEW row \in Row, ~OnChain(n).final,
         OnChain(n).version <= row.version, chain' = [chain EXCEPT ![n + 1] = row],
         UNCHANGED <<aborted, block, txs, interpretVars, crawlVars, purgeVars, crashes>>
  PROVE  CrawlInv'
<1>1. /\ CrawlerTypeOK /\ chain \in Seq(Row) /\ Len(chain) \in 1 .. MaxBlock + 1
      /\ n + 1 \in 1 .. Len(chain)
  BY Values DEF CrawlInv, CrawlerTypeOK, Head0
<1>2. /\ chain' \in Seq(Row) /\ Len(chain') = Len(chain)
      /\ chain'[n + 1] = row
      /\ \A k \in 1 .. Len(chain) : k # n + 1 => chain'[k] = chain[k]
  BY <1>1, ExceptSeq
<1>3. /\ Head0' = Head0 /\ OnChain(n)' = row
      /\ \A m \in 0 .. Head0 : m # n => OnChain(m)' = OnChain(m)
  BY <1>1, <1>2 DEF OnChain, Head0
<1>4. Onwards
  <2>1. \A m \in 0 .. Head0 : OnChain(m).version \in {1, 2}
    BY <1>1, Rows DEF RowsOK, Row
  <2>2. Stored' = Stored
    BY DEF Stored
  <2>3. Head0 \in Nat
    BY <1>1 DEF Head0
  <2> QED
    BY <1>3, <2>1, <2>2, <2>3 DEF Onwards
<1>5. aborted' \subseteq Number
  BY <1>1 DEF CrawlerTypeOK
<1> QED
  BY <1>1, <1>2, <1>4, <1>5, ChainStep

\* A block is proved to L1.
LEMMA FinalizeStep == ASSUME CrawlInv, Finalize PROVE CrawlInv'
<1>1. PICK n \in 0 .. Head0 :
        ~OnChain(n).final /\ chain' = [chain EXCEPT ![n + 1].final = TRUE]
  BY DEF Finalize
<1> DEFINE row == [OnChain(n) EXCEPT !.final = TRUE]
<1>2. OnChain(n) \in Row
  BY <1>1, Rows DEF CrawlInv, RowsOK
<1>3. row \in Row /\ OnChain(n).version <= row.version
  <2>1. PICK r \in Row : r = OnChain(n)
    BY <1>2
  <2>2. r.version \in {1, 2} /\ [r EXCEPT !.final = TRUE] \in Row
        /\ [r EXCEPT !.final = TRUE].version = r.version
    BY DEF Row
  <2> QED
    BY <2>1, <2>2
<1>4. chain' = [chain EXCEPT ![n + 1] = row]
  BY <1>1 DEF OnChain
<1>5. UNCHANGED <<aborted, block, txs, interpretVars, crawlVars, purgeVars, crashes>>
  BY DEF Finalize
<1> HIDE DEF row
<1> QED
  BY <1>1, <1>3, <1>4, <1>5, RowStep

\* A block is replaced by another one of its number.
LEMMA ReplaceStep ==
  ASSUME CrawlInv, NEW n \in Replaceable, Replace(n)
  PROVE  CrawlInv'
<1>1. n \in 0 .. Head0
  BY CrawlerAssumption, Rows DEF Replace, GivesUp, CrawlInv, RowsOK, Number
<1> DEFINE row == [OnChain(n) EXCEPT !.version = 2]
<1>2. OnChain(n) \in Row
  BY <1>1, Rows DEF CrawlInv, RowsOK
<1>3. row \in Row /\ OnChain(n).version <= row.version
  BY <1>2 DEF Row
<1>4. ~OnChain(n).final /\ chain' = [chain EXCEPT ![n + 1] = row]
  BY DEF OnChain, Replace, GivesUp
<1>5. UNCHANGED <<aborted, block, txs, interpretVars, crawlVars, purgeVars, crashes>>
  BY DEF Replace
<1> HIDE DEF row
<1> QED
  BY <1>1, <1>3, <1>4, <1>5, RowStep

\* A block is aborted: the chain is as it was.
LEMMA AbortStep ==
  ASSUME CrawlInv, NEW n \in Replaceable, Abort(n)
  PROVE  CrawlInv'
<1>1. /\ CrawlerTypeOK /\ chain \in Seq(Row) /\ Len(chain) \in 1 .. MaxBlock + 1
      /\ aborted \subseteq Number /\ n \in Number
  BY CrawlerAssumption DEF CrawlInv, CrawlerTypeOK
<1>2. /\ chain' = chain /\ aborted' = aborted \cup {n}
      /\ UNCHANGED <<block, txs, interpretVars, crawlVars, purgeVars, crashes>>
  BY DEF Abort
<1>3. /\ Head0' = Head0 /\ Stored' = Stored /\ Head0 \in Nat
      /\ \A m : OnChain(m)' = OnChain(m)
  BY <1>1, <1>2 DEF Head0, Stored, OnChain
<1>4. \A m \in 0 .. Head0 : OnChain(m).version \in {1, 2}
  BY <1>1, Rows DEF RowsOK, Row
<1>5. Onwards
  BY <1>2, <1>3, <1>4 DEF Onwards
<1> QED
  BY <1>1, <1>2, <1>5, ChainStep

-----------------------------------------------------------------------------
(***************************************************************************)
(* The crawler.                                                            *)
(***************************************************************************)

\* A step of the crawler that leaves the tables alone.
LEMMA CrawlStep ==
  ASSUME CrawlInv, NEW c \in CrawlState, Cached(c), Fetched(c), crawl' = c,
         UNCHANGED <<chainVars, block, txs, interpretVars, purgeVars>>,
         crashes' \in 0 .. MaxCrashes
  PROVE  CrawlInv'
<1>1. UNCHANGED <<chain, aborted, block, txs, flows, executed, counter, reading, purge, purges>>
  BY DEF chainVars, interpretVars, purgeVars
<1>2. CrawlerTypeOK /\ StatesOK
  BY DEF CrawlInv
<1>3. CrawlerTypeOK'
  BY <1>1, <1>2 DEF CrawlerTypeOK, CrawlState
<1>4. StatesOK'
  BY <1>1, <1>2 DEF StatesOK
<1>5. Onwards /\ Stored' = Stored
  BY <1>1, <1>2, SameBlocks
<1>6. CrawlOK'
  <2>1. Cached(c)' /\ Fetched(c)'
    BY <1>3, <1>5, Frame
  <2> QED
    BY <2>1 DEF CrawlOK, Cached, Fetched, AsL2, OnChain
<1> QED
  BY <1>1, <1>3, <1>4, <1>5, <1>6, Frame DEF CrawlInv

\* What the invariant says of the crawler.
LEMMA CrawlFacts ==
  ASSUME CrawlInv
  PROVE  /\ crawl \in CrawlState /\ Cached(crawl) /\ Fetched(crawl)
         /\ Head0 \in Nat /\ Head0 <= MaxBlock /\ MaxBlock \in Nat
         /\ crashes \in 0 .. MaxCrashes /\ MaxCrashes \in Nat
         /\ \A n \in Stored : n \in 0 .. Head0
         /\ Stored \subseteq Number
<1>1. CrawlerTypeOK /\ StatesOK /\ CrawlOK /\ BlocksOK
  BY DEF CrawlInv
<1>2. Head0 \in Number /\ Stored \subseteq Number
  BY <1>1, Rows DEF RowsOK
<1> QED
  BY <1>1, <1>2, Values DEF StatesOK, CrawlOK, BlocksOK, CrawlerTypeOK, Number

\* The crawler starts at the head of L2, or at the block that --thru names.
LEMMA StartCrawlStep ==
  ASSUME CrawlInv, NEW thru \in Thru, StartCrawl(thru)
  PROVE  CrawlInv'
<1> DEFINE first == IF thru = NoBlock THEN Head0 + 1 ELSE thru + 1
           mode == IF thru = NoBlock THEN "up" ELSE "cooling"
           c == [Idle EXCEPT !.mode = mode, !.i = first, !.j = first, !.thru = thru]
<1>1. /\ crawl' = c /\ (thru # NoBlock => thru <= Head0)
      /\ UNCHANGED <<chainVars, block, txs, interpretVars, purgeVars, crashes>>
  BY DEF StartCrawl
<1>2. thru \in Number \cup {NoBlock}
  BY Values
<1>3. first \in 1 .. Head0 + 1 /\ first \in 0 .. MaxBlock + 1
  BY <1>1, <1>2, CrawlFacts DEF Number
<1>4. mode \in {"up", "cooling"}
  OBVIOUS
<1> HIDE DEF first, mode
<1>5. c \in CrawlState
  <2>1. Idle \in CrawlState
    BY Values DEF Idle, CrawlState
  <2> QED
    BY <1>2, <1>3, <1>4, <2>1 DEF CrawlState
<1>6. /\ c.i = first /\ c.j = first /\ c.lo = -1 /\ c.seen = {} /\ c.doc = NoBlock
  BY DEF Idle
<1> HIDE DEF c
<1>7. \A m \in Stored : m \div Bucket # -1
  BY BucketNat, CrawlFacts
<1>8. Cached(c) /\ Fetched(c)
  BY <1>3, <1>6, <1>7, CrawlFacts DEF Cached, Fetched
<1> QED
  BY <1>1, <1>5, <1>8, CrawlStep, CrawlFacts

\* When the cache is filled anew it shows all of the bucket.
LEMMA HitOK ==
  ASSUME CrawlInv, crawl.doc = NoBlock, NEW n \in Nat
  PROVE  /\ Hit(crawl, n) \in CrawlState /\ Cached(Hit(crawl, n))
         /\ Hit(crawl, n).lo = n \div Bucket
         /\ Hit(crawl, n).doc = NoBlock
         /\ Hit(crawl, n).mode = crawl.mode
         /\ Hit(crawl, n).i = crawl.i /\ Hit(crawl, n).j = crawl.j
<1> DEFINE lo == n \div Bucket
           seen == {m \in Stored : m \div Bucket = lo}
<1>1. crawl \in CrawlState /\ Cached(crawl) /\ lo \in Int /\ seen \subseteq Stored
      /\ Stored \subseteq Number
  BY CrawlFacts, BucketNat
<1>2. CASE crawl.lo = lo
  BY <1>1, <1>2 DEF Hit
<1>3. CASE crawl.lo # lo
  <2> DEFINE c == [crawl EXCEPT !.lo = lo, !.seen = seen]
  <2>1. Hit(crawl, n) = c
    BY <1>3 DEF Hit
  <2>2. \A m \in Stored : m \div Bucket = lo => m \in seen
    OBVIOUS
  <2> HIDE DEF lo, seen
  <2>3. c \in CrawlState /\ c.lo = lo /\ c.seen = seen /\ c.doc = crawl.doc
        /\ c.mode = crawl.mode /\ c.i = crawl.i /\ c.j = crawl.j
    BY <1>1 DEF CrawlState
  <2> HIDE DEF c
  <2>4. Cached(c)
    BY <1>1, <2>2, <2>3 DEF Cached
  <2> USE DEF lo
  <2> QED
    BY <2>1, <2>3, <2>4
<1> QED
  BY <1>2, <1>3

\* Up or down, the crawler goes to the block next to those it has walked over.  What
\* the cache does not show then is not stored.
LEMMA VisitStep ==
  ASSUME CrawlInv, crawl.doc = NoBlock, NEW n \in Nat, Visit(n),
         \/ crawl.mode = "up" /\ n = crawl.j
         \/ crawl.mode \in {"failed", "cooling"} /\ crawl.i > 0 /\ n = crawl.i - 1,
         UNCHANGED <<chainVars, block, txs, interpretVars, purgeVars, crashes>>
  PROVE  CrawlInv'
<1>1. PICK c : c = Hit(crawl, n)
  OBVIOUS
<1>2. /\ c \in CrawlState /\ Cached(c) /\ c.lo = n \div Bucket /\ c.doc = NoBlock
      /\ c.mode = crawl.mode /\ c.i = crawl.i /\ c.j = crawl.j
  BY <1>1, HitOK
<1>3. /\ c.i \in Nat /\ c.j \in Nat /\ c.i <= c.j /\ c.j <= Head0 + 1
      /\ c.i <= MaxBlock + 1 /\ c.j <= MaxBlock + 1
      /\ c.seen \subseteq Stored
      /\ \A m \in Stored : m \div Bucket = c.lo => m \in c.seen \/ m \in c.i .. c.j - 1
  BY <1>2, CrawlFacts DEF CrawlState, Cached
<1>4. /\ n = IF c.mode = "up" THEN c.j ELSE c.i - 1
      /\ c.mode \in {"up", "failed", "cooling"} /\ (c.mode # "up" => c.i > 0)
  BY <1>2
<1>5. CASE n \in c.seen
  <2>1. crawl' = Advanced(c) /\ n <= Head0
    BY <1>1, <1>3, <1>5, CrawlFacts DEF Visit
  <2>2. CASE c.mode = "up"
    <3> DEFINE d == [c EXCEPT !.j = @ + 1]
    <3>1. c.j + 1 \in 0 .. MaxBlock + 1
      BY <1>3, <1>4, <2>1, <2>2, CrawlFacts
    <3>2. d \in CrawlState /\ d.j = c.j + 1 /\ d.i = c.i /\ d.mode = c.mode
          /\ d.lo = c.lo /\ d.seen = c.seen /\ d.doc = NoBlock
      BY <1>2, <3>1 DEF CrawlState
    <3>3. crawl' = d
      BY <2>1, <2>2 DEF Advanced, Ascended
    <3> HIDE DEF d
    <3>4. Cached(d)
      BY <1>3, <1>4, <2>1, <2>2, <3>2, CrawlFacts DEF Cached
    <3>5. Fetched(d)
      BY <3>2 DEF Fetched
    <3> QED
      BY <3>2, <3>3, <3>4, <3>5, CrawlStep, CrawlFacts
  <2>3. CASE c.mode # "up"
    <3> DEFINE d == [[c EXCEPT !.i = @ - 1] EXCEPT !.mode = "cooling"]
    <3>1. c.i - 1 \in 0 .. MaxBlock + 1
      BY <1>3, <1>4, <2>3, CrawlFacts
    <3>2. d \in CrawlState /\ d.j = c.j /\ d.i = c.i - 1 /\ d.mode = "cooling"
          /\ d.lo = c.lo /\ d.seen = c.seen /\ d.doc = NoBlock
      BY <1>2, <3>1 DEF CrawlState
    <3>3. crawl' = d
      BY <2>1, <2>3 DEF Advanced, Descended
    <3> HIDE DEF d
    <3>4. Cached(d)
      BY <1>3, <1>4, <2>3, <3>2, CrawlFacts DEF Cached
    <3>5. Fetched(d)
      BY <3>2 DEF Fetched
    <3> QED
      BY <3>2, <3>3, <3>4, <3>5, CrawlStep, CrawlFacts
  <2> QED
    BY <2>2, <2>3
<1>6. CASE n \notin c.seen /\ n > Head0
  <2> DEFINE d == [c EXCEPT !.mode = "failed"]
  <2>1. crawl' = d
    BY <1>1, <1>6 DEF Visit
  <2>2. d \in CrawlState /\ d.j = c.j /\ d.i = c.i /\ d.mode = "failed"
        /\ d.lo = c.lo /\ d.seen = c.seen /\ d.doc = NoBlock
    BY <1>2 DEF CrawlState
  <2> HIDE DEF d
  <2>3. Cached(d) /\ Fetched(d)
    BY <1>3, <2>2 DEF Cached, Fetched
  <2> QED
    BY <2>1, <2>2, <2>3, CrawlStep, CrawlFacts
<1>7. CASE n \notin c.seen /\ n <= Head0
  <2> DEFINE doc == Shown(n)
             d == [c EXCEPT !.doc = doc]
  <2>1. crawl' = d
    BY <1>1, <1>7, CrawlFacts DEF Visit
  <2>2. n \in Number /\ OnChain(n) \in Row
    BY <1>7, Rows, CrawlFacts DEF CrawlInv, RowsOK
  <2>3. /\ doc \in Document /\ doc.n = n /\ doc.row = OnChain(n)
        /\ doc.aborted => n \in aborted
    BY <2>2 DEF Document, Shown
  <2>4. AsL2(doc)
    BY <1>7, <2>2, <2>3 DEF AsL2, Row
  <2>5. block[n] = NoBlock
    <3>1. n \notin Stored
      BY <1>2, <1>3, <1>4, <1>7
    <3> QED
      BY <2>2, <3>1 DEF Stored
  <2> HIDE DEF doc
  <2>6. d \in CrawlState /\ d.j = c.j /\ d.i = c.i /\ d.mode = c.mode
        /\ d.lo = c.lo /\ d.seen = c.seen /\ d.doc = doc
    BY <1>2, <2>3 DEF CrawlState
  <2> HIDE DEF d
  <2>7. Cached(d)
    BY <1>3, <2>6 DEF Cached
  <2>8. Fetched(d)
    BY <1>4, <2>3, <2>4, <2>5, <2>6 DEF Fetched
  <2> QED
    BY <2>1, <2>6, <2>7, <2>8, CrawlStep, CrawlFacts
<1> QED
  BY <1>5, <1>6, <1>7, CrawlFacts

\* The crawler goes on, up or down, sleeps, or goes up again.
LEMMA WalkStep ==
  ASSUME CrawlInv, Ascend \/ Descend \/ Sleep \/ CooledDown
  PROVE  CrawlInv'
<1>1. /\ crawl \in CrawlState /\ Cached(crawl) /\ Fetched(crawl)
      /\ crawl.i \in Nat /\ crawl.j \in Nat
  BY CrawlFacts DEF CrawlState
<1>2. CASE Ascend
  BY <1>1, <1>2, VisitStep DEF Ascend
<1>3. CASE Descend
  <2>1. crawl.i - 1 \in Nat
    BY <1>1, <1>3 DEF Descend
  <2> QED
    BY <1>1, <1>3, <2>1, VisitStep DEF Descend
<1>4. CASE Sleep
  <2> DEFINE c == [crawl EXCEPT !.mode = "cooling"]
  <2>1. crawl' = c /\ crawl.mode = "failed"
        /\ UNCHANGED <<chainVars, block, txs, interpretVars, purgeVars, crashes>>
    BY <1>4 DEF Sleep
  <2>2. c \in CrawlState /\ c.mode = "cooling" /\ c.i = crawl.i /\ c.j = crawl.j
        /\ c.lo = crawl.lo /\ c.seen = crawl.seen /\ c.doc = crawl.doc
    BY <1>1 DEF CrawlState
  <2> HIDE DEF c
  <2>3. Cached(c) /\ Fetched(c)
    BY <1>1, <2>1, <2>2 DEF Cached, Fetched
  <2> QED
    BY <2>1, <2>2, <2>3, CrawlStep, CrawlFacts
<1>5. CASE CooledDown
  <2> DEFINE c == [crawl EXCEPT !.mode = "up"]
  <2>1. crawl' = c /\ crawl.mode = "cooling" /\ crawl.doc = NoBlock
        /\ UNCHANGED <<chainVars, block, txs, interpretVars, purgeVars, crashes>>
    BY <1>5 DEF CooledDown
  <2>2. c \in CrawlState /\ c.mode = "up" /\ c.i = crawl.i /\ c.j = crawl.j
        /\ c.lo = crawl.lo /\ c.seen = crawl.seen /\ c.doc = NoBlock
    BY <1>1, <2>1 DEF CrawlState
  <2> HIDE DEF c
  <2>3. Cached(c) /\ Fetched(c)
    BY <1>1, <2>1, <2>2 DEF Cached, Fetched
  <2> QED
    BY <2>1, <2>2, <2>3, CrawlStep, CrawlFacts
<1> QED
  BY <1>2, <1>3, <1>4, <1>5

\* A crash of the crawler loses its cursors and its cache.
LEMMA CrashCrawlStep == ASSUME CrawlInv, CrashCrawl PROVE CrawlInv'
<1>1. /\ crawl' = Idle /\ crashes' = crashes + 1 /\ crashes < MaxCrashes
      /\ UNCHANGED <<chainVars, block, txs, interpretVars, purgeVars>>
  BY DEF CrashCrawl
<1>2. Idle \in CrawlState /\ Cached(Idle) /\ Fetched(Idle)
  BY Values DEF Idle, CrawlState, Cached, Fetched
<1>3. crashes' \in 0 .. MaxCrashes
  BY <1>1, CrawlFacts
<1> QED
  BY <1>1, <1>2, <1>3, CrawlStep

\* The block that it has fetched is not in the table, so the insert goes through; the
\* cursors go past it.
LEMMA PersistStep == ASSUME CrawlInv, Persist PROVE CrawlInv'
<1>1. /\ CrawlerTypeOK /\ StatesOK /\ BlocksOK /\ TxsOK /\ FinalTransactions
      /\ crawl \in CrawlState /\ Cached(crawl) /\ Fetched(crawl)
      /\ Stored \subseteq Number
  BY CrawlFacts DEF CrawlInv
<1>2. PICK d \in Document : d = crawl.doc
  BY <1>1 DEF Persist, CrawlState
<1>3. /\ d # NoBlock /\ d.n \in Number /\ d.row \in Row /\ d.row # NoBlock
      /\ d.row.version \in {1, 2}
  BY Values DEF Document, Row
<1>4. PICK n \in Number : n = d.n
  BY <1>3
<1>5. /\ crawl.mode # "off" /\ n = IF crawl.mode = "up" THEN crawl.j ELSE crawl.i - 1
      /\ block[n] = NoBlock /\ AsL2(d) /\ n \notin Stored
  BY <1>1, <1>2, <1>3, <1>4 DEF Fetched, Stored
<1>6. /\ block' = [block EXCEPT ![n] = d.row]
      /\ txs' = txs \cup {<<n, d.row.version>>}
      /\ crawl' = [Advanced(crawl) EXCEPT !.doc = NoBlock]
      /\ UNCHANGED <<chain, aborted, flows, executed, counter, reading, purge, purges, crashes>>
  BY <1>2, <1>4, <1>5 DEF Persist, chainVars, interpretVars, purgeVars
<1>7. /\ block' \in [Number -> Row \cup {NoBlock}] /\ block'[n] = d.row
      /\ \A m \in Number : m # n => block'[m] = block[m]
      /\ Stored' = Stored \cup {n}
  BY <1>1, <1>3, <1>6 DEF CrawlerTypeOK, Stored
<1>8. Head0' = Head0 /\ \A m : OnChain(m)' = OnChain(m)
  BY <1>6 DEF Head0, OnChain
<1>9. \A m \in 0 .. Head0 : OnChain(m) \in Row /\ OnChain(m).version \in {1, 2}
  BY <1>1, Rows DEF RowsOK, Row
<1>10. /\ n \in 0 .. Head0 /\ d.row.version <= OnChain(n).version
       /\ d.row.final => OnChain(n) = d.row
  BY <1>4, <1>5, CrawlFacts, Values DEF AsL2, Number
<1>11. Onwards
  BY <1>6, <1>7, <1>8, <1>9, CrawlFacts DEF Onwards
<1>12. PICK c : c = crawl'
  OBVIOUS
<1>13. /\ c \in CrawlState /\ c.doc = NoBlock /\ c.lo = crawl.lo
       /\ c.seen = crawl.seen /\ c.i <= c.j /\ c.j <= Head0 + 1
       /\ crawl.i - 1 <= c.j - 1 /\ c.i <= crawl.i /\ crawl.j <= c.j
       /\ n \in c.i .. c.j - 1
  <2>1. /\ crawl.i \in 0 .. MaxBlock + 1 /\ crawl.j \in 0 .. MaxBlock + 1
        /\ crawl.i <= crawl.j /\ crawl.j <= Head0 + 1
        /\ Head0 \in Nat /\ Head0 <= MaxBlock /\ MaxBlock \in Nat
    BY <1>1, <1>5, CrawlFacts DEF CrawlState, Cached
  <2>2. CASE crawl.mode = "up"
    <3> DEFINE j == crawl.j + 1
    <3>1. c = [[crawl EXCEPT !.j = j] EXCEPT !.doc = NoBlock]
      BY <1>6, <1>12, <2>2 DEF Advanced, Ascended
    <3>2. /\ j \in 0 .. MaxBlock + 1 /\ j = n + 1 /\ crawl.i <= j /\ j <= Head0 + 1
          /\ crawl.j <= j /\ n \in crawl.i .. j - 1 /\ crawl.i - 1 <= j - 1
      BY <1>5, <1>10, <2>1, <2>2
    <3> HIDE DEF j
    <3>3. c \in CrawlState /\ c.doc = NoBlock /\ c.lo = crawl.lo
          /\ c.seen = crawl.seen /\ c.i = crawl.i /\ c.j = j
      BY <1>1, <3>1, <3>2 DEF CrawlState
    <3> QED
      BY <2>1, <3>2, <3>3
  <2>3. CASE crawl.mode # "up"
    <3> DEFINE i == crawl.i - 1
    <3>1. c = [[[crawl EXCEPT !.i = i] EXCEPT !.mode = "cooling"] EXCEPT !.doc = NoBlock]
      BY <1>6, <1>12, <2>3 DEF Advanced, Descended
    <3>2. /\ i \in 0 .. MaxBlock + 1 /\ i = n /\ i <= crawl.j /\ i <= crawl.i
          /\ n \in i .. crawl.j - 1 /\ i <= crawl.j - 1
      BY <1>5, <1>10, <2>1, <2>3
    <3> HIDE DEF i
    <3>3. c \in CrawlState /\ c.doc = NoBlock /\ c.lo = crawl.lo
          /\ c.seen = crawl.seen /\ c.i = i /\ c.j = crawl.j
      BY <1>1, <3>1, <3>2 DEF CrawlState
    <3>4. crawl.i - 1 <= crawl.j - 1
      BY <2>1
    <3> QED
      BY <2>1, <3>2, <3>3, <3>4
  <2> QED
    BY <2>2, <2>3
<1>14. CrawlerTypeOK'
  <2>1. txs' \subseteq Number \X {1, 2}
    BY <1>1, <1>3, <1>6 DEF CrawlerTypeOK
  <2>2. /\ c.mode \in {"off", "up", "failed", "cooling"}
        /\ c.i \in 0 .. MaxBlock + 1 /\ c.j \in 0 .. MaxBlock + 1
        /\ c.doc \in Document \cup {NoBlock}
    BY <1>13 DEF CrawlState
  <2> QED
    BY <1>1, <1>6, <1>7, <1>12, <2>1, <2>2 DEF CrawlerTypeOK
<1>15. StatesOK'
  BY <1>1, <1>6, <1>12, <1>13 DEF StatesOK
<1>16. PurgeOK' /\ ReadOK' /\ FlowsOK'
  BY <1>6, <1>11, <1>14, Frame
<1>17. BlocksOK'
  BY <1>1, <1>7, <1>8, <1>10 DEF BlocksOK
<1>18. TxsOK'
  <2>1. \A t \in txs : t[1] \in Stored /\ t[1] # n /\ t[2] = block'[t[1]].version
    BY <1>1, <1>5, <1>7 DEF TxsOK
  <2>2. OnChain(n).version = 1 => d.row.version = 1
    BY <1>3, <1>9, <1>10
  <2>3. \A m : Standing(m)' => Standing(m) /\ OnChain(m).version = 1
    BY <1>6, <1>8 DEF Standing
  <2> QED
    BY <1>1, <1>6, <1>7, <1>8, <2>1, <2>2, <2>3 DEF TxsOK
<1>19. FinalTransactions'
  <2>1. ASSUME NEW t \in txs
        PROVE  /\ block'[t[1]] # NoBlock
               /\ block'[t[1]].final
                    => OnChain(t[1]) = [version |-> t[2], final |-> TRUE]
    <3>1. t[1] \in Stored /\ t[1] # n
      BY <1>1, <1>5 DEF TxsOK
    <3> QED
      BY <1>1, <1>7, <3>1 DEF FinalTransactions
  <2>2. d.row.final => OnChain(n) = [version |-> d.row.version, final |-> TRUE]
    BY <1>3, <1>10 DEF Row
  <2>3. ASSUME NEW t \in txs'
        PROVE  /\ block'[t[1]] # NoBlock
               /\ block'[t[1]].final
                    => OnChain(t[1]) = [version |-> t[2], final |-> TRUE]
    <3>1. CASE t \in txs
      BY <2>1, <3>1
    <3>2. CASE t = <<n, d.row.version>>
      <4>1. t[1] = n /\ t[2] = d.row.version
        BY <3>2
      <4> QED
        BY <1>3, <1>7, <2>2, <4>1
    <3> QED
      BY <1>6, <3>1, <3>2
  <2> QED
    BY <1>8, <2>3 DEF FinalTransactions
<1>20. CrawlOK'
  <2>1. Cached(c)'
    <3>1. c.seen \subseteq Stored
      BY <1>1, <1>5, <1>13 DEF Cached
    <3>2. ASSUME NEW m \in Stored \cup {n}, m \div Bucket = c.lo
          PROVE  m \in c.seen \/ m \in c.i .. c.j - 1
      <4>1. /\ crawl.i \in Int /\ crawl.j \in Int /\ c.i \in Int /\ c.j \in Int
        BY <1>1, <1>13, Values DEF CrawlState
      <4>2. m \in Stored => m \in c.seen \/ m \in crawl.i .. crawl.j - 1
        BY <1>1, <1>5, <1>13, <3>2 DEF Cached
      <4> QED
        BY <1>13, <3>2, <4>1, <4>2
    <3> QED
      BY <1>7, <1>8, <1>13, <3>1, <3>2 DEF Cached
  <2>2. Fetched(c)'
    BY <1>13 DEF Fetched
  <2> QED
    BY <1>12, <2>1, <2>2 DEF CrawlOK, Cached, Fetched
<1> QED
  BY <1>14, <1>15, <1>16, <1>17, <1>18, <1>19, <1>20 DEF CrawlInv

-----------------------------------------------------------------------------
(***************************************************************************)
(* The interpreter.                                                        *)
(***************************************************************************)

\* A step of the interpreter's loop.
LEMMA LoopStep ==
  ASSUME CrawlInv, reading' \in ReadState, ReadOK', FlowsOK',
         flows' \subseteq executed', executed' \subseteq Calls \X {1, 2},
         counter' \in Deploy .. MaxBlock + 1 \cup {NoBlock},
         UNCHANGED <<chainVars, block, txs, crawlVars, purgeVars>>,
         crashes' \in 0 .. MaxCrashes
  PROVE  CrawlInv'
<1>1. UNCHANGED <<chain, aborted, block, txs, crawl, purge, purges>>
  BY DEF chainVars, crawlVars, purgeVars
<1>2. CrawlerTypeOK /\ StatesOK /\ CrawlOK
  BY DEF CrawlInv
<1>3. CrawlerTypeOK'
  BY <1>1, <1>2 DEF CrawlerTypeOK, ReadState
<1>4. StatesOK'
  BY <1>1, <1>2 DEF StatesOK
<1>5. Onwards /\ Stored' = Stored
  BY <1>1, <1>2, SameBlocks
<1>6. CrawlOK'
  BY <1>1, <1>2 DEF CrawlOK, Cached, Fetched, AsL2, OnChain, Head0, Stored
<1> QED
  BY <1>1, <1>3, <1>4, <1>5, <1>6, Frame DEF CrawlInv

\* What the invariant says of the interpreter.
LEMMA ReadFacts ==
  ASSUME CrawlInv
  PROVE  /\ reading \in ReadState /\ ReadOK /\ FlowsOK
         /\ flows \subseteq executed /\ executed \subseteq Calls \X {1, 2}
         /\ counter \in Deploy .. MaxBlock + 1 \cup {NoBlock}
BY DEF CrawlInv, StatesOK, CrawlerTypeOK

\* What has been read is dropped, and nothing else changes.
LEMMA UnreadStep ==
  ASSUME CrawlInv, reading' = Unread,
         UNCHANGED <<chainVars, block, txs, flows, executed, counter, crawlVars, purgeVars>>,
         crashes' \in 0 .. MaxCrashes
  PROVE  CrawlInv'
<1>1. UNCHANGED <<chain, aborted, flows, executed, counter>>
  BY DEF chainVars
<1>2. Unread \in ReadState /\ Unread.at = "idle"
  BY DEF Unread, ReadState
<1>3. ReadOK'
  BY <1>2 DEF ReadOK
<1>4. FlowsOK'
  BY <1>1, ReadFacts DEF FlowsOK, Head0, OnChain, Standing
<1> QED
  BY <1>1, <1>2, <1>3, <1>4, ReadFacts, LoopStep

\* The block at the counter is stored.
LEMMA SelectBlockStep == ASSUME CrawlInv, SelectBlock PROVE CrawlInv'
<1>1. PICK n \in Stored :
        /\ n = IF counter = NoBlock THEN Deploy ELSE counter
        /\ reading' = [Unread EXCEPT !.at = "block", !.n = n]
  BY DEF SelectBlock, Locate
<1>2. /\ UNCHANGED <<chain, aborted, block, flows, executed, counter>>
      /\ UNCHANGED <<chainVars, block, txs, crawlVars, purgeVars, crashes>>
  BY DEF SelectBlock, chainVars
<1> DEFINE r == [Unread EXCEPT !.at = "block", !.n = n]
<1>3. n \in Number
  BY <1>1, CrawlFacts
<1>4. r \in ReadState /\ r.at = "block" /\ r.n = n /\ r.version = NoBlock
  BY <1>3 DEF Unread, ReadState
<1>5. reading' = r
  BY <1>1
<1> HIDE DEF r
<1>6. ReadOK'
  BY <1>1, <1>2, <1>4, <1>5 DEF ReadOK, Stored
<1>7. FlowsOK'
  BY <1>2, ReadFacts DEF FlowsOK, Head0, OnChain, Standing
<1> QED
  BY <1>2, <1>4, <1>5, <1>6, <1>7, ReadFacts, LoopStep, CrawlFacts

\* Its calls are those of the first version, unless L2 has replaced it.
LEMMA SelectTransactionsStep == ASSUME CrawlInv, SelectTransactions PROVE CrawlInv'
<1> DEFINE n == reading.n
           found == {v \in {1, 2} : n \in Calls /\ <<n, v>> \in txs}
           version == IF found = {} THEN NoBlock ELSE CHOOSE v \in found : TRUE
           r == [reading EXCEPT !.at = "calls", !.version = version]
<1>1. /\ reading.at = "block" /\ reading' = r
      /\ UNCHANGED <<chain, aborted, block, flows, executed, counter>>
      /\ UNCHANGED <<chainVars, block, txs, crawlVars, purgeVars, crashes>>
  BY DEF SelectTransactions, chainVars
<1>2. /\ reading \in ReadState /\ n \in Stored
      /\ n = IF counter = NoBlock THEN Deploy ELSE counter
  BY <1>1, ReadFacts DEF ReadOK
<1>3. found # {} => version \in found
  OBVIOUS
<1>4. version \in {1, 2, NoBlock} /\ (version # NoBlock => n \in Calls)
  BY <1>3
<1>5. ASSUME n \in Calls, Standing(n) PROVE version = 1
  <2>1. /\ <<n, 1>> \in txs
        /\ \A v \in found : v = block[n].version
    BY <1>2, <1>5 DEF CrawlInv, TxsOK
  <2>2. block[n].version <= 1 /\ block[n].version \in {1, 2}
    BY <1>2, <1>5, Rows DEF CrawlInv, BlocksOK, RowsOK, Row, Standing
  <2>3. 1 \in found /\ \A v \in found : v = 1
    BY <1>5, <2>1, <2>2
  <2> QED
    BY <1>3, <2>3
<1> HIDE DEF version
<1>6. r \in ReadState /\ r.at = "calls" /\ r.n = n /\ r.version = version
  BY <1>2, <1>4 DEF ReadState
<1> HIDE DEF r
<1>7. ReadOK'
  <2>1. /\ reading'.at = "calls" /\ reading'.n = n /\ reading'.version = version
    BY <1>1, <1>6
  <2>2. Stored' = Stored /\ counter' = counter /\ \A m : OnChain(m)' = OnChain(m)
    BY <1>1 DEF Stored, OnChain
  <2>3. reading'.n \in Calls /\ Standing(n)' => reading'.version = 1
    BY <1>1, <1>5, <2>1 DEF OnChain, Standing
  <2> QED
    BY <1>2, <1>4, <2>1, <2>2, <2>3 DEF ReadOK, Standing
<1>8. FlowsOK'
  BY <1>1, ReadFacts DEF FlowsOK, Head0, OnChain, Standing
<1> QED
  BY <1>1, <1>6, <1>7, <1>8, ReadFacts, LoopStep, CrawlFacts

\* The block is passed once, and its calls with it.
LEMMA CommitBlockStep == ASSUME CrawlInv, CommitBlock PROVE CrawlInv'
<1> DEFINE n == reading.n
<1>1. /\ reading.at = "calls" /\ reading' = Unread
      /\ UNCHANGED <<chain, aborted, block>>
      /\ UNCHANGED <<chainVars, block, txs, crawlVars, purgeVars, crashes>>
  BY DEF CommitBlock, chainVars
<1>2. /\ reading \in ReadState /\ n \in Stored /\ n \in 0 .. Head0 /\ n \in Number
      /\ n = IF counter = NoBlock THEN Deploy ELSE counter
      /\ reading.version # NoBlock => n \in Calls
      /\ n \in Calls /\ Standing(n) => reading.version = 1
  BY <1>1, ReadFacts, CrawlFacts DEF ReadOK
<1>3. CASE /\ flows' = flows \cup Referred /\ executed' = executed \cup Executed
           /\ counter' = n + 1
  <2> DEFINE v == reading.version
  <2>1. v \in {1, 2, NoBlock}
    BY <1>2 DEF ReadState
  <2>2. \A f \in Executed : f = <<n, v>> /\ f \in Calls \X {1, 2} /\ f[1] = n
    BY <1>2, <2>1 DEF Executed
  <2>3. v = 1 => <<n, 1>> \in Executed
    BY Values DEF Executed
  <2>4. Head0 \in Nat /\ MaxBlock \in Nat /\ Head0 <= MaxBlock /\ n \in Nat
    BY <1>2, CrawlFacts
  <2>5. /\ flows \subseteq executed /\ executed \subseteq Calls \X {1, 2} /\ FlowsOK
        /\ counter # NoBlock => counter = n
    BY <1>2, ReadFacts
  <2>6. \A m \in Calls : m \in Nat /\ m >= Deploy
    BY Values DEF Number
  <2>7. n >= Deploy /\ Deploy \in Nat
    BY <1>2, Values, ReadFacts DEF Number
  <2>8. n + 1 # NoBlock
    BY <2>4, Values
  <2>9. \A f \in executed' : f[1] \in Nat /\ f[1] < n + 1
    BY <1>3, <2>2, <2>4, <2>5, <2>6 DEF FlowsOK
  <2>10. \A f, g \in executed' : f[1] = g[1] => f = g
    <3>1. \A f \in executed : f[1] < n /\ f[1] \in Nat
      BY <2>5, <2>6 DEF FlowsOK
    <3> QED
      BY <1>3, <2>2, <2>4, <2>5, <3>1 DEF FlowsOK
  <2>11. ASSUME NEW m \in Calls, m < n + 1, Standing(m)
         PROVE  <<m, 1>> \in executed'
    <3>1. CASE m = n
      BY <1>2, <1>3, <2>3, <2>11, <3>1
    <3>2. CASE m # n
      <4>1. m < n /\ m \in Nat
        BY <2>4, <2>6, <2>11, <3>2
      <4>2. counter # NoBlock
        BY <1>2, <2>6, <2>7, <4>1
      <4> QED
        BY <1>3, <2>5, <2>11, <4>1, <4>2 DEF FlowsOK
    <3> QED
      BY <3>1, <3>2
  <2>12. FlowsOK'
    <3>1. Head0' = Head0 /\ \A m : Standing(m)' <=> Standing(m)
      BY <1>1 DEF Head0, OnChain, Standing
    <3>2. n + 1 <= Head0 + 1
      BY <1>2, <2>4
    <3> QED
      BY <1>3, <2>8, <2>9, <2>10, <2>11, <3>1, <3>2 DEF FlowsOK
  <2>13. flows' \subseteq executed' /\ executed' \subseteq Calls \X {1, 2}
    BY <1>3, <2>2, <2>5 DEF Referred
  <2>14. counter' \in Deploy .. MaxBlock + 1
    BY <1>2, <1>3, <2>4, <2>7
  <2>15. Unread \in ReadState /\ ReadOK'
    BY <1>1 DEF Unread, ReadState, ReadOK
  <2> QED
    BY <1>1, <2>12, <2>13, <2>14, <2>15, LoopStep, CrawlFacts
<1>4. CASE UNCHANGED <<flows, executed, counter>>
  BY <1>1, <1>4, UnreadStep, CrawlFacts
<1> QED
  BY <1>3, <1>4 DEF CommitBlock

\* A crash of the interpreter loses what it has read.
LEMMA CrashInterpretStep == ASSUME CrawlInv, CrashInterpret PROVE CrawlInv'
<1>1. /\ reading' = Unread /\ crashes' = crashes + 1 /\ crashes < MaxCrashes
      /\ UNCHANGED <<chainVars, block, txs, flows, executed, counter, crawlVars, purgeVars>>
  BY DEF CrashInterpret
<1>2. crashes' \in 0 .. MaxCrashes
  BY <1>1, CrawlFacts
<1> QED
  BY <1>1, <1>2, UnreadStep

-----------------------------------------------------------------------------
(***************************************************************************)
(* Purge.                                                                  *)
(***************************************************************************)

\* A step of purge that leaves the tables alone.
LEMMA PurgeStep ==
  ASSUME CrawlInv, NEW p \in PurgeState, PurgeGood(p), purge' = p,
         UNCHANGED <<chainVars, block, txs, interpretVars, crawlVars>>,
         purges' \in 0 .. MaxPurges, crashes' \in 0 .. MaxCrashes
  PROVE  CrawlInv'
<1>1. UNCHANGED <<chain, aborted, block, txs, flows, executed, counter, reading, crawl>>
  BY DEF chainVars, interpretVars, crawlVars
<1>2. CrawlerTypeOK /\ StatesOK /\ CrawlOK
  BY DEF CrawlInv
<1>3. CrawlerTypeOK'
  BY <1>1, <1>2 DEF CrawlerTypeOK, PurgeState
<1>4. StatesOK'
  BY <1>1, <1>2 DEF StatesOK
<1>5. Onwards /\ Stored' = Stored
  BY <1>1, <1>2, SameBlocks
<1>6. CrawlOK'
  BY <1>1, <1>2 DEF CrawlOK, Cached, Fetched, AsL2, OnChain, Head0, Stored
<1>7. PurgeOK'
  <2>1. PurgeGood(p)'
    BY <1>3, <1>5, Frame
  <2> QED
    BY <2>1 DEF PurgeOK, PurgeGood
<1> QED
  BY <1>1, <1>3, <1>4, <1>5, <1>6, <1>7, Frame DEF CrawlInv

\* What the invariant says of purge.
LEMMA PurgeFacts ==
  ASSUME CrawlInv
  PROVE  /\ purge \in PurgeState /\ PurgeGood(purge)
         /\ purges \in 0 .. MaxPurges /\ MaxPurges \in Nat
BY Values DEF CrawlInv, StatesOK, CrawlerTypeOK, PurgeOK

\* Purge that is not running has nothing in hand.
LEMMA NoPurgeGood == NoPurge \in PurgeState /\ PurgeGood(NoPurge)
BY DEF NoPurge, PurgeState, PurgeGood

\* Somebody starts it, or it crashes.
LEMMA StartPurgeStep ==
  ASSUME CrawlInv, (\E dry \in BOOLEAN : StartPurge(dry)) \/ CrashPurge
  PROVE  CrawlInv'
<1>1. ASSUME NEW dry \in BOOLEAN, StartPurge(dry) PROVE CrawlInv'
  <2> DEFINE p == [NoPurge EXCEPT !.at = "loop", !.dry = dry]
  <2>1. /\ purge' = p /\ purges' = purges + 1 /\ purges < MaxPurges
        /\ UNCHANGED <<chainVars, block, txs, interpretVars, crawlVars, crashes>>
    BY <1>1 DEF StartPurge
  <2>2. p \in PurgeState /\ PurgeGood(p)
    <3>1. /\ p \in PurgeState /\ p.todo = NoPurge.todo /\ p.fresh = NoPurge.fresh
          /\ p.error = NoPurge.error /\ p.number0 = NoPurge.number0
      BY NoPurgeGood DEF PurgeState
    <3> HIDE DEF p
    <3> QED
      BY <3>1, NoPurgeGood DEF PurgeGood
  <2>3. purges' \in 0 .. MaxPurges
    BY <2>1, PurgeFacts
  <2> HIDE DEF p
  <2> QED
    BY <2>1, <2>2, <2>3, PurgeStep, CrawlFacts
<1>2. ASSUME CrashPurge PROVE CrawlInv'
  <2>1. /\ purge' = NoPurge /\ crashes' = crashes + 1 /\ crashes < MaxCrashes
        /\ UNCHANGED <<chainVars, block, txs, interpretVars, crawlVars, purges>>
    BY <1>2 DEF CrashPurge
  <2>2. crashes' \in 0 .. MaxCrashes
    BY <2>1, CrawlFacts
  <2> QED
    BY <2>1, <2>2, NoPurgeGood, PurgeStep, PurgeFacts
<1> QED
  BY <1>1, <1>2

\* A batch lies after the number at which it resumes.
LEMMA PurgeBatchStep == ASSUME CrawlInv, PurgeBatch PROVE CrawlInv'
<1> DEFINE from == Resume(purge)
           open == {n \in Stored : n > from /\ ~block[n].final}
           todo == {n \in open : Cardinality({m \in open : m < n}) < Batch}
           p == [purge EXCEPT !.at = "batch", !.number = from, !.number0 = from,
                              !.error = NoBlock, !.fresh = {}, !.todo = todo]
<1>1. /\ UNCHANGED <<chainVars, block, txs, interpretVars, crawlVars, purges, crashes>>
      /\ purge' = p \/ purge' = NoPurge
  BY DEF PurgeBatch
<1>2. purge \in PurgeState /\ Stored \subseteq Number
  BY PurgeFacts, CrawlFacts
<1>3. from \in Int
  BY <1>2 DEF Resume, PurgeState
<1>4. todo \subseteq Stored /\ \A n \in todo : n > from
  OBVIOUS
<1> HIDE DEF from, todo
<1>5. /\ p \in PurgeState /\ p.todo = todo /\ p.fresh = {} /\ p.error = NoBlock
      /\ p.number0 = from
  <2> DEFINE q == [purge EXCEPT !.at = "batch", !.number = from, !.number0 = from]
             r == [q EXCEPT !.error = NoBlock, !.fresh = {}, !.todo = todo]
  <2>1. p = r
    OBVIOUS
  <2>2. todo \in SUBSET Number
    BY <1>2, <1>4
  <2>3. q \in PurgeState /\ q.number0 = from
    BY <1>2, <1>3 DEF PurgeState
  <2> HIDE DEF q
  <2>4. /\ r \in PurgeState /\ r.todo = todo /\ r.fresh = {} /\ r.error = NoBlock
        /\ r.number0 = from
    BY <2>2, <2>3 DEF PurgeState
  <2> QED
    BY <2>1, <2>4
<1> HIDE DEF p
<1>6. PurgeGood(p)
  BY <1>4, <1>5 DEF PurgeGood
<1> QED
  BY <1>1, <1>5, <1>6, NoPurgeGood, PurgeStep, PurgeFacts, CrawlFacts

\* Each block of the batch is asked for once.
LEMMA PurgeBlockStep == ASSUME CrawlInv, PurgeBlock PROVE CrawlInv'
<1> DEFINE After(n) == [purge EXCEPT !.number = n, !.todo = @ \ {n}]
           Failed(n) == [After(n) EXCEPT !.error = IF @ = NoBlock THEN n ELSE @]
           Answered(n) == [After(n) EXCEPT !.fresh = @ \cup {Shown(n)}]
<1>1. /\ UNCHANGED <<chainVars, block, txs, interpretVars, crawlVars, purges, crashes>>
      /\ \E n \in purge.todo : purge' \in {After(n), Failed(n), Answered(n)}
  BY Zenon DEF PurgeBlock
<1>2. PICK n \in purge.todo : purge' \in {After(n), Failed(n), Answered(n)}
  BY <1>1, Zenon
<1>3. /\ purge \in PurgeState /\ PurgeGood(purge) /\ n \in Stored
      /\ n \in Number /\ n \in Int /\ n \in 0 .. Head0 /\ n > purge.number0
  BY <1>2, PurgeFacts, CrawlFacts DEF PurgeGood, Number
<1> DEFINE a == After(n)
           f == Failed(n)
           d == Shown(n)
           b == Answered(n)
<1>4. /\ a \in PurgeState /\ a.todo = purge.todo \ {n} /\ a.fresh = purge.fresh
      /\ a.error = purge.error /\ a.number0 = purge.number0
  BY <1>3 DEF PurgeState
<1>5. PurgeGood(a)
  <2> HIDE DEF a
  <2> QED
    BY <1>3, <1>4 DEF PurgeGood
<1>6. f \in PurgeState /\ PurgeGood(f)
  <2> DEFINE e == IF a.error = NoBlock THEN n ELSE a.error
  <2>1. f = [a EXCEPT !.error = e]
    OBVIOUS
  <2> HIDE DEF a, f
  <2>2. e \in Int \cup {NoBlock} /\ (e \notin {NoBlock, -1} => e > a.number0)
    BY <1>3, <1>4, <1>5 DEF PurgeState, PurgeGood
  <2> HIDE DEF e
  <2>3. /\ f \in PurgeState /\ f.todo = a.todo /\ f.fresh = a.fresh
        /\ f.error = e /\ f.number0 = a.number0
    BY <1>4, <2>1, <2>2 DEF PurgeState
  <2> QED
    BY <1>5, <2>2, <2>3 DEF PurgeGood
<1>7. b \in PurgeState /\ PurgeGood(b)
  <2>1. OnChain(n) \in Row /\ OnChain(n).version \in {1, 2}
    BY <1>3, Rows DEF CrawlInv, RowsOK, Row
  <2>2. d \in Document /\ d.n = n /\ AsL2(d)
    <3> DEFINE w == n \notin Replaced /\ n \in aborted
    <3>1. w \in BOOLEAN /\ (w => n \in aborted) /\ n <= Head0
      BY <1>3, CrawlFacts
    <3>2. d = [n |-> n, row |-> OnChain(n), aborted |-> w]
      BY DEF Shown
    <3> HIDE DEF w
    <3>3. d \in Document /\ d.n = n /\ d.row = OnChain(n) /\ (d.aborted => n \in aborted)
      BY <1>3, <2>1, <3>1, <3>2 DEF Document
    <3> HIDE DEF d
    <3> QED
      BY <2>1, <3>1, <3>3 DEF AsL2
  <2>3. b = [a EXCEPT !.fresh = a.fresh \cup {d}]
    OBVIOUS
  <2> HIDE DEF a, b, d
  <2>4. /\ b \in PurgeState /\ b.todo = a.todo /\ b.fresh = a.fresh \cup {d}
        /\ b.error = a.error /\ b.number0 = a.number0
    BY <1>4, <2>2, <2>3 DEF PurgeState
  <2>5. \A e \in a.fresh : e.n # n
    BY <1>2, <1>3, <1>4 DEF PurgeGood
  <2>6. n \notin a.todo
    BY <1>4
  <2> QED
    BY <1>3, <1>5, <2>2, <2>4, <2>5, <2>6 DEF PurgeGood
<1>8. purge' \in {a, f, b}
  BY <1>2
<1> HIDE DEF a, f, b
<1> QED
  BY <1>1, <1>4, <1>5, <1>6, <1>7, <1>8, PurgeStep, PurgeFacts, CrawlFacts

\* What a batch writes: the status of the blocks that were answered, and no
\* transaction of a block that L2 has given up.
LEMMA Written ==
  ASSUME CrawlInv
  PROVE  LET b == Refreshed(purge.fresh)
             gone == Dropped(purge.fresh)
         IN
         /\ b \in [Number -> Row \cup {NoBlock}]
         /\ \A n \in Number : b[n] = NoBlock <=> block[n] = NoBlock
         /\ \A n \in Stored : b[n].version = block[n].version
         /\ \A d \in purge.fresh :
              /\ d.n \in Stored /\ d.row \in Row /\ AsL2(d)
              /\ b[d.n].final = d.row.final
         /\ \A n \in Stored : (\A d \in purge.fresh : d.n # n) => b[n] = block[n]
         /\ \A t \in gone : \E d \in purge.fresh :
              t = <<d.n, block[d.n].version>> /\ Gone(d)
         /\ \A d \in purge.fresh : Gone(d)
              => <<d.n, block[d.n].version>> \in gone
<1> DEFINE fresh == purge.fresh
           b == Refreshed(fresh)
           gone == Dropped(fresh)
<1>1. /\ fresh \subseteq Document
      /\ \A d \in fresh : d.n \in Stored /\ AsL2(d)
      /\ \A d, e \in fresh : d.n = e.n => d = e
  BY PurgeFacts DEF PurgeState, PurgeGood
<1>2. /\ block \in [Number -> Row \cup {NoBlock}] /\ Stored \subseteq Number
      /\ \A n \in Stored : block[n] \in Row
  BY Rows DEF CrawlInv, CrawlerTypeOK, RowsOK
<1>3. /\ \A d \in fresh : d.row \in Row /\ d.row.final \in BOOLEAN
      /\ NoBlock \notin Row
  BY <1>1, Values DEF Document, Row
<1> HIDE DEF fresh
<1>4. ASSUME NEW d \in fresh
      PROVE  /\ b[d.n] = [block[d.n] EXCEPT !.final = d.row.final]
             /\ b[d.n] \in Row /\ b[d.n].final = d.row.final
             /\ b[d.n].version = block[d.n].version
  <2>1. PICK n \in Number : n = d.n
    BY <1>1, <1>2
  <2>2. n \in Stored /\ block[n] \in Row
    BY <1>1, <1>2, <2>1
  <2>3. (CHOOSE e \in fresh : e.n = n) = d
    BY <1>1, <2>1
  <2>4. b[n] = [block[n] EXCEPT !.final = d.row.final]
    BY <2>1, <2>3 DEF Refreshed
  <2>5. PICK r \in Row : r = block[n]
    BY <2>2
  <2>6. /\ [r EXCEPT !.final = d.row.final] \in Row
        /\ [r EXCEPT !.final = d.row.final].final = d.row.final
        /\ [r EXCEPT !.final = d.row.final].version = r.version
    BY <1>3 DEF Row
  <2> QED
    BY <2>1, <2>4, <2>5, <2>6
<1>5. ASSUME NEW n \in Number, \A d \in fresh : d.n # n PROVE b[n] = block[n]
  BY <1>5 DEF Refreshed
<1>6. DOMAIN b = Number /\ b = [n \in Number |-> b[n]]
  BY DEF Refreshed
<1>7. ASSUME NEW n \in Number
      PROVE  /\ b[n] \in Row \cup {NoBlock}
             /\ b[n] = NoBlock <=> block[n] = NoBlock
             /\ n \in Stored => b[n].version = block[n].version
  <2>1. CASE \E d \in fresh : d.n = n
    BY <1>1, <1>3, <1>4, <2>1 DEF Stored
  <2>2. CASE \A d \in fresh : d.n # n
    BY <1>2, <1>5, <2>2
  <2> QED
    BY <2>1, <2>2
<1>8. /\ \A t \in gone : \E d \in fresh :
           t = <<d.n, block[d.n].version>> /\ Gone(d)
      /\ \A d \in fresh : Gone(d)
           => <<d.n, block[d.n].version>> \in gone
  BY DEF Dropped
<1> HIDE DEF b, gone
<1>9. b \in [Number -> Row \cup {NoBlock}]
  BY <1>6, <1>7
<1>10. /\ \A n \in Number : b[n] = NoBlock <=> block[n] = NoBlock
       /\ \A n \in Stored : b[n].version = block[n].version
       /\ \A n \in Stored : (\A d \in fresh : d.n # n) => b[n] = block[n]
  BY <1>2, <1>5, <1>7
<1>11. \A d \in fresh :
         d.n \in Stored /\ d.row \in Row /\ AsL2(d) /\ b[d.n].final = d.row.final
  BY <1>1, <1>3, <1>4
<1> QED
  BY <1>8, <1>9, <1>10, <1>11 DEF b, gone, fresh

\* What a block that is final now has left are the transactions that L2 proved.
LEMMA PurgeCommitStep == ASSUME CrawlInv, PurgeCommit PROVE CrawlInv'
<1> DEFINE fresh == purge.fresh
           b == Refreshed(fresh)
           gone == Dropped(fresh)
<1>1. /\ UNCHANGED <<chainVars, interpretVars, crawlVars, purges, crashes>>
      /\ UNCHANGED <<chain, aborted, flows, executed, counter, reading, crawl, purges, crashes>>
  BY DEF PurgeCommit, chainVars, interpretVars, crawlVars
<1>2. CASE UNCHANGED <<block, txs>> /\ purge' = NoPurge
  BY <1>1, <1>2, NoPurgeGood, PurgeStep, PurgeFacts, CrawlFacts
<1>3. CASE /\ block' = b /\ txs' = txs \ gone
           /\ purge' = [purge EXCEPT !.at = "loop", !.fresh = {}]
  <2>1. /\ b \in [Number -> Row \cup {NoBlock}]
        /\ \A n \in Number : b[n] = NoBlock <=> block[n] = NoBlock
        /\ \A n \in Stored : b[n].version = block[n].version
        /\ \A d \in fresh :
             d.n \in Stored /\ d.row \in Row /\ AsL2(d) /\ b[d.n].final = d.row.final
        /\ \A n \in Stored : (\A d \in fresh : d.n # n) => b[n] = block[n]
        /\ \A t \in gone : \E d \in fresh :
             t = <<d.n, block[d.n].version>> /\ Gone(d)
        /\ \A d \in fresh : Gone(d)
             => <<d.n, block[d.n].version>> \in gone
    BY Written
  <2> HIDE DEF b, gone, fresh
  <2>2. /\ CrawlerTypeOK /\ StatesOK /\ BlocksOK /\ TxsOK /\ FinalTransactions /\ CrawlOK
        /\ purge \in PurgeState /\ PurgeGood(purge) /\ Stored \subseteq Number
    BY PurgeFacts, CrawlFacts DEF CrawlInv
  <2>3. Stored' = Stored /\ Head0' = Head0 /\ \A m : OnChain(m)' = OnChain(m)
    BY <1>1, <1>3, <2>1 DEF Stored, Head0, OnChain
  <2>4. \A m \in 0 .. Head0 : OnChain(m) \in Row /\ OnChain(m).version \in {1, 2}
    BY <2>2, Rows DEF RowsOK, Row
  <2>5. Onwards
    BY <1>1, <2>3, <2>4, CrawlFacts DEF Onwards
  <2>6. /\ purge' \in PurgeState /\ PurgeGood(purge')
    <3> DEFINE p == [purge EXCEPT !.at = "loop", !.fresh = {}]
    <3>1. /\ p \in PurgeState /\ p.todo = purge.todo /\ p.fresh = {}
          /\ p.error = purge.error /\ p.number0 = purge.number0
      BY <2>2 DEF PurgeState
    <3> HIDE DEF p
    <3>2. PurgeGood(p)
      BY <2>2, <3>1 DEF PurgeGood
    <3> QED
      BY <1>3, <3>1, <3>2 DEF p
  <2>7. CrawlerTypeOK'
    BY <1>1, <1>3, <2>1, <2>2, <2>6 DEF CrawlerTypeOK, PurgeState
  <2>8. StatesOK'
    BY <1>1, <2>2, <2>6 DEF StatesOK
  <2>9. ReadOK' /\ FlowsOK'
    BY <1>1, <2>5, <2>7, Frame
  <2>10. CrawlOK'
    <3>1. PICK c \in CrawlState : c = crawl
      BY <2>2 DEF StatesOK
    <3>2. Cached(c)' /\ Fetched(c)'
      BY <2>2, <2>3, <2>5, <2>7, <3>1, Frame DEF CrawlOK
    <3> QED
      BY <1>1, <3>1, <3>2 DEF CrawlOK, Cached, Fetched, AsL2, OnChain
  <2>11. PurgeOK'
    <3>1. PICK p \in PurgeState : p = purge' /\ PurgeGood(p)
      BY <2>6
    <3>2. PurgeGood(p)'
      BY <2>5, <2>7, <3>1, Frame
    <3> QED
      BY <3>1, <3>2 DEF PurgeOK, PurgeGood
  <2>12. BlocksOK'
    BY <1>3, <2>1, <2>2, <2>3 DEF BlocksOK
  <2>13. TxsOK'
    <3>1. \A t \in txs : t[1] \in Stored /\ t[2] = b[t[1]].version
      BY <2>1, <2>2 DEF TxsOK
    <3>2. ASSUME NEW n \in Stored, Standing(n) PROVE <<n, 1>> \notin gone
      <4> SUFFICES ASSUME <<n, 1>> \in gone PROVE FALSE
        OBVIOUS
      <4>1. PICK d \in fresh :
              <<n, 1>> = <<d.n, block[d.n].version>> /\ Gone(d)
        BY <2>1
      <4>2. d.n = n /\ d.row.version <= 1 /\ ~d.aborted /\ d.row \in Row
        BY <2>1, <3>2, <4>1 DEF AsL2, Standing
      <4>3. d.row.version # 1
        BY <4>1, <4>2 DEF Gone
      <4> QED
        BY <4>2, <4>3 DEF Row
    <3>3. \A m : Standing(m)' <=> Standing(m)
      BY <1>1, <2>3 DEF Standing
    <3> QED
      BY <1>3, <2>2, <2>3, <3>1, <3>2, <3>3 DEF TxsOK
  <2>14. FinalTransactions'
    <3> SUFFICES ASSUME NEW t \in txs \ gone
                 PROVE  /\ b[t[1]] # NoBlock
                        /\ b[t[1]].final
                             => OnChain(t[1]) = [version |-> t[2], final |-> TRUE]
      BY <1>3, <2>3 DEF FinalTransactions
    <3>1. PICK n \in Stored : n = t[1]
      BY <2>2 DEF TxsOK
    <3>2. /\ t[2] = block[n].version /\ b[n] # NoBlock
          /\ block[n].final => OnChain(n) = [version |-> t[2], final |-> TRUE]
      BY <2>1, <2>2, <3>1 DEF TxsOK, FinalTransactions, Stored
    <3>3. ASSUME NEW d \in fresh, d.n = n, b[n].final
          PROVE  OnChain(n) = [version |-> t[2], final |-> TRUE]
      <4>1. d.row \in Row /\ d.row.final /\ OnChain(n) = d.row
        BY <2>1, <3>3 DEF AsL2
      <4>2. t \in Number \X {1, 2}
        BY <2>2 DEF CrawlerTypeOK
      <4>3. t = <<n, block[n].version>>
        BY <3>1, <3>2, <4>2
      <4>4. d.row.version = block[n].version
        BY <2>1, <3>3, <4>3 DEF Gone
      <4>5. d.row = [version |-> d.row.version, final |-> TRUE]
        BY <4>1 DEF Row
      <4> QED
        BY <3>2, <4>1, <4>4, <4>5
    <3>4. ASSUME \A d \in fresh : d.n # n, b[n].final
          PROVE  OnChain(n) = [version |-> t[2], final |-> TRUE]
      BY <2>1, <3>2, <3>4
    <3> QED
      BY <3>1, <3>2, <3>3, <3>4
  <2> QED
    BY <2>7, <2>8, <2>9, <2>10, <2>11, <2>12, <2>13, <2>14 DEF CrawlInv
<1> QED
  BY <1>2, <1>3 DEF PurgeCommit

-----------------------------------------------------------------------------
(***************************************************************************)
(* The theorems.                                                           *)
(***************************************************************************)

\* Every step preserves the invariant.
LEMMA CrawlNext == CrawlInv /\ [Next]_vars => CrawlInv'
<1> SUFFICES ASSUME CrawlInv, [Next]_vars PROVE CrawlInv'
  OBVIOUS
<1>1. CASE UNCHANGED vars
  <2>1. UNCHANGED <<chainVars, block, txs, interpretVars, crawlVars, purgeVars, crashes>>
    BY <1>1 DEF vars
  <2>2. UNCHANGED <<purge, purges>>
    BY <2>1 DEF purgeVars
  <2> QED
    BY <2>1, <2>2, PurgeFacts, CrawlFacts, PurgeStep
<1>2. CASE Extend \/ Finalize \/ \E n \in Replaceable : Abort(n) \/ Replace(n)
  BY <1>2, ExtendStep, FinalizeStep, AbortStep, ReplaceStep
<1>3. CASE \/ \E thru \in Thru : StartCrawl(thru)
           \/ Ascend \/ Descend \/ Sleep \/ CooledDown \/ Persist \/ CrashCrawl
  BY <1>3, StartCrawlStep, WalkStep, PersistStep, CrashCrawlStep
<1>4. CASE Interpret \/ CrashInterpret
  BY <1>4, SelectBlockStep, SelectTransactionsStep, CommitBlockStep,
     CrashInterpretStep DEF Interpret
<1>5. CASE (\E dry \in BOOLEAN : StartPurge(dry)) \/ Purge \/ CrashPurge
  BY <1>5, StartPurgeStep, PurgeBatchStep, PurgeBlockStep, PurgeCommitStep DEF Purge
<1> QED
  BY <1>1, <1>2, <1>3, <1>4, <1>5 DEF Next

\* The invariant holds in every state.
LEMMA CrawlInvariant == Spec => []CrawlInv
BY CrawlStart, CrawlNext, PTL DEF Spec

\* The crawler never inserts a block that is there: nothing stops it for good.
THEOREM StoredOnce == Spec => []CrawlerInv
<1>1. CrawlInv => CrawlerInv
  BY DEF CrawlInv, CrawlerInv, NeverStoredTwice, CrawlOK, Fetched
<1> QED
  BY <1>1, CrawlInvariant, PTL

\* What is stored of a final block is what L2 proved.
THEOREM FinalAreProved == Spec => []FinalTransactions
<1>1. CrawlInv => FinalTransactions
  BY DEF CrawlInv
<1> QED
  BY <1>1, CrawlInvariant, PTL

\* The interpreter has executed once what it has passed.
THEOREM NoneSkipped == Spec => []NothingSkipped
<1>1. ASSUME CrawlInv PROVE NothingSkipped
  <2>1. FlowsOK /\ CrawlerTypeOK /\ RowsOK /\ executed \subseteq Calls \X {1, 2}
    BY <1>1, Rows DEF CrawlInv, CrawlerTypeOK
  <2>2. ASSUME NEW n \in Calls, counter # NoBlock, n < counter, Standing(n)
        PROVE  <<n, 1>> \in executed
    BY <2>1, <2>2 DEF FlowsOK
  <2>3. ASSUME NEW n \in Calls
        PROVE  Cardinality({v \in {1, 2} : <<n, v>> \in executed}) <= 1
    <3> DEFINE V == {v \in {1, 2} : <<n, v>> \in executed}
    <3>1. \A v, w \in V : v = w
      <4> SUFFICES ASSUME NEW v \in V, NEW w \in V PROVE v = w
        OBVIOUS
      <4>1. <<n, v>> \in executed /\ <<n, w>> \in executed
        OBVIOUS
      <4>2. <<n, v>>[1] = <<n, w>>[1]
        OBVIOUS
      <4>3. <<n, v>> = <<n, w>>
        BY <2>1, <4>1, <4>2 DEF FlowsOK
      <4> QED
        BY <4>3
    <3>2. V = {} \/ \E v : V = {v}
      BY <3>1
    <3> HIDE DEF V
    <3>3. Cardinality(V) <= 1
      <4>1. CASE V = {}
        BY <4>1, FS_EmptySet
      <4>2. ASSUME NEW v, V = {v} PROVE Cardinality(V) <= 1
        <5>1. Cardinality({v}) = 1
          BY FS_Singleton
        <5> QED
          BY <4>2, <5>1
      <4> QED
        BY <3>2, <4>1, <4>2
    <3> USE DEF V
    <3> QED
      BY <3>3
  <2> QED
    BY <2>2, <2>3 DEF NothingSkipped
<1> QED
  BY <1>1, CrawlInvariant, PTL

\* Purge makes progress with every batch, so it ends, whichever answers fail.
THEOREM PurgeProgresses == Spec => PurgeAdvances
<1>1. ASSUME CrawlInv, [Next]_vars
      PROVE  [purge.at = "loop" /\ purge'.at = "batch" =>
                purge.error = -1 \/ purge'.number0 > purge.number0]_vars
  <2> SUFFICES ASSUME Next, purge.at = "loop", purge'.at = "batch", purge.error # -1
               PROVE  purge'.number0 > purge.number0
    BY <1>1
  <2>1. purge' # purge
    OBVIOUS
  <2>2. purge \in PurgeState /\ PurgeGood(purge)
    BY <1>1, PurgeFacts
  <2>3. ASSUME UNCHANGED purge PROVE FALSE
    BY <2>1, <2>3
  <2>4. CASE PurgeBatch
    <3>1. /\ purge.number0 < purge.number
          /\ purge'.number0 = Resume(purge)
      BY <2>2, <2>4 DEF PurgeBatch, NoPurge, PurgeState
    <3> QED
      BY <2>2, <3>1 DEF Resume, PurgeState, PurgeGood
  <2>5. CASE PurgeBlock \/ PurgeCommit \/ CrashPurge \/ \E dry \in BOOLEAN : StartPurge(dry)
    <3>1. CASE PurgeBlock
      BY <3>1 DEF PurgeBlock
    <3>2. CASE PurgeCommit
      BY <2>2, <3>2 DEF PurgeCommit, NoPurge, PurgeState
    <3>3. CASE CrashPurge
      BY <3>3 DEF CrashPurge, NoPurge
    <3>4. ASSUME NEW dry \in BOOLEAN, StartPurge(dry) PROVE FALSE
      <4>1. purge.at = "off"
        BY <3>4, Zenon DEF StartPurge
      <4> QED
        BY <4>1
    <3> QED
      BY <2>5, <3>1, <3>2, <3>3, <3>4
  <2>6. CASE \/ Extend \/ Finalize \/ \E n \in Replaceable : Abort(n) \/ Replace(n)
             \/ \E thru \in Thru : StartCrawl(thru)
             \/ Ascend \/ Descend \/ Sleep \/ CooledDown \/ Persist \/ CrashCrawl
             \/ Interpret \/ CrashInterpret
    BY <2>3, <2>6 DEF Extend, Finalize, Abort, Replace, StartCrawl, Ascend, Descend, Sleep,
       CooledDown, Persist, CrashCrawl, Interpret, SelectBlock, SelectTransactions,
       CommitBlock, CrashInterpret, purgeVars
  <2> QED
    BY <2>4, <2>5, <2>6 DEF Next, Purge
<1> QED
  BY <1>1, CrawlInvariant, PTL DEF Spec, PurgeAdvances
=============================================================================
