--------------------------- MODULE TransfersProofs ---------------------------
(***************************************************************************)
(* Off-chain transfers are booked once, taken back once, and the books     *)
(* agree with L2, for any number of transfers, accounts, requests,         *)
(* repetitions, blocks and crashes.                                        *)
(***************************************************************************)
EXTENDS Transfers, SumTheorems, SequenceTheorems

-----------------------------------------------------------------------------
(***************************************************************************)
(* What transfers add up to.                                               *)
(***************************************************************************)

\* A transfer moves an integer, and only between its two sides.
LEMMA EffectOf ==
  ASSUME NEW h \in Hash, NEW a \in Account
  PROVE  /\ Effect(h, a) \in Int
         /\ a \notin {Terms[h].from, Terms[h].to} => Effect(h, a) = 0
         /\ Terms[h].from \in Account /\ Terms[h].to \in Account
         /\ Terms[h].amount \in Nat
BY TransfersAssumption DEF Effect

\* The rules of sums for Net.
LEMMA NetRules ==
  ASSUME NEW a \in Account
  PROVE  /\ \A S \in SUBSET Hash : Net(S, a) \in Int
         /\ Net({}, a) = 0
         /\ \A R, S \in SUBSET Hash :
              R \cap S = {} => Net(R \cup S, a) = Net(R, a) + Net(S, a)
         /\ \A S \in SUBSET Hash, h \in Hash :
              h \notin S => Net(S \cup {h}, a) = Net(S, a) + Effect(h, a)
<1> DEFINE w == [h \in Hash |-> Effect(h, a)]
<1>1. \A h \in Hash : w[h] = Effect(h, a) /\ w[h] \in Int
  BY EffectOf
<1>2. \A S \in SUBSET Hash : IsFiniteSet(S)
  BY TransfersAssumption, FS_Subset
<1>3. \A S : Net(S, a) = SumFunctionOnSet(w, S)
  BY DEF Net
<1> HIDE DEF w
<1>4. ASSUME NEW S \in SUBSET Hash
      PROVE  /\ Net(S, a) \in Int
             /\ \A h \in Hash \ S : Net(S \cup {h}, a) = Net(S, a) + Effect(h, a)
  <2>1. Net(S, a) \in Int
    BY <1>1, <1>2, <1>3, SumType
  <2>2. ASSUME NEW h \in Hash \ S
        PROVE  Net(S \cup {h}, a) = Net(S, a) + Effect(h, a)
    <3>1. SumFunctionOnSet(w, S \cup {h}) = w[h] + SumFunctionOnSet(w, S)
      BY <1>1, <1>2, SumAdd
    <3> QED
      BY <1>1, <1>3, <2>1, <3>1
  <2> QED
    BY <2>1, <2>2
<1>5. Net({}, a) = 0
  BY <1>3, SumEmpty
<1>6. ASSUME NEW R \in SUBSET Hash, NEW S \in SUBSET Hash, R \cap S = {}
      PROVE  Net(R \cup S, a) = Net(R, a) + Net(S, a)
  <2>1. IsFiniteSet(R \cup S) /\ \A h \in R \cup S : w[h] \in Int
    BY <1>1, <1>2
  <2> QED
    BY <1>3, <1>6, <2>1, SumUnion
<1> QED
  BY <1>4, <1>5, <1>6

\* Transfers that do not touch a balance add nothing to it.
LEMMA NetElsewhere ==
  ASSUME NEW a \in Account, NEW S \in SUBSET Hash,
         \A h \in S : a \notin {Terms[h].from, Terms[h].to}
  PROVE  Net(S, a) = 0
<1> DEFINE w == [h \in Hash |-> Effect(h, a)]
           zero == [h \in Hash |-> 0]
<1>1. /\ \A h \in S : w[h] \in Int /\ w[h] = zero[h]
      /\ IsFiniteSet(S)
  BY EffectOf, TransfersAssumption, FS_Subset
<1>2. Net(S, a) = SumFunctionOnSet(w, S)
  BY DEF Net
<1> HIDE DEF w
<1>3. SumFunctionOnSet(w, S) = SumFunctionOnSet(zero, S)
  BY <1>1, SumCongruence
<1>4. SumFunctionOnSet(zero, S) = 0
  <2> DEFINE z == [h \in S |-> 0]
  <2>1. z \in [S -> {0}] /\ \A h \in S : zero[h] \in Int /\ zero[h] = z[h]
    OBVIOUS
  <2>2. SumFunctionOnSet(zero, S) = SumFunctionOnSet(z, S)
    BY <1>1, <2>1, SumCongruence
  <2>3. SumFunctionOnSet(z, S) = 0
    BY <1>1, <2>1, SumFunctionZero DEF SumFunction
  <2> QED
    BY <2>2, <2>3
<1> QED
  BY <1>2, <1>3, <1>4

\* What a payment does to a table of balances, for any two sides.
LEMMA MovedOf ==
  ASSUME NEW b, b = [a \in Account |-> b[a]], NEW x \in Account, NEW y \in Account,
         NEW v \in Nat, b[x] \in Int, b[y] \in Int
  PROVE  \A a \in Account :
           Moved(b, x, y, v)[a]
             = IF a \in {x, y}
               THEN b[a] + ((IF a = y THEN v ELSE 0) - (IF a = x THEN v ELSE 0))
               ELSE b[a]
<1> DEFINE d == [b EXCEPT ![x] = @ - v]
<1>1. \A a \in Account : d[a] = IF a = x THEN b[x] - v ELSE b[a]
  OBVIOUS
<1>2. DOMAIN d = Account /\ Moved(b, x, y, v) = [d EXCEPT ![y] = @ + v]
  BY DEF Moved
<1> HIDE DEF d
<1>3. \A a \in Account :
        Moved(b, x, y, v)[a] = IF a = y THEN d[y] + v ELSE d[a]
  BY <1>2
<1> QED
  BY <1>1, <1>3

-----------------------------------------------------------------------------
(***************************************************************************)
(* What holds of a session s of process p, against the table rw of         *)
(* transfers and the answers st of the sequencer.                          *)
(***************************************************************************)
Parties(h) == {Terms[h].from, Terms[h].to}

Loaded(s) == {a \in Account : s.loaded[a] # NoRow}

\* Both sides of h, and then both balances, are to be lifted, or the first is.
Lifting(q, h) ==
  \/ /\ Len(q) = 4
     /\ q[1] = Terms[h].from /\ q[2] = Terms[h].to
     /\ q[3] = Terms[h].from /\ q[4] = Terms[h].to
  \/ /\ Len(q) = 3
     /\ q[1] = Terms[h].to /\ q[2] = Terms[h].from /\ q[3] = Terms[h].to

\* Points of the code, and what the session has in hand there: both balances of
\* the transfer at hand are read or about to be, those of the finished are.
Shape(p, s) ==
  /\ s.at \in IF p = Interpreter
              THEN {"idle", "exec", "account", "lift", "poll", "resend", "refund"}
              ELSE {"idle", "account", "lift", "booked", "spawn"}
  /\ s.at = "idle" => s = NewSession
  /\ s.at \in {"account", "lift", "refund", "resend"} => s.hash \in Hash
  /\ s.at \in {"lift", "refund"}
       => /\ Parties(s.hash) \subseteq Loaded(s) \cup Range(s.todo)
          /\ Range(s.todo) \subseteq Parties(s.hash)
  /\ s.at = "account" => Lifting(s.todo, s.hash)
  /\ s.at \notin {"account", "lift", "refund"} => s.todo = <<>>
  /\ s.opened \subseteq Loaded(s) \cup Range(s.todo)
  /\ \A h \in s.applies \cup s.refunds : Parties(h) \subseteq Loaded(s)
  /\ s.at \notin {"poll", "resend", "refund"} => s.polled = {}

Applying(s, h) ==
  h \in s.applies \/ (s.at \in {"account", "lift"} /\ h = s.hash)

\* The rows that it will write say what it has done to the balances.
Writes(p, s) ==
  /\ \A h \in Hash : Applying(s, h) => s.rows[h] \notin {NoRow, "REJECTED"}
  /\ s.at \in {"account", "lift"} => s.hash \notin s.applies
  /\ \A h \in Hash : s.rows[h] = "REJECTED"
                       <=> h \in s.refunds \/ (s.at = "refund" /\ h = s.hash)
  /\ s.at = "refund" => s.hash \notin s.refunds
  /\ p = Interpreter /\ s.at \in {"idle", "exec", "account", "lift"}
       => \A h \in Hash : s.rows[h] \in {NoRow, "ACCEPTED_ON_L2"}
  /\ \A h \in s.polled : s.rows[h] = NoRow

\* A transfer that it changes and did not book is booked, and stays so.
Backed(p, s, rw, st) ==
  /\ \A h \in Hash : s.rows[h] # NoRow /\ ~Applying(s, h)
                       => p = Interpreter /\ rw[h] \notin {NoRow, "REJECTED"}
  /\ \A h \in s.polled : rw[h] \notin {NoRow, "REJECTED"}
  /\ \A h \in Hash : s.rows[h] = "REJECTED" => st[h] = "REJECTED"
  /\ \A i \in DOMAIN s.txs : st[s.txs[i]] = "ACCEPTED_ON_L2"

Good(p, s, rw, st) ==
  s \in Session /\ Shape(p, s) /\ Writes(p, s) /\ Backed(p, s, rw, st)

-----------------------------------------------------------------------------
(***************************************************************************)
(* The ways a session goes on.                                             *)
(***************************************************************************)

\* Both sides of a transfer are lifted, one after the other.
LEMMA SidesOf ==
  ASSUME NEW h \in Hash
  PROVE  Sides(h) \in Seq(Account) /\ Range(Sides(h)) = Parties(h)
<1>1. Sides(h) = <<Terms[h].from, Terms[h].to>>
  BY DEF Sides
<1>2. Terms[h].from \in Account /\ Terms[h].to \in Account
  BY TransfersAssumption
<1>3. DOMAIN Sides(h) = {1, 2}
  BY <1>1
<1> QED
  BY <1>1, <1>2, <1>3 DEF Range, Parties

\* What is to be lifted for a transfer.
LEMMA LiftingOf ==
  ASSUME NEW h \in Hash
  PROVE  /\ Sides(h) \o Sides(h) \in Seq(Account)
         /\ Lifting(Sides(h) \o Sides(h), h)
<1> DEFINE d == Sides(h)
           q == d \o d
<1>1. d \in Seq(Account) /\ Len(d) = 2 /\ d[1] = Terms[h].from /\ d[2] = Terms[h].to
  BY SidesOf DEF Sides
<1> HIDE DEF d
<1>2. /\ q \in Seq(Account) /\ Len(q) = Len(d) + Len(d)
      /\ \A i \in 1 .. Len(d) + Len(d) :
           q[i] = IF i <= Len(d) THEN d[i] ELSE d[i - Len(d)]
  BY <1>1, ConcatProperties
<1> HIDE DEF q
<1>3. Len(q) = 4 /\ q[1] = d[1] /\ q[2] = d[2] /\ q[3] = d[1] /\ q[4] = d[2]
  BY <1>1, <1>2
<1>4. Lifting(q, h) /\ q \in Seq(Account)
  BY <1>1, <1>2, <1>3 DEF Lifting
<1> QED
  BY <1>4 DEF q, d

\* Its accounts are those of the transfer.
LEMMA LiftingParties ==
  ASSUME NEW h \in Hash, NEW q \in Seq(Account), Lifting(q, h)
  PROVE  /\ q # <<>> /\ Range(q) = Parties(h) /\ Range(Tail(q)) = Parties(h)
         /\ Len(q) = 4 => Head(q) = Terms[h].from /\ Lifting(Tail(q), h)
                          /\ Len(Tail(q)) = 3
         /\ Len(q) = 3 => Head(q) = Terms[h].to
         /\ Len(q) \in {3, 4}
<1>1. /\ Len(q) \in {3, 4} /\ q # <<>> /\ Head(q) = q[1]
      /\ DOMAIN q = 1 .. Len(q)
      /\ Tail(q) \in Seq(Account) /\ Len(Tail(q)) = Len(q) - 1
      /\ DOMAIN Tail(q) = 1 .. Len(q) - 1
      /\ \A i \in 1 .. Len(q) - 1 : Tail(q)[i] = q[i + 1]
  <2>1. Len(q) \in {3, 4} /\ q # <<>>
    BY DEF Lifting
  <2>2. /\ Head(q) = q[1] /\ Tail(q) \in Seq(Account) /\ Len(Tail(q)) = Len(q) - 1
        /\ \A i \in 1 .. Len(Tail(q)) : Tail(q)[i] = q[i + 1]
    BY <2>1, HeadTailProperties
  <2> QED
    BY <2>1, <2>2, LenProperties
<1> DEFINE r == Tail(q)
           n == Len(q)
<1>0. /\ n \in Nat /\ DOMAIN r = 1 .. n - 1 /\ Len(r) = n - 1
      /\ \A i \in Nat : 1 <= i /\ i <= n - 1 => r[i] = q[i + 1]
  BY <1>1
<1> HIDE DEF r, n
<1>2. CASE Len(q) = 4
  <2>1. /\ q[1] = Terms[h].from /\ q[2] = Terms[h].to
        /\ q[3] = Terms[h].from /\ q[4] = Terms[h].to
    BY <1>2 DEF Lifting
  <2>2. Len(r) = 3 /\ r[1] = q[2] /\ r[2] = q[3] /\ r[3] = q[4] /\ DOMAIN r = 1 .. 3
    <3>1. n = 4 /\ n - 1 = 3
      BY <1>2 DEF n
    <3>2. r[1] = q[1 + 1] /\ r[2] = q[2 + 1] /\ r[3] = q[3 + 1]
      BY <1>0, <3>1
    <3> QED
      BY <1>0, <3>1, <3>2
  <2>3. Range(q) = Parties(h)
    BY <1>1, <1>2, <2>1 DEF Range, Parties
  <2>4. Range(r) = Parties(h)
    BY <2>1, <2>2 DEF Range, Parties
  <2>5. Lifting(r, h)
    BY <2>1, <2>2 DEF Lifting
  <2> QED
    BY <1>1, <1>2, <2>1, <2>2, <2>3, <2>4, <2>5 DEF r
<1>3. CASE Len(q) = 3
  <2>1. q[1] = Terms[h].to /\ q[2] = Terms[h].from /\ q[3] = Terms[h].to
    BY <1>3 DEF Lifting
  <2>2. Len(r) = 2 /\ r[1] = q[2] /\ r[2] = q[3] /\ DOMAIN r = 1 .. 2
    <3>1. n = 3 /\ n - 1 = 2
      BY <1>3 DEF n
    <3>2. r[1] = q[1 + 1] /\ r[2] = q[2 + 1]
      BY <1>0, <3>1
    <3> QED
      BY <1>0, <3>1, <3>2
  <2>3. Range(q) = Parties(h)
    BY <1>1, <1>3, <2>1 DEF Range, Parties
  <2>4. Range(r) = Parties(h)
    BY <2>1, <2>2 DEF Range, Parties
  <2> QED
    BY <1>1, <1>3, <2>1, <2>3, <2>4 DEF r
<1> QED
  BY <1>1, <1>2, <1>3

\* The elements of a sequence are its head and those of its tail.
LEMMA HeadOrTail ==
  ASSUME NEW S, NEW q \in Seq(S), q # <<>>
  PROVE  /\ Head(q) \in S /\ Tail(q) \in Seq(S)
         /\ Range(q) = {Head(q)} \cup Range(Tail(q))
         /\ \A i \in DOMAIN Tail(q) : Tail(q)[i] = q[i + 1] /\ i + 1 \in DOMAIN q
<1>1. /\ Head(q) \in S /\ Tail(q) \in Seq(S) /\ Head(q) = q[1]
      /\ Len(q) \in Nat \ {0} /\ Len(Tail(q)) = Len(q) - 1
      /\ \A i \in 1 .. Len(Tail(q)) : Tail(q)[i] = q[i + 1]
  BY HeadTailProperties, LenProperties
<1>2. DOMAIN q = 1 .. Len(q) /\ DOMAIN Tail(q) = 1 .. Len(q) - 1
  BY <1>1, LenProperties
<1>4. ASSUME NEW x \in Range(q) PROVE x = Head(q) \/ x \in Range(Tail(q))
  <2>1. PICK i \in 1 .. Len(q) : x = q[i]
    BY <1>2 DEF Range
  <2>2. CASE i = 1
    BY <1>1, <2>1, <2>2
  <2>3. CASE i # 1
    <3>1. i - 1 \in 1 .. Len(q) - 1 /\ (i - 1) + 1 = i
      BY <1>1, <2>3
    <3>2. Tail(q)[i - 1] = q[(i - 1) + 1]
      BY <1>1, <3>1
    <3> QED
      BY <1>2, <2>1, <3>1, <3>2 DEF Range
  <2> QED
    BY <2>2, <2>3
<1>5. Head(q) \in Range(q) /\ \A i \in 1 .. Len(q) - 1 : i + 1 \in 1 .. Len(q)
  BY <1>1, <1>2 DEF Range
<1>6. Range(Tail(q)) \subseteq Range(q)
  BY <1>1, <1>2, <1>5 DEF Range
<1> QED
  BY <1>1, <1>2, <1>4, <1>5, <1>6

\* A session that has done nothing, and may still send.
LEMMA NewIsGood ==
  ASSUME NEW p \in Process, NEW rw, NEW st
  PROVE  /\ Good(p, NewSession, rw, st)
         /\ p # Interpreter => Good(p, [NewSession EXCEPT !.at = "spawn"], rw, st)
<1>1. NewSession \in Session
  BY EmptySeq DEF NewSession, Session
<1>2. [NewSession EXCEPT !.at = "spawn"] \in Session
  BY EmptySeq DEF NewSession, Session
<1>3. ASSUME NEW s, s = NewSession \/ s = [NewSession EXCEPT !.at = "spawn"]
      PROVE  /\ s.applies = {} /\ s.refunds = {} /\ s.polled = {}
             /\ \A h \in Hash : s.rows[h] = NoRow
             /\ s.txs = <<>> /\ s.todo = <<>> /\ s.opened = {}
             /\ s.at = IF s = NewSession THEN "idle" ELSE "spawn"
  BY <1>3 DEF NewSession
<1>4. NoRow \notin Status
  BY TransfersAssumption
<1>5. ASSUME NEW s, s = NewSession \/ (p # Interpreter
                           /\ s = [NewSession EXCEPT !.at = "spawn"])
      PROVE  Shape(p, s) /\ Writes(p, s) /\ Backed(p, s, rw, st)
  BY <1>3, <1>4, <1>5 DEF Shape, Writes, Backed, Applying, Status
<1> QED
  BY <1>1, <1>2, <1>5 DEF Good

\* It begins to book a transfer that neither it nor the table has.
LEMMA BookIsGood ==
  ASSUME NEW p \in Process, NEW rw, NEW st, NEW s, Good(p, s, rw, st),
         s.at \in {"idle", "exec"}, NEW h \in Hash, s.rows[h] = NoRow,
         NEW v \in {"NOT_RECEIVED", "ACCEPTED_ON_L2"},
         p = Interpreter => v = "ACCEPTED_ON_L2"
  PROVE  Good(p, Book(s, h, v), rw, st)
<1> DEFINE b == Book(s, h, v)
<1>1. s \in Session /\ b \in Session
  <2> DEFINE q == Sides(h) \o Sides(h)
  <2>1. q \in Seq(Account) /\ s \in Session
    BY LiftingOf DEF Good
  <2> HIDE DEF q
  <2>2. [s EXCEPT !.at = "account", !.hash = h, !.rows[h] = v, !.todo = q] \in Session
    BY <2>1 DEF Session, Status
  <2> QED
    BY <2>1, <2>2 DEF Book, q
<1>2. /\ b.at = "account" /\ b.hash = h /\ b.todo = Sides(h) \o Sides(h)
      /\ b.opened = s.opened
      /\ b.rows = [s.rows EXCEPT ![h] = v]
      /\ b.loaded = s.loaded /\ b.applies = s.applies /\ b.refunds = s.refunds
      /\ b.polled = s.polled /\ b.txs = s.txs
  BY <1>1 DEF Book, Session
<1>3. s.rows \in [Hash -> Status \cup {NoRow}]
  BY <1>1 DEF Session
<1> HIDE DEF b
<1>4. v # NoRow
  BY TransfersAssumption DEF Status
<1>5. Shape(p, b)
  <2>1. Loaded(b) = Loaded(s) /\ Lifting(b.todo, h)
    BY <1>2, LiftingOf DEF Loaded
  <2>2. s.opened \subseteq Loaded(s)
    BY DEF Good, Shape, Range
  <2> QED
    BY <1>2, <2>1, <2>2 DEF Good, Shape
<1>6. Writes(p, b)
  <2>1. \A g \in Hash : b.rows[g] = IF g = h THEN v ELSE s.rows[g]
    BY <1>2, <1>3
  <2>2. v # NoRow /\ v # "REJECTED" /\ h \notin s.polled
    BY <1>4 DEF Good, Shape
  <2>3. h \notin s.applies /\ h \notin s.refunds
    BY TransfersAssumption DEF Good, Writes, Applying, Status
  <2> QED
    BY <1>2, <2>1, <2>2, <2>3 DEF Good, Shape, Writes, Applying
<1>7. Backed(p, b, rw, st)
  BY <1>2, <1>3, <1>4 DEF Good, Shape, Backed, Applying
<1> QED
  BY <1>1, <1>5, <1>6, <1>7 DEF Good, b

\* The interpreter begins a block of transfers that L2 has accepted.
LEMMA BeginIsGood ==
  ASSUME NEW rw, NEW st, NEW s, Good(Interpreter, s, rw, st), s.at = "idle",
         NEW q \in Seq(Hash), \A i \in DOMAIN q : st[q[i]] = "ACCEPTED_ON_L2"
  PROVE  Good(Interpreter, [s EXCEPT !.at = "exec", !.txs = q], rw, st)
<1> DEFINE b == [s EXCEPT !.at = "exec", !.txs = q]
<1>1. s \in Session /\ b \in Session
  BY DEF Good, Session
<1>2. /\ b.at = "exec" /\ b.txs = q /\ b.hash = s.hash /\ b.rows = s.rows
      /\ b.loaded = s.loaded /\ b.applies = s.applies /\ b.refunds = s.refunds
      /\ b.polled = s.polled /\ b.todo = s.todo /\ b.opened = s.opened
  BY <1>1 DEF Session
<1> HIDE DEF b
<1>3. Shape(Interpreter, b)
  BY <1>2 DEF Good, Shape, Loaded
<1>4. Writes(Interpreter, b)
  BY <1>2 DEF Good, Writes, Applying
<1>5. Backed(Interpreter, b, rw, st)
  BY <1>2 DEF Good, Backed, Applying
<1> QED
  BY <1>1, <1>3, <1>4, <1>5 DEF Good, b

\* It goes on to the next transfer of the block.
LEMMA NextIsGood ==
  ASSUME NEW rw, NEW st, NEW s, Good(Interpreter, s, rw, st), s.at = "exec",
         s.txs # <<>>
  PROVE  /\ Good(Interpreter, [s EXCEPT !.txs = Tail(s.txs)], rw, st)
         /\ Head(s.txs) \in Hash /\ st[Head(s.txs)] = "ACCEPTED_ON_L2"
<1> DEFINE b == [s EXCEPT !.txs = Tail(s.txs)]
<1>1. s \in Session /\ s.txs \in Seq(Hash)
  BY DEF Good, Session
<1>2. /\ Head(s.txs) \in Hash /\ Tail(s.txs) \in Seq(Hash)
      /\ \A i \in DOMAIN Tail(s.txs) :
           Tail(s.txs)[i] = s.txs[i + 1] /\ i + 1 \in DOMAIN s.txs
  BY <1>1, HeadOrTail
<1>3. Head(s.txs) = s.txs[1] /\ 1 \in DOMAIN s.txs
  BY <1>1, HeadTailProperties, LenProperties
<1>4. b \in Session
  BY <1>1, <1>2 DEF Session
<1>5. /\ b.at = "exec" /\ b.txs = Tail(s.txs) /\ b.hash = s.hash
      /\ b.loaded = s.loaded /\ b.applies = s.applies /\ b.refunds = s.refunds
      /\ b.polled = s.polled /\ b.rows = s.rows
      /\ b.todo = s.todo /\ b.opened = s.opened
  BY <1>1 DEF Session
<1> HIDE DEF b
<1>6. Shape(Interpreter, b)
  BY <1>5 DEF Good, Shape, Loaded
<1>7. Writes(Interpreter, b)
  BY <1>5 DEF Good, Writes, Applying
<1>8. Backed(Interpreter, b, rw, st)
  BY <1>2, <1>5 DEF Good, Backed, Applying
<1>9. st[Head(s.txs)] = "ACCEPTED_ON_L2"
  BY <1>3 DEF Good, Backed
<1> QED
  BY <1>2, <1>4, <1>6, <1>7, <1>8, <1>9 DEF Good, b

\* It writes the status of a transfer that is booked, and no other's.
LEMMA RewriteIsGood ==
  ASSUME NEW rw, NEW st, NEW s, Good(Interpreter, s, rw, st), NEW h \in Hash,
         NEW v \in Status \ {"REJECTED"}, s.at \in {"exec", "poll"},
         s.rows[h] # "REJECTED", h \notin s.polled,
         s.rows[h] = NoRow => rw[h] \notin {NoRow, "REJECTED"},
         s.at = "exec" => v = "ACCEPTED_ON_L2"
  PROVE  Good(Interpreter, [s EXCEPT !.rows[h] = v], rw, st)
<1> DEFINE b == [s EXCEPT !.rows[h] = v]
<1>1. s \in Session /\ b \in Session
  BY DEF Good, Session
<1>2. /\ b.at = s.at /\ b.txs = s.txs /\ b.hash = s.hash
      /\ b.rows = [s.rows EXCEPT ![h] = v]
      /\ b.loaded = s.loaded /\ b.applies = s.applies /\ b.refunds = s.refunds
      /\ b.polled = s.polled /\ b.todo = s.todo /\ b.opened = s.opened
  BY <1>1 DEF Session
<1>3. \A g \in Hash : b.rows[g] = IF g = h THEN v ELSE s.rows[g]
  BY <1>1, <1>2 DEF Session
<1>4. v # NoRow /\ v # "REJECTED"
  BY TransfersAssumption
<1> HIDE DEF b
<1>5. Shape(Interpreter, b)
  BY <1>2 DEF Good, Shape, Loaded
<1>6. Writes(Interpreter, b)
  <2>1. h \notin s.refunds
    BY DEF Good, Writes
  <2>2. \A g \in s.polled : b.rows[g] = NoRow
    <3>1. s.polled \subseteq Hash
      BY <1>1 DEF Session
    <3>2. \A g \in s.polled : s.rows[g] = NoRow
      BY DEF Good, Writes
    <3> QED
      BY <1>3, <3>1, <3>2
  <2> QED
    BY <1>2, <1>3, <1>4, <2>1, <2>2 DEF Good, Writes, Applying
<1>7. Backed(Interpreter, b, rw, st)
  BY <1>2, <1>3, <1>4 DEF Good, Backed, Applying
<1> QED
  BY <1>1, <1>5, <1>6, <1>7 DEF Good, b

\* It selects transfers to poll, among those the table has as unresolved.
LEMMA SelectIsGood ==
  ASSUME NEW rw, NEW st, NEW s, Good(Interpreter, s, rw, st), s.at = "exec",
         NEW S \in SUBSET Hash,
         \A h \in S : s.rows[h] = NoRow /\ rw[h] \notin {NoRow, "REJECTED"}
  PROVE  Good(Interpreter, [s EXCEPT !.at = "poll", !.polled = S], rw, st)
<1> DEFINE b == [s EXCEPT !.at = "poll", !.polled = S]
<1>1. s \in Session /\ b \in Session
  BY DEF Good, Session
<1>2. /\ b.at = "poll" /\ b.txs = s.txs /\ b.hash = s.hash /\ b.rows = s.rows
      /\ b.loaded = s.loaded /\ b.applies = s.applies /\ b.refunds = s.refunds
      /\ b.polled = S /\ b.todo = s.todo /\ b.opened = s.opened
  BY <1>1 DEF Session
<1> HIDE DEF b
<1>3. Shape(Interpreter, b)
  BY <1>2 DEF Good, Shape, Loaded
<1>4. Writes(Interpreter, b)
  BY <1>2 DEF Good, Writes, Applying
<1>5. Backed(Interpreter, b, rw, st)
  BY <1>2 DEF Good, Backed, Applying
<1> QED
  BY <1>1, <1>3, <1>4, <1>5 DEF Good, b

\* It takes one of them up.
LEMMA PollIsGood ==
  ASSUME NEW rw, NEW st, NEW s, Good(Interpreter, s, rw, st), s.at = "poll",
         NEW h \in s.polled
  PROVE  Good(Interpreter, [s EXCEPT !.polled = s.polled \ {h}], rw, st)
<1> DEFINE b == [s EXCEPT !.polled = s.polled \ {h}]
<1>1. s \in Session /\ b \in Session
  BY DEF Good, Session
<1>2. /\ b.at = "poll" /\ b.txs = s.txs /\ b.hash = s.hash /\ b.rows = s.rows
      /\ b.loaded = s.loaded /\ b.applies = s.applies /\ b.refunds = s.refunds
      /\ b.polled = s.polled \ {h} /\ b.todo = s.todo /\ b.opened = s.opened
  BY <1>1 DEF Session
<1> HIDE DEF b
<1>3. Shape(Interpreter, b)
  BY <1>2 DEF Good, Shape, Loaded
<1>4. Writes(Interpreter, b)
  BY <1>2 DEF Good, Writes, Applying
<1>5. Backed(Interpreter, b, rw, st)
  BY <1>2 DEF Good, Backed, Applying
<1> QED
  BY <1>1, <1>3, <1>4, <1>5 DEF Good, b

\* It is about to send a transfer again, and has sent it.
LEMMA ResendIsGood ==
  ASSUME NEW rw, NEW st, NEW s, Good(Interpreter, s, rw, st), NEW h \in Hash
  PROVE  /\ s.at = "poll" =>
              Good(Interpreter, [s EXCEPT !.at = "resend", !.hash = h], rw, st)
         /\ s.at = "resend" =>
              Good(Interpreter, [s EXCEPT !.at = "poll"], rw, st)
<1> DEFINE b == [s EXCEPT !.at = "resend", !.hash = h]
           c == [s EXCEPT !.at = "poll"]
<1>1. s \in Session /\ b \in Session /\ c \in Session
  BY DEF Good, Session
<1>2. ASSUME NEW x, x \in Session, s.at \in {"poll", "resend"},
             x.at = "poll" \/ (x.at = "resend" /\ x.hash = h),
             x.txs = s.txs, x.rows = s.rows, x.loaded = s.loaded,
             x.applies = s.applies, x.refunds = s.refunds, x.polled = s.polled,
             x.todo = s.todo, x.opened = s.opened
      PROVE  Good(Interpreter, x, rw, st)
  <2>1. Shape(Interpreter, x)
    BY <1>2 DEF Good, Shape, Loaded
  <2>2. Writes(Interpreter, x)
    BY <1>2 DEF Good, Writes, Applying
  <2>3. Backed(Interpreter, x, rw, st)
    BY <1>2 DEF Good, Backed, Applying
  <2> QED
    BY <1>2, <2>1, <2>2, <2>3 DEF Good
<1>3. /\ b.at = "resend" /\ b.hash = h /\ b.txs = s.txs /\ b.rows = s.rows
      /\ b.loaded = s.loaded /\ b.applies = s.applies
      /\ b.refunds = s.refunds /\ b.polled = s.polled
      /\ b.todo = s.todo /\ b.opened = s.opened
  BY <1>1 DEF Session
<1>4. /\ c.at = "poll" /\ c.txs = s.txs /\ c.rows = s.rows
      /\ c.loaded = s.loaded /\ c.applies = s.applies
      /\ c.refunds = s.refunds /\ c.polled = s.polled
      /\ c.todo = s.todo /\ c.opened = s.opened
  BY <1>1 DEF Session
<1> HIDE DEF b, c
<1>5. /\ s.at = "poll" => Good(Interpreter, b, rw, st)
      /\ s.at = "resend" => Good(Interpreter, c, rw, st)
  BY <1>1, <1>2, <1>3, <1>4
<1> QED
  BY <1>5 DEF b, c

\* It is about to take back a transfer that L2 has rejected.
LEMMA RefundIsGood ==
  ASSUME NEW rw, NEW st, NEW s, Good(Interpreter, s, rw, st), s.at = "poll",
         NEW h \in Hash, h \notin s.polled, s.rows[h] = NoRow,
         rw[h] \notin {NoRow, "REJECTED"}, st[h] = "REJECTED"
  PROVE  Good(Interpreter,
              [s EXCEPT !.at = "refund", !.hash = h, !.todo = Sides(h),
                        !.rows[h] = "REJECTED"], rw, st)
<1> DEFINE b == [s EXCEPT !.at = "refund", !.hash = h, !.todo = Sides(h),
                          !.rows[h] = "REJECTED"]
<1>1. s \in Session /\ b \in Session
  BY SidesOf DEF Good, Session, Status
<1>2. /\ b.at = "refund" /\ b.hash = h /\ b.todo = Sides(h) /\ b.txs = s.txs
      /\ b.rows = [s.rows EXCEPT ![h] = "REJECTED"]
      /\ b.loaded = s.loaded /\ b.applies = s.applies /\ b.refunds = s.refunds
      /\ b.polled = s.polled /\ b.opened = s.opened
  BY <1>1 DEF Session
<1>3. \A g \in Hash : b.rows[g] = IF g = h THEN "REJECTED" ELSE s.rows[g]
  BY <1>1, <1>2 DEF Session
<1> HIDE DEF b
<1>4. Shape(Interpreter, b)
  <2>1. Loaded(b) = Loaded(s) /\ Range(b.todo) = Parties(h)
    BY <1>2, SidesOf DEF Loaded
  <2>2. s.opened \subseteq Loaded(s)
    BY DEF Good, Shape, Range
  <2> QED
    BY <1>2, <2>1, <2>2 DEF Good, Shape
<1>5. Writes(Interpreter, b)
  <2>1. h \notin s.applies /\ h \notin s.refunds
    BY TransfersAssumption DEF Good, Writes, Applying, Status
  <2>2. \A g \in s.polled : b.rows[g] = NoRow
    <3>1. s.polled \subseteq Hash
      BY <1>1 DEF Session
    <3>2. \A g \in s.polled : s.rows[g] = NoRow
      BY DEF Good, Writes
    <3> QED
      BY <1>3, <3>1, <3>2
  <2> QED
    BY <1>2, <1>3, <2>1, <2>2 DEF Good, Writes, Applying
<1>6. Backed(Interpreter, b, rw, st)
  BY <1>2, <1>3 DEF Good, Backed, Applying
<1> QED
  BY <1>1, <1>4, <1>5, <1>6 DEF Good, b

\* A balance is lifted: read, unless the session has it.
LEMMA LiftIsGood ==
  ASSUME NEW p \in Process, NEW rw, NEW st, NEW s, Good(p, s, rw, st),
         s.at \in {"lift", "refund"}, s.todo # <<>>, NEW v \in Int, NEW F \in SUBSET Account,
         s.loaded[Head(s.todo)] # NoRow => v = s.loaded[Head(s.todo)]
  PROVE  LET b == [s EXCEPT !.todo = Tail(s.todo),
                            !.loaded[Head(s.todo)] = v, !.fresh = F]
         IN  /\ Good(p, b, rw, st)
             /\ b.loaded = [s.loaded EXCEPT ![Head(s.todo)] = v]
             /\ b.applies = s.applies /\ b.refunds = s.refunds
             /\ Head(s.todo) \in Account
             /\ Loaded(b) \cup Range(b.todo) = Loaded(s) \cup Range(s.todo)
<1> DEFINE a == Head(s.todo)
           b == [s EXCEPT !.todo = Tail(s.todo), !.loaded[a] = v, !.fresh = F]
<1>1. s \in Session
  BY DEF Good
<1>2. s.todo \in Seq(Account)
  BY <1>1 DEF Session
<1>3. /\ a \in Account /\ Tail(s.todo) \in Seq(Account)
      /\ Range(s.todo) = {a} \cup Range(Tail(s.todo))
  BY <1>2, HeadOrTail
<1> HIDE DEF a
<1>4. b \in Session
  BY <1>1, <1>3 DEF Session
<1>5. /\ b.at = s.at /\ b.hash = s.hash /\ b.txs = s.txs /\ b.rows = s.rows
      /\ b.applies = s.applies /\ b.refunds = s.refunds /\ b.polled = s.polled
      /\ b.todo = Tail(s.todo) /\ b.loaded = [s.loaded EXCEPT ![a] = v]
      /\ b.opened = s.opened
  BY <1>1 DEF Session
<1>6. v # NoRow
  BY TransfersAssumption
<1> HIDE DEF b
<1>7. Loaded(b) = Loaded(s) \cup {a}
  BY <1>1, <1>3, <1>5, <1>6 DEF Loaded, Session
<1>8. Shape(p, b)
  BY <1>3, <1>5, <1>7 DEF Good, Shape
<1>9. Writes(p, b)
  BY <1>5 DEF Good, Writes, Applying
<1>10. Backed(p, b, rw, st)
  BY <1>5 DEF Good, Backed, Applying
<1>11. Good(p, b, rw, st)
  BY <1>4, <1>8, <1>9, <1>10 DEF Good
<1>12. Loaded(b) \cup Range(b.todo) = Loaded(s) \cup Range(s.todo)
  BY <1>3, <1>5, <1>7
<1> QED
  BY <1>3, <1>5, <1>11, <1>12 DEF a, b

\* An account is lifted: found, or inserted.
LEMMA OpenIsGood ==
  ASSUME NEW p \in Process, NEW rw, NEW st, NEW s, Good(p, s, rw, st),
         s.at = "account", NEW O, O = s.opened \/ O = s.opened \cup {Head(s.todo)}
  PROVE  LET b == [s EXCEPT !.todo = Tail(s.todo),
                            !.at = IF Len(s.todo) = 3 THEN "lift" ELSE "account",
                            !.opened = O]
         IN  Good(p, b, rw, st)
<1> DEFINE at == IF Len(s.todo) = 3 THEN "lift" ELSE "account"
           b == [s EXCEPT !.todo = Tail(s.todo), !.at = at, !.opened = O]
           a == Head(s.todo)
<1>1. s \in Session /\ s.hash \in Hash /\ Lifting(s.todo, s.hash)
  BY DEF Good, Shape
<1>2. s.todo \in Seq(Account) /\ s.opened \subseteq Account
  BY <1>1 DEF Session
<1>3. /\ s.todo # <<>> /\ Range(s.todo) = Parties(s.hash)
      /\ Range(Tail(s.todo)) = Parties(s.hash)
      /\ Len(s.todo) = 4 => Lifting(Tail(s.todo), s.hash)
      /\ Len(s.todo) \in {3, 4}
  BY <1>1, <1>2, LiftingParties
<1>4. /\ a \in Account /\ Tail(s.todo) \in Seq(Account)
      /\ Range(s.todo) = {a} \cup Range(Tail(s.todo))
  BY <1>2, <1>3, HeadOrTail
<1>5. O \subseteq Account /\ a \in Parties(s.hash)
  BY <1>2, <1>3, <1>4
<1>6. at \in {"lift", "account"} /\ (at = "account" => Len(s.todo) = 4)
  BY <1>3
<1> HIDE DEF a, at
<1>7. b \in Session
  BY <1>1, <1>4, <1>5, <1>6 DEF Session
<1>8. /\ b.at = at /\ b.hash = s.hash /\ b.txs = s.txs /\ b.rows = s.rows
      /\ b.applies = s.applies /\ b.refunds = s.refunds /\ b.polled = s.polled
      /\ b.todo = Tail(s.todo) /\ b.loaded = s.loaded /\ b.opened = O
  BY <1>1 DEF Session
<1> HIDE DEF b
<1>9. Loaded(b) = Loaded(s) /\ Range(b.todo) = Range(s.todo)
  BY <1>3, <1>8 DEF Loaded
<1>10. s.opened \subseteq Loaded(s) \cup Parties(s.hash)
  BY <1>3 DEF Good, Shape
<1>11. O \subseteq Loaded(b) \cup Range(b.todo)
  BY <1>3, <1>5, <1>9, <1>10 DEF a
<1>12. Shape(p, b)
  BY <1>1, <1>3, <1>6, <1>8, <1>9, <1>11 DEF Good, Shape
<1>13. Writes(p, b)
  BY <1>6, <1>8 DEF Good, Writes, Applying
<1>14. Backed(p, b, rw, st)
  BY <1>6, <1>8 DEF Good, Backed, Applying
<1>15. Good(p, b, rw, st)
  BY <1>7, <1>12, <1>13, <1>14 DEF Good
<1> QED
  BY <1>15 DEF a, b, at

\* Both sides are lifted and the transfer is made, or unmade.
LEMMA MoveIsGood ==
  ASSUME NEW p \in Process, NEW rw, NEW st, NEW s, Good(p, s, rw, st),
         s.todo = <<>>, s.at \in {"lift", "refund"}, NEW t, t = Terms[s.hash]
  PROVE  /\ s.hash \in Hash
         /\ s.loaded[t.from] \in Int /\ s.loaded[t.to] \in Int
         /\ s.at = "lift" =>
              Good(p, [s EXCEPT
                !.at = IF p = Interpreter THEN "exec" ELSE "booked",
                !.loaded = Moved(s.loaded, t.from, t.to, t.amount),
                !.applies = s.applies \cup {s.hash}], rw, st)
         /\ s.at = "refund" =>
              Good(p, [s EXCEPT
                !.at = "poll",
                !.loaded = Moved(s.loaded, t.to, t.from, t.amount),
                !.refunds = s.refunds \cup {s.hash}], rw, st)
<1> DEFINE b == [s EXCEPT
                !.at = IF p = Interpreter THEN "exec" ELSE "booked",
                !.loaded = Moved(s.loaded, t.from, t.to, t.amount),
                !.applies = s.applies \cup {s.hash}]
           c == [s EXCEPT
                !.at = "poll",
                !.loaded = Moved(s.loaded, t.to, t.from, t.amount),
                !.refunds = s.refunds \cup {s.hash}]
<1>1. s \in Session /\ s.hash \in Hash
  BY DEF Good, Shape
<1>2. Range(s.todo) = {}
  BY DEF Range
<1>3. Parties(s.hash) \subseteq Loaded(s) /\ s.opened \subseteq Loaded(s)
  BY <1>2 DEF Good, Shape
<1>4. t.from \in Account /\ t.to \in Account /\ t.amount \in Nat
  BY <1>1, TransfersAssumption
<1>5. s.loaded[t.from] \in Int /\ s.loaded[t.to] \in Int
  BY <1>1, <1>3, <1>4 DEF Parties, Loaded, Session
<1>6. s.loaded \in [Account -> Int \cup {NoRow}]
  BY <1>1 DEF Session
<1>7. ASSUME NEW x \in {t.from, t.to}, NEW y \in {t.from, t.to}
      PROVE  /\ Moved(s.loaded, x, y, t.amount) \in [Account -> Int \cup {NoRow}]
             /\ \A a \in Account :
                  s.loaded[a] # NoRow => Moved(s.loaded, x, y, t.amount)[a] # NoRow
  <2> DEFINE m == Moved(s.loaded, x, y, t.amount)
             l == s.loaded
  <2>0. x \in Account /\ y \in Account /\ l[x] \in Int /\ l[y] \in Int
    BY <1>4, <1>5, <1>7
  <2>1. \A a \in Account :
          m[a] = IF a \in {x, y}
                 THEN l[a] + ((IF a = y THEN t.amount ELSE 0)
                                - (IF a = x THEN t.amount ELSE 0))
                 ELSE l[a]
    <3> HIDE DEF l
    <3>1. l = [a \in Account |-> l[a]] /\ m = Moved(l, x, y, t.amount)
      BY <1>6 DEF l
    <3> HIDE DEF m
    <3> QED
      BY <1>4, <2>0, <3>1, MovedOf
  <2>2. \E g : m = [[s.loaded EXCEPT ![x] = @ - t.amount] EXCEPT ![y] = g]
    BY DEF Moved
  <2>3. m = [a \in Account |-> m[a]]
    BY <1>6, <2>2
  <2>6. l \in [Account -> Int \cup {NoRow}] /\ NoRow \notin Int
    BY <1>6, TransfersAssumption
  <2> HIDE DEF m, l
  <2>4. ASSUME NEW a \in Account
        PROVE  m[a] \in Int \cup {NoRow} /\ (l[a] # NoRow => m[a] # NoRow)
    <3>1. CASE a \in {x, y}
      <4> DEFINE u == t.amount
      <4>0. l[a] \in Int /\ u \in Int
        BY <1>4, <2>0, <3>1
      <4>2. m[a] = l[a] + ((IF a = y THEN u ELSE 0) - (IF a = x THEN u ELSE 0))
        BY <2>1, <3>1
      <4> HIDE DEF u
      <4>1. m[a] \in Int
        BY <4>0, <4>2
      <4> QED
        BY <2>6, <4>1
    <3>2. CASE a \notin {x, y}
      <4>1. m[a] = l[a]
        BY <2>1, <3>2
      <4> QED
        BY <2>6, <4>1
    <3> QED
      BY <3>1, <3>2
  <2> QED
    BY <2>3, <2>4 DEF m, l
<1> DEFINE out == Moved(s.loaded, t.from, t.to, t.amount)
           back == Moved(s.loaded, t.to, t.from, t.amount)
<1>8. /\ out \in [Account -> Int \cup {NoRow}]
      /\ back \in [Account -> Int \cup {NoRow}]
      /\ \A a \in Account :
           s.loaded[a] # NoRow => out[a] # NoRow /\ back[a] # NoRow
  BY <1>7
<1> HIDE DEF out, back
<1>9. ASSUME s.at = "lift" PROVE Good(p, b, rw, st)
  <2>1. b \in Session
    <3> DEFINE at == IF p = Interpreter THEN "exec" ELSE "booked"
               A == s.applies \cup {s.hash}
    <3>1. at \in {"exec", "booked"} /\ A \in SUBSET Hash
      BY <1>1 DEF Session
    <3> HIDE DEF at, A
    <3>2. [s EXCEPT !.at = at, !.loaded = out, !.applies = A] \in Session
      BY <1>1, <1>8, <3>1 DEF Session
    <3> QED
      BY <3>2 DEF at, A, out
  <2>2. /\ b.at = IF p = Interpreter THEN "exec" ELSE "booked"
        /\ b.hash = s.hash /\ b.txs = s.txs /\ b.rows = s.rows
        /\ b.applies = s.applies \cup {s.hash} /\ b.refunds = s.refunds
        /\ b.polled = s.polled /\ b.loaded = out
        /\ b.todo = <<>> /\ b.opened = s.opened
    BY <1>1 DEF Session, out
  <2> HIDE DEF b
  <2>3. Loaded(s) \subseteq Loaded(b)
    BY <1>8, <2>2 DEF Loaded
  <2>4. Shape(p, b)
    BY <1>1, <1>3, <1>9, <2>2, <2>3 DEF Good, Shape
  <2>5. Writes(p, b)
    BY <1>1, <1>9, <2>2 DEF Good, Writes, Applying
  <2>6. Backed(p, b, rw, st)
    BY <1>1, <1>9, <2>2 DEF Good, Backed, Applying
  <2> QED
    BY <2>1, <2>4, <2>5, <2>6 DEF Good
<1>10. ASSUME s.at = "refund" PROVE Good(p, c, rw, st)
  <2>1. c \in Session
    BY <1>1, <1>8 DEF Session, back
  <2>2. /\ c.at = "poll"
        /\ c.hash = s.hash /\ c.txs = s.txs /\ c.rows = s.rows
        /\ c.refunds = s.refunds \cup {s.hash} /\ c.applies = s.applies
        /\ c.polled = s.polled /\ c.loaded = back
        /\ c.todo = <<>> /\ c.opened = s.opened
    BY <1>1 DEF Session, back
  <2> HIDE DEF c
  <2>3. Loaded(s) \subseteq Loaded(c)
    BY <1>8, <2>2 DEF Loaded
  <2>4. Shape(p, c)
    BY <1>1, <1>3, <1>10, <2>2, <2>3 DEF Good, Shape
  <2>5. Writes(p, c)
    BY <1>1, <1>10, <2>2 DEF Good, Writes, Applying
  <2>6. Backed(p, c, rw, st)
    BY <1>1, <1>10, <2>2 DEF Good, Backed, Applying
  <2> QED
    BY <2>1, <2>4, <2>5, <2>6 DEF Good
<1> QED
  BY <1>1, <1>5, <1>9, <1>10

\* A session that does nothing stays as it should be while others go on: what L2
\* has decided stays decided, and only the interpreter changes a booked row.
LEMMA GoodKept ==
  ASSUME NEW p \in Process, NEW s, NEW rw, NEW st, NEW rw2, NEW st2,
         Good(p, s, rw, st),
         \A h \in Hash : st[h] \in {"REJECTED", "ACCEPTED_ON_L2"} => st2[h] = st[h],
         \A h \in Hash : p = Interpreter /\ rw[h] \notin {NoRow, "REJECTED"}
                           => rw2[h] \notin {NoRow, "REJECTED"}
  PROVE  Good(p, s, rw2, st2)
<1>1. s \in Session /\ s.polled \subseteq Hash /\ s.txs \in Seq(Hash)
  BY DEF Good, Session
<1>2. \A i \in DOMAIN s.txs : s.txs[i] \in Hash
  BY <1>1, ElementOfSeq, LenProperties
<1>3. p # Interpreter => s.polled = {}
  BY DEF Good, Shape
<1>4. Backed(p, s, rw2, st2)
  BY <1>1, <1>2, <1>3 DEF Good, Backed
<1> QED
  BY <1>4 DEF Good

-----------------------------------------------------------------------------
(***************************************************************************)
(* The inductive invariant.                                                *)
(***************************************************************************)

\* Blocks hold what was executed, and the interpreter is in the first of them.
Blocks ==
  /\ \A i \in DOMAIN pending : status[pending[i]] = "PENDING"
  /\ \A i \in DOMAIN chain : \A j \in DOMAIN chain[i] :
       status[chain[i][j]] = "ACCEPTED_ON_L2"
  /\ Mine.at # "idle" => chain # <<>>

BookInv ==
  /\ TransfersTypeOK /\ BookedOnce /\ Blocks
  /\ \A p \in Process : Good(p, session[p], row, status)

\* At the start nothing is booked, and every session is new.
LEMMA BookStart == Init => BookInv
<1> SUFFICES ASSUME Init PROVE BookInv
  OBVIOUS
<1>1. \A p \in Process : session[p] = NewSession
  BY DEF Init
<1>2. \A p \in Process : Good(p, session[p], row, status)
  BY <1>1, NewIsGood
<1>3. session \in [Process -> Session]
  BY <1>1, <1>2 DEF Init, Good
<1>4. /\ status \in [Hash -> Status] /\ row \in [Hash -> Status \cup {NoRow}]
      /\ applied \in [Hash -> Nat] /\ refunded \in [Hash -> Nat]
  BY DEF Init, Status
<1>5. /\ l2 \in [Account -> Int] /\ balance \in [Account -> Int \cup {NoRow}]
      /\ account \in [Account -> Nat]
  BY TransfersAssumption DEF Init, Row
<1>6. pending \in Seq(Hash) /\ chain \in Seq(Seq(Hash))
  <2>1. <<>> \in Seq(Hash) /\ <<>> \in Seq(Seq(Hash))
    BY EmptySeq
  <2> QED
    BY <2>1 DEF Init
<1>7. TransfersTypeOK
  <2>1. overlapped = FALSE /\ crashes = 0 /\ MaxCrashes \in Nat
    BY TransfersAssumption DEF Init
  <2>2. overlapped \in BOOLEAN
    BY <2>1
  <2>3. 0 \in 0 .. MaxCrashes
    BY <2>1
  <2> QED
    BY <1>3, <1>4, <1>5, <1>6, <2>1, <2>2, <2>3 DEF TransfersTypeOK
<1>8. BookedOnce
  BY TransfersAssumption DEF Init, BookedOnce, Status
<1>9. Blocks
  BY <1>1 DEF Init, Blocks, Mine, NewSession, Process
<1> QED
  BY <1>2, <1>7, <1>8, <1>9 DEF BookInv

\* The steps of one session that leave L2 and the tables alone.
LEMMA SessionStep ==
  ASSUME BookInv, NEW p \in Process, NEW s,
         session' = [session EXCEPT ![p] = s], Good(p, s, row, status),
         p = Interpreter /\ s.at # "idle" => chain # <<>>,
         UNCHANGED <<l2side, books>>,
         overlapped' \in BOOLEAN, crashes' \in 0 .. MaxCrashes
  PROVE  BookInv'
<1>1. UNCHANGED <<status, l2, pending, chain, row, account, balance, applied,
                  refunded>>
  BY DEF l2side, books
<1>2. session \in [Process -> Session] /\ s \in Session
  BY DEF BookInv, TransfersTypeOK, Good
<1>3. session' \in [Process -> Session]
  BY <1>2
<1>4. \A q \in Process : session'[q] = IF q = p THEN s ELSE session[q]
  BY <1>2
<1>5. \A q \in Process : Good(q, session'[q], row', status')
  BY <1>1, <1>4 DEF BookInv
<1>6. TransfersTypeOK'
  BY <1>1, <1>3 DEF BookInv, TransfersTypeOK
<1>7. BookedOnce'
  BY <1>1 DEF BookInv, BookedOnce
<1>8. Blocks'
  BY <1>1, <1>4 DEF BookInv, Blocks, Mine, Process
<1> QED
  BY <1>5, <1>6, <1>7, <1>8 DEF BookInv

\* L2 takes a transfer, executes it or rejects it; sessions may stay or go on.
LEMMA L2Step ==
  ASSUME BookInv, NEW p \in Process, NEW s,
         session' = [session EXCEPT ![p] = s], Good(p, s, row, status),
         p = Interpreter /\ s.at # "idle" => chain # <<>>,
         status' \in [Hash -> Status], l2' \in [Account -> Int],
         \A h \in Hash : status[h] \in {"REJECTED", "ACCEPTED_ON_L2"}
                           => status'[h] = status[h],
         pending' \in Seq(Hash), chain' \in Seq(Seq(Hash)),
         chain # <<>> => chain' # <<>>,
         \A i \in DOMAIN pending' : status'[pending'[i]] = "PENDING",
         \A i \in DOMAIN chain' : \A j \in DOMAIN chain'[i] :
           status'[chain'[i][j]] = "ACCEPTED_ON_L2",
         UNCHANGED <<tables, crashes>>
  PROVE  BookInv'
<1>1. UNCHANGED <<row, account, balance, applied, refunded, overlapped, crashes>>
  BY DEF tables, books
<1>2. session \in [Process -> Session] /\ s \in Session
  BY DEF BookInv, TransfersTypeOK, Good
<1>3. session' \in [Process -> Session]
  BY <1>2
<1>4. \A q \in Process : session'[q] = IF q = p THEN s ELSE session[q]
  BY <1>2
<1>5. \A q \in Process : Good(q, session'[q], row', status')
  <2> SUFFICES ASSUME NEW q \in Process
               PROVE  Good(q, session'[q], row', status')
    OBVIOUS
  <2> DEFINE x == session'[q]
             st2 == status'
  <2>1. Good(q, x, row, status)
    BY <1>4 DEF BookInv
  <2>2. \A h \in Hash : status[h] \in {"REJECTED", "ACCEPTED_ON_L2"}
                          => st2[h] = status[h]
    OBVIOUS
  <2> HIDE DEF x, st2
  <2>3. Good(q, x, row, st2)
    BY <2>1, <2>2, GoodKept
  <2> QED
    BY <1>1, <2>3 DEF x, st2
<1>6. TransfersTypeOK'
  <2>1. TransfersTypeOK
    BY DEF BookInv
  <2> QED
    BY <1>1, <1>3, <2>1 DEF TransfersTypeOK
<1>7. BookedOnce'
  BY <1>1 DEF BookInv, BookedOnce, TransfersTypeOK
<1>8. Blocks'
  BY <1>4 DEF BookInv, Blocks, Mine, Process
<1> QED
  BY <1>5, <1>6, <1>7, <1>8 DEF BookInv

\* add_transaction changes what is not decided yet.
LEMMA ReceivedStep ==
  ASSUME BookInv, NEW h, AddTransaction(h),
         NEW p \in Process, NEW s, session' = [session EXCEPT ![p] = s],
         Good(p, s, row, status),
         p = Interpreter /\ s.at # "idle" => chain # <<>>,
         UNCHANGED <<tables, crashes>>
  PROVE  BookInv'
<1>1. UNCHANGED <<l2, pending, chain>>
  BY DEF AddTransaction
<1>2. TransfersTypeOK /\ Blocks
  BY DEF BookInv
<1>3. /\ status' \in [Hash -> Status]
      /\ \A g \in Hash : status[g] # "NOT_RECEIVED" => status'[g] = status[g]
  BY <1>2 DEF AddTransaction, Received, Status, TransfersTypeOK
<1>4. /\ \A i \in DOMAIN pending : pending[i] \in Hash
      /\ \A i \in DOMAIN chain : chain[i] \in Seq(Hash)
  BY <1>2, ElementOfSeq, LenProperties DEF TransfersTypeOK
<1>5. \A i \in DOMAIN chain : \A j \in DOMAIN chain[i] : chain[i][j] \in Hash
  BY <1>4, ElementOfSeq, LenProperties
<1>6. /\ \A i \in DOMAIN pending' : status'[pending'[i]] = "PENDING"
      /\ \A i \in DOMAIN chain' : \A j \in DOMAIN chain'[i] :
           status'[chain'[i][j]] = "ACCEPTED_ON_L2"
  BY <1>1, <1>2, <1>3, <1>4, <1>5 DEF Blocks
<1>7. /\ \A g \in Hash : status[g] \in {"REJECTED", "ACCEPTED_ON_L2"}
                           => status'[g] = status[g]
      /\ l2' \in [Account -> Int]
      /\ pending' \in Seq(Hash) /\ chain' \in Seq(Seq(Hash))
      /\ (chain # <<>> => chain' # <<>>)
  BY <1>1, <1>2, <1>3 DEF TransfersTypeOK
<1> QED
  BY <1>3, <1>6, <1>7, L2Step

-----------------------------------------------------------------------------
(***************************************************************************)
(* Every step preserves it.                                                *)
(***************************************************************************)

\* While the interpreter works, there is a block to work on.
LEMMA MineIsGood ==
  ASSUME BookInv
  PROVE  /\ Interpreter \in Process /\ TransfersTypeOK
         /\ Good(Interpreter, Mine, row, status)
         /\ Mine.at # "idle" => chain # <<>>
BY DEF BookInv, Blocks, Process, Mine

\* A step that moves no session is one that sets a session to itself.
LEMMA Unmoved ==
  ASSUME BookInv, UNCHANGED session
  PROVE  /\ Interpreter \in Process
         /\ session' = [session EXCEPT ![Interpreter] = Mine]
         /\ Good(Interpreter, Mine, row, status)
         /\ Mine.at # "idle" => chain # <<>>
<1>1. session \in [Process -> Session] /\ Interpreter \in Process
  BY DEF BookInv, TransfersTypeOK, Process
<1>2. session' = [session EXCEPT ![Interpreter] = session[Interpreter]]
  BY <1>1
<1> QED
  BY <1>1, <1>2 DEF BookInv, Blocks, Mine

\* A user sends a transfer to L2 past the gateway.
LEMMA SendDirectlyStep ==
  ASSUME BookInv, NEW h \in Hash, SendDirectly(h)
  PROVE  BookInv'
<1>1. /\ AddTransaction(h)
      /\ UNCHANGED session /\ UNCHANGED <<tables, crashes>>
  BY DEF SendDirectly
<1> QED
  BY <1>1, Unmoved, ReceivedStep

\* What the blocks hold are hashes.
LEMMA BlocksOfHashes ==
  ASSUME TransfersTypeOK
  PROVE  /\ \A i \in DOMAIN pending : pending[i] \in Hash
         /\ \A i \in DOMAIN chain :
              chain[i] \in Seq(Hash) /\ \A j \in DOMAIN chain[i] : chain[i][j] \in Hash
<1>1. /\ \A i \in DOMAIN pending : pending[i] \in Hash
      /\ \A i \in DOMAIN chain : chain[i] \in Seq(Hash)
  BY ElementOfSeq, LenProperties DEF TransfersTypeOK
<1>2. \A i \in DOMAIN chain : \A j \in DOMAIN chain[i] : chain[i][j] \in Hash
  BY <1>1, ElementOfSeq, LenProperties
<1> QED
  BY <1>1, <1>2

\* The elements of an appended sequence.
LEMMA Appended ==
  ASSUME NEW S, NEW q \in Seq(S), NEW x \in S
  PROVE  /\ Append(q, x) \in Seq(S) /\ Append(q, x) # <<>>
         /\ \A i \in DOMAIN Append(q, x) :
              \/ i \in DOMAIN q /\ Append(q, x)[i] = q[i]
              \/ Append(q, x)[i] = x
<1>1. /\ Append(q, x) \in Seq(S) /\ Len(Append(q, x)) = Len(q) + 1
      /\ Len(q) \in Nat
      /\ \A i \in 1 .. Len(q) : Append(q, x)[i] = q[i]
      /\ Append(q, x)[Len(q) + 1] = x
  BY AppendProperties, LenProperties
<1>2. DOMAIN q = 1 .. Len(q) /\ DOMAIN Append(q, x) = 1 .. Len(q) + 1
  BY <1>1, LenProperties
<1>3. Append(q, x) # <<>>
  BY <1>1, <1>2
<1> QED
  BY <1>1, <1>2, <1>3

\* L2 executes a transfer: it is in the block that is being built.
LEMMA ExecuteStep ==
  ASSUME BookInv, NEW h \in Hash, Execute(h)
  PROVE  BookInv'
<1>1. /\ status[h] = "RECEIVED" /\ status' = [status EXCEPT ![h] = "PENDING"]
      /\ l2' = Moved(l2, Terms[h].from, Terms[h].to, Terms[h].amount)
      /\ pending' = Append(pending, h)
      /\ UNCHANGED chain /\ UNCHANGED session /\ UNCHANGED <<tables, crashes>>
  BY DEF Execute
<1>2. TransfersTypeOK /\ Blocks
  BY DEF BookInv
<1>3. /\ status' \in [Hash -> Status]
      /\ \A g \in Hash : status'[g] = IF g = h THEN "PENDING" ELSE status[g]
  BY <1>1, <1>2 DEF TransfersTypeOK, Status
<1>4. l2' \in [Account -> Int]
  <2>1. /\ Terms[h].from \in Account /\ Terms[h].to \in Account
        /\ Terms[h].amount \in Nat
    BY TransfersAssumption
  <2> DEFINE x == Terms[h].from
             y == Terms[h].to
             v == Terms[h].amount
             d == [l2 EXCEPT ![x] = @ - v]
  <2>2. d \in [Account -> Int]
    BY <1>2, <2>1 DEF TransfersTypeOK
  <2>3. l2' = [d EXCEPT ![y] = @ + v]
    BY <1>1 DEF Moved
  <2> HIDE DEF d
  <2> QED
    BY <2>1, <2>2, <2>3
<1>5. /\ pending' \in Seq(Hash)
      /\ \A i \in DOMAIN pending' :
           pending'[i] = h \/ (i \in DOMAIN pending /\ pending'[i] = pending[i])
  BY <1>1, <1>2, Appended DEF TransfersTypeOK
<1>6. \A i \in DOMAIN pending' : status'[pending'[i]] = "PENDING"
  BY <1>2, <1>3, <1>5, BlocksOfHashes DEF Blocks
<1>7. \A i \in DOMAIN chain' : \A j \in DOMAIN chain'[i] :
        status'[chain'[i][j]] = "ACCEPTED_ON_L2"
  BY <1>1, <1>2, <1>3, BlocksOfHashes DEF Blocks
<1>8. chain' \in Seq(Seq(Hash)) /\ (chain # <<>> => chain' # <<>>)
  BY <1>1, <1>2 DEF TransfersTypeOK
<1>9. \A g \in Hash : status[g] \in {"REJECTED", "ACCEPTED_ON_L2"}
                        => status'[g] = status[g]
  BY <1>1, <1>3
<1> QED
  BY <1>1, <1>3, <1>4, <1>5, <1>6, <1>7, <1>8, <1>9, Unmoved, L2Step

\* L2 rejects a transfer, which is in no block.
LEMMA RejectStep ==
  ASSUME BookInv, NEW h \in Hash, Reject(h)
  PROVE  BookInv'
<1>1. /\ status[h] = "RECEIVED" /\ status' = [status EXCEPT ![h] = "REJECTED"]
      /\ UNCHANGED <<l2, pending, chain>>
      /\ UNCHANGED session /\ UNCHANGED <<tables, crashes>>
  BY DEF Reject
<1>2. TransfersTypeOK /\ Blocks
  BY DEF BookInv
<1>3. /\ status' \in [Hash -> Status]
      /\ \A g \in Hash : status'[g] = IF g = h THEN "REJECTED" ELSE status[g]
  BY <1>1, <1>2 DEF TransfersTypeOK, Status
<1>4. /\ \A i \in DOMAIN pending' : status'[pending'[i]] = "PENDING"
      /\ \A i \in DOMAIN chain' : \A j \in DOMAIN chain'[i] :
           status'[chain'[i][j]] = "ACCEPTED_ON_L2"
  BY <1>1, <1>2, <1>3, BlocksOfHashes DEF Blocks
<1>5. /\ l2' \in [Account -> Int] /\ pending' \in Seq(Hash)
      /\ chain' \in Seq(Seq(Hash)) /\ (chain # <<>> => chain' # <<>>)
  BY <1>1, <1>2 DEF TransfersTypeOK
<1>6. \A g \in Hash : status[g] \in {"REJECTED", "ACCEPTED_ON_L2"}
                        => status'[g] = status[g]
  BY <1>1, <1>3
<1> QED
  BY <1>1, <1>3, <1>4, <1>5, <1>6, Unmoved, L2Step

\* A block is closed: what was pending is accepted.
LEMMA PublishStep ==
  ASSUME BookInv, Publish
  PROVE  BookInv'
<1>1. /\ chain' = Append(chain, pending) /\ pending' = <<>>
      /\ status' = [h \in Hash |-> IF status[h] = "PENDING"
                                   THEN "ACCEPTED_ON_L2" ELSE status[h]]
      /\ UNCHANGED l2 /\ UNCHANGED session /\ UNCHANGED <<tables, crashes>>
  BY DEF Publish
<1>2. TransfersTypeOK /\ Blocks
  BY DEF BookInv
<1>3. /\ status' \in [Hash -> Status]
      /\ \A g \in Hash : status'[g] = IF status[g] = "PENDING"
                                      THEN "ACCEPTED_ON_L2" ELSE status[g]
  BY <1>1, <1>2 DEF TransfersTypeOK, Status
<1>4. /\ chain' \in Seq(Seq(Hash)) /\ chain' # <<>>
      /\ \A i \in DOMAIN chain' :
           chain'[i] = pending \/ (i \in DOMAIN chain /\ chain'[i] = chain[i])
  <2> DEFINE Block == Seq(Hash)
  <2>1. chain \in Seq(Block) /\ pending \in Block
    BY <1>2 DEF TransfersTypeOK
  <2> HIDE DEF Block
  <2>2. /\ chain' \in Seq(Block) /\ chain' # <<>>
        /\ \A i \in DOMAIN chain' :
             chain'[i] = pending \/ (i \in DOMAIN chain /\ chain'[i] = chain[i])
    BY <1>1, <2>1, Appended
  <2> QED
    BY <2>2 DEF Block
<1>5. \A i \in DOMAIN chain' : \A j \in DOMAIN chain'[i] :
        status'[chain'[i][j]] = "ACCEPTED_ON_L2"
  <2> SUFFICES ASSUME NEW i \in DOMAIN chain', NEW j \in DOMAIN chain'[i]
               PROVE  status'[chain'[i][j]] = "ACCEPTED_ON_L2"
    OBVIOUS
  <2> DEFINE h == chain'[i][j]
  <2>1. h \in Hash /\ status[h] \in {"PENDING", "ACCEPTED_ON_L2"}
    BY <1>2, <1>4, BlocksOfHashes DEF Blocks
  <2> HIDE DEF h
  <2>2. status'[h] = "ACCEPTED_ON_L2"
    BY <1>3, <2>1
  <2> QED
    BY <2>2 DEF h
<1>6. pending' \in Seq(Hash) /\ l2' \in [Account -> Int] /\ DOMAIN pending' = {}
  <2>1. <<>> \in Seq(Hash)
    BY EmptySeq
  <2> QED
    BY <1>1, <1>2, <2>1 DEF TransfersTypeOK
<1>7. \A i \in DOMAIN pending' : status'[pending'[i]] = "PENDING"
  BY <1>6
<1>8. \A g \in Hash : status[g] \in {"REJECTED", "ACCEPTED_ON_L2"}
                        => status'[g] = status[g]
  BY <1>3
<1> QED
  BY <1>1, <1>3, <1>4, <1>5, <1>6, <1>7, <1>8, Unmoved, L2Step

\* Overlapping is noted as TRUE or FALSE.
LEMMA TouchTyped ==
  ASSUME NEW p, NEW h, Touch(p, h) PROVE overlapped' \in BOOLEAN
BY DEF Touch

\* A session lifts an account, or meets two rows of it and gives up.
LEMMA LiftAccountStep ==
  ASSUME BookInv, NEW p \in Process, LiftAccount(p)
  PROVE  BookInv'
<1> DEFINE s == session[p]
           a == Head(s.todo)
           O == IF RowsFound(s, a) = 0 THEN s.opened \cup {a} ELSE s.opened
           b == [s EXCEPT !.todo = Tail(s.todo),
                          !.at = IF Len(s.todo) = 3 THEN "lift" ELSE "account",
                          !.opened = O]
<1>1. /\ s.at = "account"
      /\ session' = [session EXCEPT ![p] =
                       IF RowsFound(s, a) > 1 THEN NewSession ELSE b]
      /\ UNCHANGED <<l2side, tables, crashes>>
  BY DEF LiftAccount
<1>2. Good(p, s, row, status) /\ TransfersTypeOK
  BY DEF BookInv
<1>3. O = s.opened \/ O = s.opened \cup {a}
  OBVIOUS
<1>4. p = Interpreter => chain # <<>>
  BY <1>1 DEF BookInv, Blocks, Mine
<1> HIDE DEF s, O
<1>5. Good(p, b, row, status)
  BY <1>1, <1>2, <1>3, OpenIsGood
<1>6. /\ UNCHANGED <<l2side, books>>
      /\ overlapped' \in BOOLEAN /\ crashes' \in 0 .. MaxCrashes
  BY <1>1, <1>2 DEF tables, TransfersTypeOK
<1> HIDE DEF b
<1>7. CASE session' = [session EXCEPT ![p] = b]
  BY <1>4, <1>5, <1>6, <1>7, SessionStep
<1>8. CASE session' = [session EXCEPT ![p] = NewSession]
  <2>1. Good(p, NewSession, row, status)
    BY NewIsGood
  <2> QED
    BY <1>4, <1>6, <1>8, <2>1, SessionStep
<1> QED
  BY <1>1, <1>7, <1>8

\* Another handler inserts an account.
LEMMA LiftElsewhereStep ==
  ASSUME BookInv, NEW a \in Account, LiftElsewhere(a)
  PROVE  BookInv'
<1>1. /\ account' = [account EXCEPT ![a] = @ + 1]
      /\ UNCHANGED <<status, l2, pending, chain, row, balance, applied, refunded,
                     overlapped, session, crashes>>
  BY DEF LiftElsewhere, l2side
<1>2. account' \in [Account -> Nat]
  BY <1>1 DEF BookInv, TransfersTypeOK
<1>3. TransfersTypeOK'
  BY <1>1, <1>2 DEF BookInv, TransfersTypeOK
<1>4. BookedOnce' /\ Blocks'
  BY <1>1 DEF BookInv, BookedOnce, Blocks, Mine
<1>5. \A p \in Process : Good(p, session'[p], row', status')
  BY <1>1 DEF BookInv
<1> QED
  BY <1>3, <1>4, <1>5 DEF BookInv

\* A session lifts a balance.
LEMMA LiftBalanceStep ==
  ASSUME BookInv, NEW p \in Process, LiftBalance(p)
  PROVE  BookInv'
<1> DEFINE s == session[p]
           a == Head(s.todo)
           none == a \in s.opened \/ balance[a] = NoRow
           v == IF s.loaded[a] # NoRow THEN s.loaded[a]
                ELSE IF none THEN 0 ELSE balance[a]
           F == IF s.loaded[a] = NoRow /\ none
                THEN s.fresh \cup {a} ELSE s.fresh
           b == [s EXCEPT !.todo = Tail(s.todo), !.loaded[a] = v, !.fresh = F]
<1>1. /\ s.at \in {"lift", "refund"} /\ s.todo # <<>>
      /\ session' = [session EXCEPT ![p] = b]
      /\ UNCHANGED <<l2side, tables, crashes>>
  BY DEF LiftBalance
<1>2. Good(p, s, row, status) /\ s \in Session /\ TransfersTypeOK
  BY DEF BookInv, Good
<1>3. s.todo \in Seq(Account) /\ s.fresh \subseteq Account
      /\ s.loaded \in [Account -> Int \cup {NoRow}]
  BY <1>2 DEF Session
<1>4. a \in Account
  BY <1>1, <1>3, HeadOrTail
<1>5. v \in Int /\ (s.loaded[a] # NoRow => v = s.loaded[a]) /\ F \in SUBSET Account
  BY <1>2, <1>3, <1>4 DEF TransfersTypeOK
<1>6. p = Interpreter => chain # <<>>
  BY <1>1 DEF BookInv, Blocks, Mine
<1> HIDE DEF s, v, F
<1>7. Good(p, b, row, status)
  BY <1>1, <1>2, <1>5, LiftIsGood
<1>8. /\ UNCHANGED <<l2side, books>>
      /\ overlapped' \in BOOLEAN /\ crashes' \in 0 .. MaxCrashes
  BY <1>1, <1>2 DEF tables, TransfersTypeOK
<1> HIDE DEF b
<1> QED
  BY <1>1, <1>6, <1>7, <1>8, SessionStep

\* A session changes the balances that it has lifted for a transfer.
LEMMA ApplyTransferStep ==
  ASSUME BookInv, NEW p \in Process, ApplyTransfer(p)
  PROVE  BookInv'
<1> DEFINE s == session[p]
           t == Terms[s.hash]
           b == [s EXCEPT !.at = IF p = Interpreter THEN "exec" ELSE "booked",
                          !.loaded = Moved(s.loaded, t.from, t.to, t.amount),
                          !.applies = s.applies \cup {s.hash}]
<1>1. /\ s.at = "lift" /\ s.todo = <<>>
      /\ session' = [session EXCEPT ![p] = b]
      /\ UNCHANGED <<l2side, tables, crashes>>
  BY DEF ApplyTransfer
<1>2. Good(p, s, row, status) /\ TransfersTypeOK
  BY DEF BookInv
<1>3. p = Interpreter => chain # <<>>
  BY <1>1, MineIsGood, Zenon DEF Mine
<1> HIDE DEF s
<1>4. Good(p, b, row, status)
  BY <1>1, <1>2, MoveIsGood, Zenon
<1>5. /\ UNCHANGED <<l2side, books>>
      /\ overlapped' \in BOOLEAN /\ crashes' \in 0 .. MaxCrashes
  BY <1>1, <1>2 DEF tables, TransfersTypeOK
<1> HIDE DEF b
<1> QED
  BY <1>1, <1>3, <1>4, <1>5, SessionStep

\* The interpreter changes them back.
LEMMA ApplyRejectStep ==
  ASSUME BookInv, NEW p \in Process, ApplyReject(p)
  PROVE  BookInv'
<1> DEFINE s == session[p]
           t == Terms[s.hash]
           b == [s EXCEPT !.at = "poll",
                          !.loaded = Moved(s.loaded, t.to, t.from, t.amount),
                          !.refunds = s.refunds \cup {s.hash}]
<1>1. /\ s.at = "refund" /\ s.todo = <<>>
      /\ session' = [session EXCEPT ![p] = b]
      /\ UNCHANGED <<l2side, tables, crashes>>
  BY DEF ApplyReject
<1>2. Good(p, s, row, status) /\ TransfersTypeOK
  BY DEF BookInv
<1>3. p = Interpreter => chain # <<>>
  BY <1>1, MineIsGood, Zenon DEF Mine
<1> HIDE DEF s
<1>4. Good(p, b, row, status)
  BY <1>1, <1>2, MoveIsGood, Zenon
<1>5. /\ UNCHANGED <<l2side, books>>
      /\ overlapped' \in BOOLEAN /\ crashes' \in 0 .. MaxCrashes
  BY <1>1, <1>2 DEF tables, TransfersTypeOK
<1> HIDE DEF b
<1> QED
  BY <1>1, <1>3, <1>4, <1>5, SessionStep

\* A request is answered from the table, or begins to book.
LEMMA TransferRequestStep ==
  ASSUME BookInv, NEW r \in Request, TransferRequest(r)
  PROVE  BookInv'
<1>1. /\ r \in Process /\ r # Interpreter /\ HashOf[r] \in Hash
      /\ TransfersTypeOK /\ Good(r, session[r], row, status)
  BY TransfersAssumption DEF BookInv, Process
<1>2. /\ session[r].at = "idle" /\ UNCHANGED <<l2side, books>>
      /\ crashes' \in 0 .. MaxCrashes
  BY <1>1 DEF TransferRequest, TransfersTypeOK
<1>3. CASE /\ session' = [session EXCEPT ![r] = NewSession]
           /\ UNCHANGED overlapped
  <2>1. overlapped' \in BOOLEAN
    BY <1>1, <1>3 DEF TransfersTypeOK
  <2> QED
    BY <1>1, <1>2, <1>3, <2>1, NewIsGood, SessionStep
<1>4. CASE /\ row[HashOf[r]] = NoRow
           /\ Touch(r, HashOf[r])
           /\ session' = [session EXCEPT ![r] =
                            Book(session[r], HashOf[r], "NOT_RECEIVED")]
  <2>1. session[r].rows[HashOf[r]] = NoRow
    BY <1>1, <1>2 DEF Good, Shape, NewSession
  <2>2. Good(r, Book(session[r], HashOf[r], "NOT_RECEIVED"), row, status)
    BY <1>1, <1>2, <2>1, BookIsGood
  <2> QED
    BY <1>1, <1>2, <1>4, <2>2, TouchTyped, SessionStep
<1> QED
  BY <1>3, <1>4 DEF TransferRequest

\* The gateway sends what it has committed.
LEMMA SpawnSendStep ==
  ASSUME BookInv, NEW r \in Request, SpawnSend(r)
  PROVE  BookInv'
<1>1. r \in Process /\ r # Interpreter
  BY TransfersAssumption DEF Process
<1>2. /\ AddTransaction(HashOf[r]) /\ UNCHANGED <<tables, crashes>>
      /\ session' = [session EXCEPT ![r] = NewSession]
  BY DEF SpawnSend
<1>3. Good(r, NewSession, row, status)
  BY <1>1, NewIsGood
<1> QED
  BY <1>1, <1>2, <1>3, ReceivedStep

\* A process dies with what it has not committed.
LEMMA CrashStep ==
  ASSUME BookInv, NEW p \in Process, Crash(p)
  PROVE  BookInv'
<1>1. /\ session' = [session EXCEPT ![p] = NewSession]
      /\ crashes < MaxCrashes /\ crashes' = crashes + 1
      /\ UNCHANGED <<l2side, tables>>
  BY DEF Crash
<1>2. crashes \in 0 .. MaxCrashes /\ overlapped \in BOOLEAN /\ MaxCrashes \in Nat
  BY TransfersAssumption DEF BookInv, TransfersTypeOK
<1>3. UNCHANGED <<l2side, books>> /\ overlapped' \in BOOLEAN
  BY <1>1, <1>2 DEF tables
<1>4. crashes' \in 0 .. MaxCrashes
  BY <1>1, <1>2
<1>5. Good(p, NewSession, row, status) /\ NewSession.at = "idle"
  BY NewIsGood DEF NewSession
<1> QED
  BY <1>1, <1>3, <1>4, <1>5, SessionStep

\* The interpreter takes up the first block.
LEMMA BeginBlockStep ==
  ASSUME BookInv, BeginBlock
  PROVE  BookInv'
<1> DEFINE b == [Mine EXCEPT !.at = "exec", !.txs = Head(chain)]
<1>1. /\ Mine.at = "idle" /\ chain # <<>>
      /\ session' = [session EXCEPT ![Interpreter] = b]
      /\ UNCHANGED <<l2side, tables, crashes>>
  BY DEF BeginBlock, Become
<1>2. /\ Interpreter \in Process /\ TransfersTypeOK
      /\ Good(Interpreter, Mine, row, status)
  BY DEF BookInv, Process, Mine
<1>3. Head(chain) \in Seq(Hash)
  <2> DEFINE Block == Seq(Hash)
  <2>1. chain \in Seq(Block)
    BY <1>2 DEF TransfersTypeOK
  <2> HIDE DEF Block
  <2>2. Head(chain) \in Block
    BY <1>1, <2>1, HeadOrTail
  <2> QED
    BY <2>2 DEF Block
<1>4. \A i \in DOMAIN Head(chain) : status[Head(chain)[i]] = "ACCEPTED_ON_L2"
  <2>1. Head(chain) = chain[1] /\ 1 \in DOMAIN chain
    BY <1>1, <1>2, HeadTailProperties, LenProperties DEF TransfersTypeOK
  <2> QED
    BY <2>1 DEF BookInv, Blocks
<1>5. Good(Interpreter, b, row, status)
  <2> DEFINE m == Mine
             q == Head(chain)
  <2>1. /\ Good(Interpreter, m, row, status) /\ m.at = "idle" /\ q \in Seq(Hash)
        /\ \A i \in DOMAIN q : status[q[i]] = "ACCEPTED_ON_L2"
    BY <1>1, <1>2, <1>3, <1>4
  <2> HIDE DEF m, q
  <2>2. Good(Interpreter, [m EXCEPT !.at = "exec", !.txs = q], row, status)
    BY <2>1, BeginIsGood
  <2> QED
    BY <2>2 DEF m, q
<1>6. UNCHANGED <<l2side, books>> /\ overlapped' \in BOOLEAN
      /\ crashes' \in 0 .. MaxCrashes
  BY <1>1, <1>2 DEF tables, TransfersTypeOK
<1> HIDE DEF b
<1> QED
  BY <1>1, <1>2, <1>5, <1>6, SessionStep

\* A step of the interpreter alone.
LEMMA BecomeStep ==
  ASSUME BookInv, NEW s, Become(s), Good(Interpreter, s, row, status),
         Mine.at # "idle", UNCHANGED <<l2side, books, crashes>>,
         overlapped' \in BOOLEAN
  PROVE  BookInv'
<1>1. /\ session' = [session EXCEPT ![Interpreter] = s] /\ chain # <<>>
      /\ Interpreter \in Process
  BY MineIsGood DEF Become
<1>2. UNCHANGED <<l2side, books>> /\ crashes' \in 0 .. MaxCrashes
  BY DEF BookInv, TransfersTypeOK
<1> QED
  BY <1>1, <1>2, SessionStep

\* It meets a transfer of the block, booked by the gateway or new to it.
LEMMA ExecTransferStep ==
  ASSUME BookInv, ExecTransfer
  PROVE  BookInv'
<1> DEFINE m == Mine
           h == Head(m.txs)
           rest == [m EXCEPT !.txs = Tail(m.txs)]
<1>1. /\ m.at = "exec" /\ m.txs # <<>>
      /\ UNCHANGED <<l2side, books, crashes>>
  BY DEF ExecTransfer
<1>2. Good(Interpreter, m, row, status) /\ Interpreter \in Process
      /\ TransfersTypeOK /\ BookedOnce
  BY MineIsGood DEF BookInv
<1>3. \/ /\ Seen(h) # NoRow
         /\ Become([rest EXCEPT !.rows[h] = "ACCEPTED_ON_L2"])
         /\ UNCHANGED overlapped
      \/ /\ Seen(h) = NoRow
         /\ Touch(Interpreter, h)
         /\ Become(Book(rest, h, "ACCEPTED_ON_L2"))
  BY DEF ExecTransfer
<1>4. m.at = Mine.at /\ \A g : Seen(g) = IF m.rows[g] = NoRow THEN row[g] ELSE m.rows[g]
  BY DEF Seen
<1>5. rest.at = "exec" /\ rest.rows = m.rows /\ rest.polled = m.polled
  BY <1>1, <1>2 DEF Good, Session
<1> DEFINE r == rest
<1> HIDE DEF m
<1>6. /\ Good(Interpreter, r, row, status)
      /\ h \in Hash /\ status[h] = "ACCEPTED_ON_L2"
  BY <1>1, <1>2, NextIsGood
<1>7. r.polled = {} /\ r.rows[h] # "REJECTED"
  BY <1>5, <1>6, TransfersAssumption DEF Good, Shape, Writes, Status
<1>8. r.at = "exec" /\ r.rows = m.rows
  BY <1>5
<1> HIDE DEF h, r
<1>9. CASE /\ Seen(h) # NoRow
           /\ Become([r EXCEPT !.rows[h] = "ACCEPTED_ON_L2"])
           /\ UNCHANGED overlapped
  <2>1. r.rows[h] = NoRow => row[h] \notin {NoRow, "REJECTED"}
    BY <1>2, <1>4, <1>6, <1>8, <1>9 DEF BookedOnce
  <2>2. "ACCEPTED_ON_L2" \in Status \ {"REJECTED"}
    BY DEF Status
  <2>3. Good(Interpreter, [r EXCEPT !.rows[h] = "ACCEPTED_ON_L2"], row, status)
    BY <1>6, <1>7, <1>8, <2>1, <2>2, RewriteIsGood
  <2>4. overlapped' \in BOOLEAN /\ Mine.at # "idle"
    BY <1>1, <1>2, <1>4, <1>9 DEF TransfersTypeOK
  <2> QED
    BY <1>1, <1>9, <2>3, <2>4, BecomeStep
<1>10. CASE /\ Seen(h) = NoRow
            /\ Touch(Interpreter, h)
            /\ Become(Book(r, h, "ACCEPTED_ON_L2"))
  <2>1. r.rows[h] = NoRow
    BY <1>4, <1>8, <1>10
  <2>2. Good(Interpreter, Book(r, h, "ACCEPTED_ON_L2"), row, status)
    BY <1>2, <1>6, <1>8, <2>1, BookIsGood
  <2>3. overlapped' \in BOOLEAN /\ Mine.at # "idle"
    BY <1>1, <1>4, <1>10, TouchTyped
  <2> QED
    BY <1>1, <1>10, <2>2, <2>3, BecomeStep
<1> QED
  BY <1>3, <1>9, <1>10 DEF r

\* It selects what the table has as unresolved.
LEMMA SelectUnresolvedStep ==
  ASSUME BookInv, SelectUnresolved
  PROVE  BookInv'
<1> DEFINE m == Mine
<1>1. /\ m.at = "exec" /\ UNCHANGED <<l2side, tables, crashes>>
      /\ \E S \in SUBSET Unresolved :
           Become([m EXCEPT !.at = "poll", !.polled = S])
  BY DEF SelectUnresolved
<1>2. Good(Interpreter, m, row, status) /\ TransfersTypeOK
  BY MineIsGood
<1>3. PICK S \in SUBSET Unresolved : Become([m EXCEPT !.at = "poll", !.polled = S])
  BY <1>1
<1>4. \A g : Seen(g) = IF m.rows[g] = NoRow THEN row[g] ELSE m.rows[g]
  BY DEF Seen
<1>5. \A h \in Hash : m.rows[h] \in {NoRow, "ACCEPTED_ON_L2"}
  BY <1>1, <1>2 DEF Good, Writes
<1>6. \A h \in S : h \in Hash /\ m.rows[h] = NoRow /\ row[h] \notin {NoRow, "REJECTED"}
  BY <1>3, <1>4, <1>5, TransfersAssumption DEF Unresolved, Status
<1>7. UNCHANGED <<l2side, books, crashes>> /\ overlapped' \in BOOLEAN
      /\ Mine.at # "idle"
  BY <1>1, <1>2 DEF tables, TransfersTypeOK
<1> HIDE DEF m
<1>8. Good(Interpreter, [m EXCEPT !.at = "poll", !.polled = S], row, status)
  BY <1>1, <1>2, <1>6, SelectIsGood
<1> QED
  BY <1>3, <1>7, <1>8, BecomeStep

\* It asks for the status of one of them and acts on the answer.
LEMMA PollTransferStep ==
  ASSUME BookInv, NEW h \in Hash, PollTransfer(h)
  PROVE  BookInv'
<1> DEFINE m == Mine
           r == [m EXCEPT !.polled = m.polled \ {h}]
<1>1. /\ m.at = "poll" /\ h \in m.polled /\ Mine.at # "idle"
      /\ UNCHANGED <<l2side, books, crashes>>
  BY DEF PollTransfer
<1>2. Good(Interpreter, m, row, status) /\ TransfersTypeOK
  BY MineIsGood
<1>3. \/ /\ status[h] = "NOT_RECEIVED"
         /\ Become([r EXCEPT !.at = "resend", !.hash = h])
         /\ UNCHANGED overlapped
      \/ /\ status[h] = "REJECTED"
         /\ Touch(Interpreter, h)
         /\ Become([r EXCEPT !.at = "refund", !.hash = h, !.todo = Sides(h),
                             !.rows[h] = "REJECTED"])
      \/ /\ status[h] \notin {"NOT_RECEIVED", "REJECTED"}
         /\ Become([r EXCEPT !.rows[h] = status[h]])
         /\ UNCHANGED overlapped
  BY DEF PollTransfer
<1>4. r.at = "poll" /\ r.rows = m.rows /\ h \notin r.polled
  BY <1>1, <1>2 DEF Good, Session
<1> HIDE DEF m
<1>5. Good(Interpreter, r, row, status)
  BY <1>1, <1>2, PollIsGood
<1>6. r.rows[h] = NoRow /\ row[h] \notin {NoRow, "REJECTED"}
  BY <1>1, <1>2, <1>4 DEF Good, Writes, Backed
<1>7. overlapped \in BOOLEAN /\ status[h] \in Status
  BY <1>2 DEF TransfersTypeOK
<1> HIDE DEF r
<1>8. CASE /\ status[h] = "NOT_RECEIVED"
           /\ Become([r EXCEPT !.at = "resend", !.hash = h])
           /\ UNCHANGED overlapped
  <2>1. Good(Interpreter, [r EXCEPT !.at = "resend", !.hash = h], row, status)
    BY <1>4, <1>5, ResendIsGood
  <2> QED
    BY <1>1, <1>7, <1>8, <2>1, BecomeStep
<1>9. CASE /\ status[h] = "REJECTED"
           /\ Touch(Interpreter, h)
           /\ Become([r EXCEPT !.at = "refund", !.hash = h, !.todo = Sides(h),
                               !.rows[h] = "REJECTED"])
  <2>1. Good(Interpreter,
             [r EXCEPT !.at = "refund", !.hash = h, !.todo = Sides(h),
                       !.rows[h] = "REJECTED"], row, status)
    BY <1>4, <1>5, <1>6, <1>9, RefundIsGood
  <2>2. overlapped' \in BOOLEAN
    BY <1>9, TouchTyped
  <2> QED
    BY <1>1, <1>9, <2>1, <2>2, BecomeStep
<1>10. CASE /\ status[h] \notin {"NOT_RECEIVED", "REJECTED"}
            /\ Become([r EXCEPT !.rows[h] = status[h]])
            /\ UNCHANGED overlapped
  <2> DEFINE v == status[h]
  <2>1. v \in Status \ {"REJECTED"} /\ r.rows[h] # "REJECTED"
    BY <1>6, <1>7, <1>10, TransfersAssumption DEF Status
  <2> HIDE DEF v
  <2>2. Good(Interpreter, [r EXCEPT !.rows[h] = v], row, status)
    BY <1>4, <1>5, <1>6, <2>1, RewriteIsGood
  <2> QED
    BY <1>1, <1>7, <1>10, <2>2, BecomeStep DEF v
<1> QED
  BY <1>3, <1>8, <1>9, <1>10

\* It sends a transfer again that L2 has not received.
LEMMA ResendStep ==
  ASSUME BookInv, Resend
  PROVE  BookInv'
<1> DEFINE m == Mine
           b == [m EXCEPT !.at = "poll"]
<1>1. /\ m.at = "resend" /\ AddTransaction(m.hash)
      /\ session' = [session EXCEPT ![Interpreter] = b]
      /\ UNCHANGED <<tables, crashes>>
  BY DEF Resend, Become
<1>2. /\ Good(Interpreter, m, row, status) /\ chain # <<>>
      /\ Interpreter \in Process
  BY <1>1, MineIsGood
<1>3. m.hash \in Hash
  BY <1>1, <1>2 DEF Good, Shape
<1> HIDE DEF m
<1>4. Good(Interpreter, b, row, status)
  BY <1>1, <1>2, <1>3, ResendIsGood
<1> HIDE DEF b
<1> QED
  BY <1>1, <1>2, <1>4, ReceivedStep


\* What a commit without a conflict does to one transfer: it is booked if the
\* session booked it, taken back if the session took it back, and not twice.
LEMMA Flushed ==
  ASSUME BookInv, NEW p \in Process, NEW s, s = session[p],
         s.at \in {"booked", "poll"}, ~Conflict(s), Flush(s), NEW h \in Hash
  PROVE  /\ row'[h] = IF s.rows[h] = NoRow THEN row[h] ELSE s.rows[h]
         /\ row'[h] \in Status \cup {NoRow}
         /\ h \in s.applies => row[h] = NoRow /\ row'[h] \notin {NoRow, "REJECTED"}
         /\ h \in s.refunds => /\ row[h] \notin {NoRow, "REJECTED"}
                               /\ row'[h] = "REJECTED" /\ status[h] = "REJECTED"
                               /\ h \notin s.applies
         /\ h \notin s.applies \cup s.refunds =>
              /\ row'[h] = NoRow <=> row[h] = NoRow
              /\ row'[h] = "REJECTED" <=> row[h] = "REJECTED"
         /\ applied'[h] = applied[h] + IF h \in s.applies THEN 1 ELSE 0
         /\ refunded'[h] = refunded[h] + IF h \in s.refunds THEN 1 ELSE 0
<1>1. Good(p, s, row, status) /\ TransfersTypeOK
  BY DEF BookInv
<1>2. s.rows \in [Hash -> Status \cup {NoRow}] /\ row[h] \in Status \cup {NoRow}
  BY <1>1 DEF Good, Session, TransfersTypeOK
<1>3. row'[h] = IF s.rows[h] = NoRow THEN row[h] ELSE s.rows[h]
  BY DEF Flush
<1>4. /\ applied'[h] = applied[h] + IF h \in s.applies THEN 1 ELSE 0
      /\ refunded'[h] = refunded[h] + IF h \in s.refunds THEN 1 ELSE 0
  BY DEF Flush
<1>5. ASSUME h \in s.applies
      PROVE  /\ row[h] = NoRow /\ s.rows[h] \notin {NoRow, "REJECTED"}
             /\ h \notin s.refunds
  <2>1. row[h] = NoRow
    BY <1>5 DEF Conflict
  <2>2. s.rows[h] \notin {NoRow, "REJECTED"} /\ h \notin s.refunds
    BY <1>1, <1>5 DEF Good, Writes, Applying
  <2> QED
    BY <2>1, <2>2
<1>6. ASSUME h \notin s.applies
      PROVE  /\ s.rows[h] # NoRow => row[h] \notin {NoRow, "REJECTED"}
             /\ s.rows[h] = "REJECTED" <=> h \in s.refunds
             /\ s.rows[h] = "REJECTED" => status[h] = "REJECTED"
  BY <1>1, <1>6 DEF Good, Writes, Backed, Applying
<1>7. NoRow # "REJECTED"
  BY TransfersAssumption DEF Status
<1> QED
  BY <1>2, <1>3, <1>4, <1>5, <1>6, <1>7

\* A commit, after which the session begins anew.
LEMMA FlushStep ==
  ASSUME BookInv, NEW p \in Process, session[p].at \in {"booked", "poll"},
         ~Conflict(session[p]), Flush(session[p]),
         NEW n, session' = [session EXCEPT ![p] = n],
         n = NewSession
           \/ (p # Interpreter /\ n = [NewSession EXCEPT !.at = "spawn"]),
         UNCHANGED <<status, l2, pending, crashes>>,
         chain' = IF p = Interpreter THEN Tail(chain) ELSE chain
  PROVE  BookInv'
<1> DEFINE s == session[p]
<1>1. Good(p, s, row, status) /\ TransfersTypeOK /\ BookedOnce /\ Blocks
  BY DEF BookInv
<1>2. session \in [Process -> Session] /\ Interpreter \in Process
  BY <1>1 DEF TransfersTypeOK, Process
<1>3. \A q \in Process : session'[q] = IF q = p THEN n ELSE session[q]
  BY <1>2
<1>4. \A h \in Hash :
         /\ row'[h] = IF s.rows[h] = NoRow THEN row[h] ELSE s.rows[h]
         /\ row'[h] \in Status \cup {NoRow}
         /\ h \in s.applies => row[h] = NoRow /\ row'[h] \notin {NoRow, "REJECTED"}
         /\ h \in s.refunds => /\ row[h] \notin {NoRow, "REJECTED"}
                               /\ row'[h] = "REJECTED" /\ status[h] = "REJECTED"
                               /\ h \notin s.applies
         /\ h \notin s.applies \cup s.refunds =>
              /\ row'[h] = NoRow <=> row[h] = NoRow
              /\ row'[h] = "REJECTED" <=> row[h] = "REJECTED"
         /\ applied'[h] = applied[h] + IF h \in s.applies THEN 1 ELSE 0
         /\ refunded'[h] = refunded[h] + IF h \in s.refunds THEN 1 ELSE 0
  BY Flushed
<1>5. BookedOnce'
  <2> SUFFICES ASSUME NEW h \in Hash
               PROVE  /\ applied'[h] = IF row'[h] = NoRow THEN 0 ELSE 1
                      /\ refunded'[h] = IF row'[h] = "REJECTED" THEN 1 ELSE 0
                      /\ row'[h] = "REJECTED" => status'[h] = "REJECTED"
    BY DEF BookedOnce
  <2>1. /\ applied[h] = IF row[h] = NoRow THEN 0 ELSE 1
        /\ refunded[h] = IF row[h] = "REJECTED" THEN 1 ELSE 0
        /\ row[h] = "REJECTED" => status[h] = "REJECTED"
    BY <1>1 DEF BookedOnce
  <2>2. NoRow # "REJECTED" /\ status' = status
    BY TransfersAssumption DEF Status
  <2> HIDE DEF s
  <2>3. applied'[h] = IF row'[h] = NoRow THEN 0 ELSE 1
    BY <1>4, <2>1, <2>2
  <2>4. refunded'[h] = IF row'[h] = "REJECTED" THEN 1 ELSE 0
    BY <1>4, <2>1, <2>2
  <2>5. row'[h] = "REJECTED" => status'[h] = "REJECTED"
    BY <1>4, <2>1, <2>2
  <2> QED
    BY <2>3, <2>4, <2>5
<1>6. n \in Session /\ Good(p, n, row', status')
  BY NewIsGood DEF Good
<1>7. ASSUME NEW q \in Process, q # p
      PROVE  Good(q, session[q], row', status')
  <2> DEFINE x == session[q]
             rw2 == row'
             st2 == status'
  <2>1. Good(q, x, row, status)
    BY DEF BookInv
  <2>2. \A h \in Hash : status[h] \in {"REJECTED", "ACCEPTED_ON_L2"}
                          => st2[h] = status[h]
    OBVIOUS
  <2>3. \A h \in Hash : q = Interpreter /\ row[h] \notin {NoRow, "REJECTED"}
                          => rw2[h] \notin {NoRow, "REJECTED"}
    <3> SUFFICES ASSUME NEW h \in Hash, q = Interpreter,
                        row[h] \notin {NoRow, "REJECTED"}
                 PROVE  row'[h] \notin {NoRow, "REJECTED"}
      OBVIOUS
    <3>1. h \notin s.refunds
      BY <1>1, <1>7, <1>4 DEF Good, Writes, Backed, Applying
    <3>2. h \notin s.applies
      BY <1>4
    <3> QED
      BY <1>4, <3>1, <3>2
  <2> HIDE DEF x, rw2, st2
  <2>4. Good(q, x, rw2, st2)
    BY <2>1, <2>2, <2>3, GoodKept
  <2> QED
    BY <2>4 DEF x, rw2, st2
<1>8. /\ chain' \in Seq(Seq(Hash))
      /\ \A i \in DOMAIN chain' : \A j \in DOMAIN chain'[i] :
           status[chain'[i][j]] = "ACCEPTED_ON_L2"
      /\ p # Interpreter => chain' = chain
  <2>1. CASE p # Interpreter
    BY <1>1, <2>1 DEF TransfersTypeOK, Blocks
  <2>2. CASE p = Interpreter
    <3> DEFINE Block == Seq(Hash)
    <3>1. chain \in Seq(Block) /\ chain # <<>> /\ chain' = Tail(chain)
      BY <1>1, <2>2 DEF TransfersTypeOK, Blocks, Mine
    <3> HIDE DEF Block
    <3>2. /\ chain' \in Seq(Block)
          /\ \A i \in DOMAIN chain' : chain'[i] = chain[i + 1] /\ i + 1 \in DOMAIN chain
      BY <3>1, HeadOrTail
    <3>3. chain' \in Seq(Seq(Hash))
      BY <3>2 DEF Block
    <3> QED
      BY <1>1, <2>2, <3>2, <3>3 DEF Blocks
  <2> QED
    BY <2>1, <2>2
<1>9. /\ \A i \in DOMAIN pending' : status'[pending'[i]] = "PENDING"
      /\ Mine'.at # "idle" => chain' # <<>>
  <2>1. p = Interpreter => Mine'.at = "idle"
    BY <1>2, <1>3 DEF Mine, NewSession
  <2>2. p # Interpreter => Mine' = Mine
    BY <1>2, <1>3 DEF Mine
  <2> QED
    BY <1>1, <1>8, <2>1, <2>2 DEF Blocks
<1>10. /\ row' \in [Hash -> Status \cup {NoRow}]
       /\ applied' \in [Hash -> Nat] /\ refunded' \in [Hash -> Nat]
  <2>1. /\ row' = [h \in Hash |-> row'[h]]
        /\ applied' = [h \in Hash |-> applied'[h]]
        /\ refunded' = [h \in Hash |-> refunded'[h]]
    BY DEF Flush
  <2>2. \A h \in Hash : applied'[h] \in Nat /\ refunded'[h] \in Nat
    BY <1>5 DEF BookedOnce
  <2>3. \A h \in Hash : row'[h] \in Status \cup {NoRow}
    BY <1>4
  <2> QED
    BY <2>1, <2>2, <2>3
<1>11. balance' \in [Account -> Int \cup {NoRow}]
  <2>1. s.loaded \in [Account -> Int \cup {NoRow}]
    BY <1>1 DEF Good, Session
  <2>2. balance \in [Account -> Int \cup {NoRow}]
    BY <1>1 DEF TransfersTypeOK
  <2>3. balance' = [a \in Account |-> IF s.loaded[a] = NoRow
                                      THEN balance[a] ELSE s.loaded[a]]
    BY DEF Flush
  <2> HIDE DEF s
  <2> QED
    BY <2>1, <2>2, <2>3
<1>12. session' \in [Process -> Session] /\ account' \in [Account -> Nat]
  <2>1. account \in [Account -> Nat]
    BY <1>1 DEF TransfersTypeOK
  <2>2. account' = [a \in Account |-> account[a] + IF a \in s.opened THEN 1 ELSE 0]
    BY DEF Flush
  <2> HIDE DEF s
  <2> QED
    BY <1>2, <1>6, <2>1, <2>2
<1>13. TransfersTypeOK'
  <2>1. overlapped' = overlapped
    BY DEF Flush
  <2>2. /\ status' \in [Hash -> Status] /\ l2' \in [Account -> Int]
        /\ pending' \in Seq(Hash)
        /\ overlapped' \in BOOLEAN /\ crashes' \in 0 .. MaxCrashes
    BY <1>1, <2>1 DEF TransfersTypeOK
  <2> QED
    BY <1>8, <1>10, <1>11, <1>12, <2>2 DEF TransfersTypeOK
<1>14. Blocks'
  <2>1. \A i \in DOMAIN chain' : \A j \in DOMAIN chain'[i] :
          status'[chain'[i][j]] = "ACCEPTED_ON_L2"
    BY <1>8
  <2> QED
    BY <1>9, <2>1, Zenon DEF Blocks
<1>15. \A q \in Process : Good(q, session'[q], row', status')
  BY <1>3, <1>6, <1>7
<1> QED
  BY <1>5, <1>13, <1>14, <1>15 DEF BookInv

\* A request commits, or fails.
LEMMA CommitRequestStep ==
  ASSUME BookInv, NEW r \in Request, CommitRequest(r)
  PROVE  BookInv'
<1>1. r \in Process /\ r # Interpreter /\ TransfersTypeOK
  BY TransfersAssumption DEF Process, BookInv
<1>2. session[r].at = "booked" /\ UNCHANGED <<l2side, crashes>>
  BY DEF CommitRequest
<1>3. UNCHANGED <<status, l2, pending, crashes>>
      /\ chain' = IF r = Interpreter THEN Tail(chain) ELSE chain
  BY <1>1, <1>2 DEF l2side
<1>4. CASE /\ Conflict(session[r]) /\ UNCHANGED tables
           /\ session' = [session EXCEPT ![r] = NewSession]
  <2>1. UNCHANGED <<l2side, books>> /\ overlapped' \in BOOLEAN
        /\ crashes' \in 0 .. MaxCrashes
    BY <1>1, <1>2, <1>4 DEF tables, TransfersTypeOK
  <2>2. Good(r, NewSession, row, status)
    BY <1>1, NewIsGood
  <2> QED
    BY <1>1, <1>4, <2>1, <2>2, SessionStep
<1>5. CASE /\ ~Conflict(session[r]) /\ Flush(session[r])
           /\ session' = [session EXCEPT ![r] = [NewSession EXCEPT !.at = "spawn"]]
  BY <1>1, <1>2, <1>3, <1>5, FlushStep
<1> QED
  BY <1>4, <1>5 DEF CommitRequest

\* The interpreter commits the block, or dies and comes back to it.
LEMMA CommitBlockStep ==
  ASSUME BookInv, CommitBlock
  PROVE  BookInv'
<1>1. Interpreter \in Process /\ TransfersTypeOK
  BY MineIsGood
<1>2. /\ session[Interpreter].at = "poll" /\ UNCHANGED <<status, l2, pending, crashes>>
      /\ session' = [session EXCEPT ![Interpreter] = NewSession]
  BY DEF CommitBlock, Mine, Become
<1>3. CASE Conflict(Mine) /\ UNCHANGED <<tables, chain>>
  <2>1. UNCHANGED <<l2side, books>> /\ overlapped' \in BOOLEAN
        /\ crashes' \in 0 .. MaxCrashes
    BY <1>1, <1>2, <1>3 DEF tables, l2side, TransfersTypeOK
  <2>2. Good(Interpreter, NewSession, row, status) /\ NewSession.at = "idle"
    BY <1>1, NewIsGood DEF NewSession
  <2> QED
    BY <1>1, <1>2, <2>1, <2>2, SessionStep
<1>4. CASE ~Conflict(Mine) /\ Flush(Mine) /\ chain' = Tail(chain)
  BY <1>1, <1>2, <1>4, FlushStep DEF Mine
<1> QED
  BY <1>3, <1>4 DEF CommitBlock

\* Every step preserves it.
LEMMA BookStep == BookInv /\ [Next]_vars => BookInv'
<1> SUFFICES ASSUME BookInv, [Next]_vars PROVE BookInv'
  OBVIOUS
<1>1. CASE UNCHANGED vars
  <2>1. UNCHANGED <<l2side, books, crashes>> /\ UNCHANGED overlapped
        /\ UNCHANGED session
    BY <1>1 DEF vars, tables
  <2>2. overlapped' \in BOOLEAN /\ crashes' \in 0 .. MaxCrashes
    BY <2>1 DEF BookInv, TransfersTypeOK
  <2> QED
    BY <2>1, <2>2, Unmoved, SessionStep
<1>2. CASE InterpreterStep
  <2>1. CASE BeginBlock
    BY <2>1, BeginBlockStep
  <2>2. CASE ExecTransfer
    BY <2>2, ExecTransferStep
  <2>3. CASE SelectUnresolved
    BY <2>3, SelectUnresolvedStep
  <2>4. CASE Resend
    BY <2>4, ResendStep
  <2>5. CASE CommitBlock
    BY <2>5, CommitBlockStep
  <2>6. CASE \E h \in Hash : PollTransfer(h)
    BY <2>6, PollTransferStep
  <2>7. CASE LiftAccount(Interpreter) \/ LiftBalance(Interpreter)
    BY <2>7, LiftAccountStep, LiftBalanceStep DEF Process
  <2>8. CASE ApplyTransfer(Interpreter)
    BY <2>8, ApplyTransferStep DEF Process
  <2>9. CASE ApplyReject(Interpreter)
    BY <2>9, ApplyRejectStep DEF Process
  <2> QED
    BY <1>2, <2>1, <2>2, <2>3, <2>4, <2>5, <2>6, <2>7, <2>8, <2>9
       DEF InterpreterStep
<1>3. ASSUME NEW r \in Request, RequestStep(r) PROVE BookInv'
  <2>1. CASE TransferRequest(r)
    BY <2>1, TransferRequestStep
  <2>2. CASE CommitRequest(r)
    BY <2>2, CommitRequestStep
  <2>3. CASE SpawnSend(r)
    BY <2>3, SpawnSendStep
  <2>4. CASE LiftAccount(r) \/ LiftBalance(r)
    BY <2>4, LiftAccountStep, LiftBalanceStep DEF Process
  <2>5. CASE ApplyTransfer(r)
    BY <2>5, ApplyTransferStep DEF Process
  <2> QED
    BY <1>3, <2>1, <2>2, <2>3, <2>4, <2>5 DEF RequestStep
<1>4. ASSUME NEW h \in Hash, SendDirectly(h) \/ Decide(h) PROVE BookInv'
  BY <1>4, SendDirectlyStep, ExecuteStep, RejectStep DEF Decide
<1>5. CASE Publish
  BY <1>5, PublishStep
<1>6. ASSUME NEW p \in Process, Crash(p) PROVE BookInv'
  BY <1>6, CrashStep
<1>7. ASSUME NEW a \in Account, LiftElsewhere(a) PROVE BookInv'
  BY <1>7, LiftElsewhereStep
<1> QED
  BY <1>1, <1>2, <1>3, <1>4, <1>5, <1>6, <1>7 DEF Next

\* The invariant of the books.
LEMMA BookAlways == Spec => []BookInv
BY BookStart, BookStep, PTL DEF Spec

\* The state of the database, of the sequencer and of every session is always
\* of its type.
THEOREM TransfersTyped == Spec => []TransfersTypeOK
<1>1. BookInv => TransfersTypeOK
  BY DEF BookInv
<1> QED
  BY <1>1, BookAlways, PTL

\* A transfer is booked at most once, by whichever process comes first, and
\* taken back at most once, if and only if the database calls it rejected; and
\* L2 has rejected what the database calls rejected.
THEOREM BooksTransfersOnce == Spec => []BookedOnce
<1>1. BookInv => BookedOnce
  BY DEF BookInv
<1> QED
  BY <1>1, BookAlways, PTL

-----------------------------------------------------------------------------
(***************************************************************************)
(* Who has a balance, or a transfer in the books, has a row in the table   *)
(* of accounts: what a session works with is there, or it inserts it.      *)
(***************************************************************************)
Opened(s, ac, a) == ac[a] > 0 \/ a \in s.opened

Rooted(s, ac) ==
  /\ \A a \in Loaded(s) : Opened(s, ac, a)
  /\ s.at \in {"lift", "refund"} => \A a \in Parties(s.hash) : Opened(s, ac, a)
  /\ s.at = "account" /\ Len(s.todo) = 3 => Opened(s, ac, Terms[s.hash].from)

RootInv ==
  /\ \A h \in Hash : row[h] # NoRow => \A a \in Parties(h) : account[a] > 0
  /\ \A a \in Account : balance[a] # NoRow => account[a] > 0
  /\ \A p \in Process : Rooted(session[p], account)

\* A session that works with nothing.
LEMMA NewRooted ==
  ASSUME NEW s, s = NewSession \/ s = [NewSession EXCEPT !.at = "spawn"], NEW ac
  PROVE  Rooted(s, ac)
<1>1. s.at \in {"idle", "spawn"} /\ \A a \in Account : s.loaded[a] = NoRow
  BY DEF NewSession
<1> QED
  BY <1>1 DEF Rooted, Loaded

\* At the start who has a balance has an account.
LEMMA RootStart == Init => RootInv
<1> SUFFICES ASSUME Init PROVE RootInv
  OBVIOUS
<1>1. \A p \in Process : Rooted(session[p], account)
  BY NewRooted DEF Init
<1>2. \A a \in Account : balance[a] # NoRow => account[a] > 0
  BY DEF Init, Row
<1> QED
  BY <1>1, <1>2 DEF Init, RootInv

\* The steps of one session that leave the tables alone.
LEMMA RootSession ==
  ASSUME BookInv, RootInv, NEW p \in Process, NEW s,
         session' = [session EXCEPT ![p] = s], UNCHANGED <<row, account, balance>>,
         Rooted(s, account)
  PROVE  RootInv'
<1>1. \A q \in Process : session'[q] = IF q = p THEN s ELSE session[q]
  BY DEF BookInv, TransfersTypeOK
<1>2. \A q \in Process : Rooted(session'[q], account')
  BY <1>1 DEF RootInv
<1> QED
  BY <1>2 DEF RootInv

\* A session that only moves on, to a point where it lifts nothing.
LEMMA RootMoved ==
  ASSUME BookInv, RootInv, NEW p \in Process, NEW s,
         session' = [session EXCEPT ![p] = s], UNCHANGED <<row, account, balance>>,
         \/ s = NewSession
         \/ /\ Loaded(s) \subseteq Loaded(session[p])
            /\ s.opened = session[p].opened
            /\ s.at \notin {"lift", "refund"}
            /\ s.at = "account" => Len(s.todo) = 4
         \/ /\ Loaded(s) \subseteq Loaded(session[p])
            /\ s.opened = session[p].opened
            /\ s.at = "refund" /\ s.hash \in Hash /\ row[s.hash] # NoRow
  PROVE  RootInv'
<1>1. Rooted(session[p], account)
  BY DEF RootInv
<1>2. CASE s = NewSession
  BY <1>2, NewRooted, RootSession
<1>3. CASE s # NewSession
  <2>1. /\ Loaded(s) \subseteq Loaded(session[p])
        /\ s.opened = session[p].opened
    BY <1>3
  <2>2. \A a \in Loaded(s) : Opened(s, account, a)
    BY <1>1, <2>1 DEF Rooted, Opened
  <2>3. s.at \in {"lift", "refund"} => \A a \in Parties(s.hash) : Opened(s, account, a)
    BY <1>3 DEF RootInv, Opened
  <2>4. Rooted(s, account)
    BY <1>3, <2>2, <2>3 DEF Rooted
  <2> QED
    BY <2>4, RootSession
<1> QED
  BY <1>2, <1>3

\* An account is lifted: it has a row now, or the session inserts one.
LEMMA RootLiftAccount ==
  ASSUME BookInv, RootInv, NEW p \in Process, LiftAccount(p)
  PROVE  RootInv'
<1> DEFINE s == session[p]
           a == Head(s.todo)
           O == IF RowsFound(s, a) = 0 THEN s.opened \cup {a} ELSE s.opened
           b == [s EXCEPT !.todo = Tail(s.todo),
                          !.at = IF Len(s.todo) = 3 THEN "lift" ELSE "account",
                          !.opened = O]
<1>1. /\ s.at = "account"
      /\ session' = [session EXCEPT ![p] =
                       IF RowsFound(s, a) > 1 THEN NewSession ELSE b]
      /\ UNCHANGED <<row, account, balance>>
  BY DEF LiftAccount, tables, books
<1>2. Good(p, s, row, status) /\ TransfersTypeOK /\ Rooted(s, account)
  BY DEF BookInv, RootInv
<1>3. O = s.opened \/ O = s.opened \cup {a}
  OBVIOUS
<1>4. /\ s.hash \in Hash /\ s.todo \in Seq(Account) /\ Lifting(s.todo, s.hash)
  BY <1>1, <1>2 DEF Good, Shape, Session
<1>5. /\ Len(s.todo) = 4 => /\ a = Terms[s.hash].from
                            /\ Len(Tail(s.todo)) = 3
      /\ Len(s.todo) = 3 => a = Terms[s.hash].to
      /\ Len(s.todo) \in {3, 4}
  BY <1>4, LiftingParties
<1>6. a \in Account => account[a] > 0 \/ a \in O
  BY <1>2 DEF RowsFound, TransfersTypeOK
<1> HIDE DEF O
<1>7. /\ b.loaded = s.loaded /\ b.hash = s.hash /\ b.opened = O
      /\ b.todo = Tail(s.todo)
      /\ b.at = IF Len(s.todo) = 3 THEN "lift" ELSE "account"
      /\ a \in Account
  <2>1. a \in Account
    BY <1>4, LiftingParties, HeadOrTail
  <2>2. s \in Session
    BY <1>2 DEF Good
  <2> QED
    BY <2>1, <2>2 DEF Session
<1> HIDE DEF s, a, b
<1>8. CASE session' = [session EXCEPT ![p] = b]
  <2>1. \A x \in Account : Opened(s, account, x) => Opened(b, account, x)
    BY <1>3, <1>7 DEF Opened
  <2>2. Opened(b, account, a)
    BY <1>6, <1>7 DEF Opened
  <2>3. \A x \in Loaded(b) : Opened(b, account, x)
    BY <1>2, <1>7, <2>1 DEF Rooted, Loaded
  <2>4. b.at = "lift" => \A x \in Parties(b.hash) : Opened(b, account, x)
    <3>1. Terms[s.hash].from \in Account
      BY <1>4, TransfersAssumption
    <3>2. Len(s.todo) = 3 => Opened(b, account, Terms[s.hash].from)
      BY <1>1, <1>2, <2>1, <3>1 DEF Rooted
    <3> QED
      BY <1>5, <1>7, <2>2, <3>2 DEF Parties
  <2>5. b.at = "account" => Opened(b, account, Terms[b.hash].from)
    BY <1>5, <1>7, <2>2
  <2>6. Rooted(b, account)
    BY <1>7, <2>3, <2>4, <2>5 DEF Rooted
  <2> QED
    BY <1>1, <1>8, <2>6, RootSession
<1>9. CASE session' = [session EXCEPT ![p] = NewSession]
  BY <1>1, <1>9, RootMoved
<1> QED
  BY <1>1, <1>8, <1>9

\* A balance is lifted, of one of the two whose accounts are.
LEMMA RootLiftBalance ==
  ASSUME BookInv, RootInv, NEW p \in Process, LiftBalance(p)
  PROVE  RootInv'
<1> DEFINE s == session[p]
           a == Head(s.todo)
           none == a \in s.opened \/ balance[a] = NoRow
           v == IF s.loaded[a] # NoRow THEN s.loaded[a]
                ELSE IF none THEN 0 ELSE balance[a]
           F == IF s.loaded[a] = NoRow /\ none
                THEN s.fresh \cup {a} ELSE s.fresh
           b == [s EXCEPT !.todo = Tail(s.todo), !.loaded[a] = v, !.fresh = F]
<1>1. /\ s.at \in {"lift", "refund"} /\ s.todo # <<>>
      /\ session' = [session EXCEPT ![p] = b]
      /\ UNCHANGED <<row, account, balance>>
  BY DEF LiftBalance, tables, books
<1>2. /\ Good(p, s, row, status) /\ s \in Session /\ TransfersTypeOK
      /\ Rooted(s, account)
  BY DEF BookInv, Good, RootInv
<1>3. s.todo \in Seq(Account) /\ s.fresh \subseteq Account
      /\ s.loaded \in [Account -> Int \cup {NoRow}]
  BY <1>2 DEF Session
<1>4. a \in Account
  BY <1>1, <1>3, HeadOrTail
<1>5. v \in Int /\ (s.loaded[a] # NoRow => v = s.loaded[a]) /\ F \in SUBSET Account
  BY <1>2, <1>3, <1>4 DEF TransfersTypeOK
<1> HIDE DEF v, F
<1>6. /\ b.opened = s.opened /\ b.at = s.at /\ b.hash = s.hash
      /\ a \in Parties(s.hash) /\ Loaded(b) \subseteq Loaded(s) \cup {a}
  <2>1. a \in Range(s.todo) /\ Range(s.todo) \subseteq Parties(s.hash)
    BY <1>1, <1>2, <1>3, HeadOrTail DEF Good, Shape
  <2>2. /\ b.opened = s.opened /\ b.at = s.at /\ b.hash = s.hash
        /\ \A x \in Account : b.loaded[x] = IF x = a THEN v ELSE s.loaded[x]
    BY <1>2 DEF Session
  <2> QED
    BY <2>1, <2>2 DEF Loaded
<1> HIDE DEF s, a, b
<1>7. \A x : Opened(b, account, x) <=> Opened(s, account, x)
  BY <1>6 DEF Opened
<1>8. Rooted(b, account)
  BY <1>1, <1>2, <1>6, <1>7 DEF Rooted
<1> QED
  BY <1>1, <1>8, RootSession

\* A transfer is made, or unmade, in balances that the session has.
LEMMA RootMake ==
  ASSUME BookInv, RootInv, NEW p \in Process,
         ApplyTransfer(p) \/ ApplyReject(p)
  PROVE  RootInv'
<1> DEFINE s == session[p]
           t == Terms[s.hash]
           b == [s EXCEPT !.at = IF p = Interpreter THEN "exec" ELSE "booked",
                          !.loaded = Moved(s.loaded, t.from, t.to, t.amount),
                          !.applies = s.applies \cup {s.hash}]
           c == [s EXCEPT !.at = "poll",
                          !.loaded = Moved(s.loaded, t.to, t.from, t.amount),
                          !.refunds = s.refunds \cup {s.hash}]
<1>1. /\ s.at \in {"lift", "refund"} /\ s.todo = <<>>
      /\ session' = [session EXCEPT ![p] = b] \/ session' = [session EXCEPT ![p] = c]
      /\ UNCHANGED <<row, account, balance>>
  BY DEF ApplyTransfer, ApplyReject, tables, books
<1>2. Good(p, s, row, status) /\ s \in Session
  BY DEF BookInv, Good
<1>3. /\ s.hash \in Hash /\ s.loaded[t.from] \in Int /\ s.loaded[t.to] \in Int
  <2> HIDE DEF s
  <2> QED
    BY <1>1, <1>2, MoveIsGood, Zenon
<1>4. t.from \in Account /\ t.to \in Account /\ t.amount \in Nat
  BY <1>3, TransfersAssumption
<1>5. s.loaded = [x \in Account |-> s.loaded[x]] /\ NoRow \notin Int
  BY <1>2, TransfersAssumption DEF Session
<1>6. ASSUME NEW x \in {t.from, t.to}, NEW y \in {t.from, t.to}, NEW z \in Account,
             Moved(s.loaded, x, y, t.amount)[z] # NoRow
      PROVE  s.loaded[z] # NoRow
  <2> DEFINE l == s.loaded
             m == Moved(l, x, y, t.amount)
  <2>1. l = [i \in Account |-> l[i]] /\ l[x] \in Int /\ l[y] \in Int
        /\ x \in Account /\ y \in Account
    BY <1>3, <1>4, <1>5
  <2> HIDE DEF l
  <2>2. z \notin {x, y} => m[z] = l[z]
    BY <1>4, <2>1, MovedOf
  <2>3. l[z] # NoRow
    BY <1>5, <1>6, <2>1, <2>2 DEF l
  <2> QED
    BY <2>3 DEF l
<1>7. /\ b.opened = s.opened /\ b.at \in {"exec", "booked"}
      /\ b.loaded = Moved(s.loaded, t.from, t.to, t.amount)
      /\ c.opened = s.opened /\ c.at = "poll"
      /\ c.loaded = Moved(s.loaded, t.to, t.from, t.amount)
  BY <1>2 DEF Session
<1> HIDE DEF b, c
<1>8. Loaded(b) \subseteq Loaded(s) /\ Loaded(c) \subseteq Loaded(s)
  BY <1>6, <1>7 DEF Loaded
<1> HIDE DEF s
<1>9. /\ Loaded(b) \subseteq Loaded(session[p]) /\ Loaded(c) \subseteq Loaded(session[p])
      /\ b.opened = session[p].opened /\ c.opened = session[p].opened
  BY <1>7, <1>8 DEF s
<1>10. CASE session' = [session EXCEPT ![p] = b]
  BY <1>1, <1>7, <1>9, <1>10, RootMoved
<1>11. CASE session' = [session EXCEPT ![p] = c]
  BY <1>1, <1>7, <1>9, <1>11, RootMoved
<1> QED
  BY <1>1, <1>10, <1>11

\* A row that is inserted is there for every session.
LEMMA RootedGrows ==
  ASSUME NEW p \in Process, NEW x, NEW rw, NEW st, Good(p, x, rw, st),
         NEW ac, NEW ac2, Rooted(x, ac),
         \A a \in Account : ac[a] > 0 => ac2[a] > 0
  PROVE  Rooted(x, ac2)
<1>1. x.at \in {"account", "lift", "refund"} => x.hash \in Hash
  BY DEF Good, Shape
<1>2. \A a \in Account : Opened(x, ac, a) => Opened(x, ac2, a)
  BY DEF Opened
<1>3. \A h \in Hash : Parties(h) \subseteq Account /\ Terms[h].from \in Account
  BY TransfersAssumption DEF Parties
<1> QED
  BY <1>1, <1>2, <1>3 DEF Rooted, Loaded

\* A commit writes the accounts with what needs them.
LEMMA RootFlush ==
  ASSUME BookInv, RootInv, NEW p \in Process, session[p].at \in {"booked", "poll"},
         ~Conflict(session[p]), Flush(session[p]),
         NEW n, session' = [session EXCEPT ![p] = n],
         n = NewSession \/ n = [NewSession EXCEPT !.at = "spawn"]
  PROVE  RootInv'
<1> DEFINE s == session[p]
<1>1. /\ Good(p, s, row, status) /\ TransfersTypeOK /\ Rooted(s, account)
      /\ s \in Session
  BY DEF BookInv, RootInv, Good
<1>2. /\ account \in [Account -> Nat]
      /\ account' = [a \in Account |-> account[a] + IF a \in s.opened THEN 1 ELSE 0]
      /\ balance' = [a \in Account |-> IF s.loaded[a] = NoRow
                                       THEN balance[a] ELSE s.loaded[a]]
  BY <1>1 DEF Flush, TransfersTypeOK
<1>3. \A h \in Hash :
         /\ h \in s.refunds => row[h] # NoRow
         /\ h \notin s.applies \cup s.refunds => (row'[h] = NoRow <=> row[h] = NoRow)
  BY Flushed
<1>4. \A h \in s.applies : Parties(h) \subseteq Loaded(s)
  BY <1>1 DEF Good, Shape
<1>5. \A q \in Process : session'[q] = IF q = p THEN n ELSE session[q]
  BY <1>1 DEF TransfersTypeOK
<1> HIDE DEF s
<1>6. \A a \in Account :
        (account[a] > 0 => account'[a] > 0) /\ (Opened(s, account, a) => account'[a] > 0)
  BY <1>2 DEF Opened
<1>7. \A a \in Account : s.loaded[a] # NoRow => account'[a] > 0
  BY <1>1, <1>6 DEF Rooted, Loaded
<1>8. \A a \in Account : balance'[a] # NoRow => account'[a] > 0
  BY <1>2, <1>6, <1>7 DEF RootInv
<1>9. ASSUME NEW h \in Hash, row'[h] # NoRow, NEW a \in Parties(h)
      PROVE  account'[a] > 0
  <2>1. a \in Account
    BY <1>9, TransfersAssumption DEF Parties
  <2>2. CASE h \in s.applies
    BY <1>4, <1>7, <1>9, <2>1, <2>2 DEF Loaded
  <2>3. CASE h \notin s.applies
    <3>1. row[h] # NoRow
      BY <1>3, <1>9, <2>3
    <3> QED
      BY <1>6, <1>9, <2>1, <3>1 DEF RootInv
  <2> QED
    BY <2>2, <2>3
<1>10. ASSUME NEW q \in Process PROVE Rooted(session'[q], account')
  <2>1. CASE q = p
    BY <1>5, <2>1, NewRooted
  <2>2. CASE q # p
    <3> DEFINE x == session[q]
               ac2 == account'
    <3>1. Rooted(x, account) /\ session'[q] = x /\ Good(q, x, row, status)
      BY <1>5, <2>2 DEF RootInv, BookInv
    <3>2. \A a \in Account : account[a] > 0 => ac2[a] > 0
      BY <1>6
    <3> HIDE DEF x, ac2
    <3>3. Rooted(x, ac2)
      BY <3>1, <3>2, RootedGrows
    <3> QED
      BY <3>1, <3>3 DEF ac2
  <2> QED
    BY <2>1, <2>2
<1> QED
  BY <1>8, <1>9, <1>10 DEF RootInv

\* The steps of the interpreter.
LEMMA RootInterpreter ==
  ASSUME BookInv, RootInv, InterpreterStep
  PROVE  RootInv'
<1> DEFINE m == Mine
<1>1. /\ Interpreter \in Process /\ m = session[Interpreter]
      /\ m \in Session /\ Good(Interpreter, m, row, status)
  BY MineIsGood DEF Good, Mine
<1>2. ASSUME NEW b, Become(b), UNCHANGED books,
             \/ b = NewSession
             \/ /\ b.loaded = m.loaded /\ b.opened = m.opened
                /\ b.at \notin {"lift", "refund"}
                /\ b.at = "account" => Len(b.todo) = 4
             \/ /\ b.loaded = m.loaded /\ b.opened = m.opened
                /\ b.at = "refund" /\ b.hash \in Hash /\ row[b.hash] # NoRow
      PROVE  RootInv'
  <2>1. session' = [session EXCEPT ![Interpreter] = b] /\ UNCHANGED <<row, account, balance>>
    BY <1>2 DEF Become, books
  <2>2. b.loaded = m.loaded => Loaded(b) \subseteq Loaded(session[Interpreter])
    BY <1>1 DEF Loaded
  <2> QED
    BY <1>1, <1>2, <2>1, <2>2, RootMoved
<1>4. CASE BeginBlock
  <2> DEFINE b == [m EXCEPT !.at = "exec", !.txs = Head(chain)]
  <2>1. Become(b) /\ UNCHANGED books
    BY <1>4 DEF BeginBlock, tables
  <2>2. b.loaded = m.loaded /\ b.opened = m.opened /\ b.at = "exec"
    BY <1>1 DEF Session
  <2> HIDE DEF b, m
  <2> QED
    BY <1>2, <2>1, <2>2
<1>5. CASE ExecTransfer
  <2> DEFINE h == Head(m.txs)
             r == [m EXCEPT !.txs = Tail(m.txs)]
             b == [r EXCEPT !.rows[h] = "ACCEPTED_ON_L2"]
             c == Book(r, h, "ACCEPTED_ON_L2")
  <2>1. UNCHANGED books /\ (Become(b) \/ Become(c)) /\ m.at = "exec"
    BY <1>5 DEF ExecTransfer
  <2>2. h \in Hash
    <3>1. m.txs # <<>> /\ m.txs \in Seq(Hash)
      BY <1>1, <1>5 DEF ExecTransfer, Session
    <3> HIDE DEF m
    <3> QED
      BY <3>1, HeadOrTail
  <2>3. b.loaded = m.loaded /\ b.opened = m.opened /\ b.at = "exec"
    BY <1>1, <2>1 DEF Session
  <2>4. /\ c.loaded = m.loaded /\ c.opened = m.opened /\ c.at = "account"
        /\ c.todo = Sides(h) \o Sides(h)
    BY <1>1 DEF Session, Book
  <2> HIDE DEF h, r, b, c, m
  <2>5. Len(c.todo) = 4
    <3> DEFINE d == Sides(h)
    <3>1. d \in Seq(Account) /\ Len(d) = 2
      BY <2>2, SidesOf DEF Sides
    <3> HIDE DEF d
    <3>2. Len(d \o d) = Len(d) + Len(d)
      BY <3>1, ConcatProperties
    <3> QED
      BY <2>4, <3>1, <3>2 DEF d
  <2>6. CASE Become(b)
    BY <1>2, <2>1, <2>3, <2>6
  <2>7. CASE Become(c)
    BY <1>2, <2>1, <2>4, <2>5, <2>7
  <2> QED
    BY <2>1, <2>6, <2>7
<1>6. CASE SelectUnresolved
  <2>1. PICK S : Become([m EXCEPT !.at = "poll", !.polled = S])
    BY <1>6 DEF SelectUnresolved
  <2> DEFINE b == [m EXCEPT !.at = "poll", !.polled = S]
  <2>2. Become(b) /\ UNCHANGED books
    BY <1>6, <2>1 DEF SelectUnresolved, tables
  <2>3. b.loaded = m.loaded /\ b.opened = m.opened /\ b.at = "poll"
    BY <1>1 DEF Session
  <2> HIDE DEF b, m
  <2> QED
    BY <1>2, <2>2, <2>3
<1>7. CASE Resend
  <2> DEFINE b == [m EXCEPT !.at = "poll"]
  <2>1. Become(b) /\ UNCHANGED books
    BY <1>7 DEF Resend, tables
  <2>2. b.loaded = m.loaded /\ b.opened = m.opened /\ b.at = "poll"
    BY <1>1 DEF Session
  <2> HIDE DEF b, m
  <2> QED
    BY <1>2, <2>1, <2>2
<1>8. CASE CommitBlock
  <2>1. /\ session[Interpreter].at = "poll"
        /\ session' = [session EXCEPT ![Interpreter] = NewSession]
        /\ UNCHANGED tables \/ (~Conflict(Mine) /\ Flush(Mine))
    BY <1>8 DEF CommitBlock, Become, Mine
  <2>2. CASE UNCHANGED tables
    <3>1. UNCHANGED <<row, account, balance>>
      BY <2>2 DEF tables, books
    <3> QED
      BY <1>1, <2>1, <3>1, RootMoved
  <2>3. CASE ~Conflict(Mine) /\ Flush(Mine)
    BY <1>1, <2>1, <2>3, RootFlush DEF Mine
  <2> QED
    BY <2>1, <2>2, <2>3
<1>9. ASSUME NEW h \in Hash, PollTransfer(h) PROVE RootInv'
  <2> DEFINE r == [m EXCEPT !.polled = m.polled \ {h}]
             b == [r EXCEPT !.at = "resend", !.hash = h]
             c == [r EXCEPT !.at = "refund", !.hash = h, !.todo = Sides(h),
                            !.rows[h] = "REJECTED"]
             d == [r EXCEPT !.rows[h] = status[h]]
  <2>1. /\ UNCHANGED books /\ m.at = "poll" /\ h \in m.polled
        /\ Become(b) \/ Become(c) \/ Become(d)
    BY <1>9 DEF PollTransfer
  <2>2. row[h] # NoRow
    BY <1>1, <2>1 DEF Good, Backed
  <2>3. /\ b.loaded = m.loaded /\ b.opened = m.opened /\ b.at = "resend"
        /\ d.loaded = m.loaded /\ d.opened = m.opened /\ d.at = "poll"
    BY <1>1, <2>1 DEF Session
  <2>4. /\ c.loaded = m.loaded /\ c.opened = m.opened /\ c.at = "refund"
        /\ c.hash = h
    BY <1>1 DEF Session
  <2> HIDE DEF r, b, c, d, m
  <2>5. CASE Become(b)
    BY <1>2, <2>1, <2>3, <2>5
  <2>6. CASE Become(c)
    BY <1>2, <2>1, <2>2, <2>4, <2>6
  <2>7. CASE Become(d)
    BY <1>2, <2>1, <2>3, <2>7
  <2> QED
    BY <2>1, <2>5, <2>6, <2>7
<1> QED
  BY <1>1, <1>4, <1>5, <1>6, <1>7, <1>8, <1>9, RootLiftAccount, RootLiftBalance,
     RootMake DEF InterpreterStep

\* Those of a request.
LEMMA RootRequest ==
  ASSUME BookInv, RootInv, NEW r \in Request, RequestStep(r)
  PROVE  RootInv'
<1>1. /\ r \in Process /\ HashOf[r] \in Hash /\ session[r] \in Session
  BY TransfersAssumption DEF Process, BookInv, Good
<1>2. CASE TransferRequest(r)
  <2>1. UNCHANGED <<row, account, balance>>
    BY <1>2 DEF TransferRequest, books
  <2>2. CASE session' = [session EXCEPT ![r] = NewSession]
    BY <1>1, <2>1, <2>2, RootMoved
  <2>3. CASE session' = [session EXCEPT ![r] =
                           Book(session[r], HashOf[r], "NOT_RECEIVED")]
    <3> DEFINE h == HashOf[r]
               b == Book(session[r], h, "NOT_RECEIVED")
               d == Sides(h)
    <3>1. /\ b.loaded = session[r].loaded /\ b.opened = session[r].opened
          /\ b.at = "account" /\ b.todo = d \o d
      BY <1>1 DEF Book, Session
    <3>2. d \in Seq(Account) /\ Len(d) = 2
      BY <1>1, SidesOf DEF Sides
    <3>3. session' = [session EXCEPT ![r] = b]
      BY <2>3
    <3> HIDE DEF b, d
    <3>4. Len(d \o d) = Len(d) + Len(d)
      BY <3>2, ConcatProperties
    <3>5. Loaded(b) \subseteq Loaded(session[r])
      BY <3>1 DEF Loaded
    <3>6. Len(b.todo) = 4
      BY <3>1, <3>2, <3>4
    <3> QED
      BY <1>1, <2>1, <3>1, <3>3, <3>5, <3>6, RootMoved
  <2> QED
    BY <1>2, <2>2, <2>3 DEF TransferRequest
<1>3. CASE CommitRequest(r)
  <2>1. session[r].at = "booked"
    BY <1>3 DEF CommitRequest
  <2>2. CASE UNCHANGED tables /\ session' = [session EXCEPT ![r] = NewSession]
    <3>1. UNCHANGED <<row, account, balance>>
      BY <2>2 DEF tables, books
    <3> QED
      BY <1>1, <2>2, <3>1, RootMoved
  <2>3. CASE /\ ~Conflict(session[r]) /\ Flush(session[r])
             /\ session' = [session EXCEPT ![r] = [NewSession EXCEPT !.at = "spawn"]]
    BY <1>1, <2>1, <2>3, RootFlush
  <2> QED
    BY <1>3, <2>2, <2>3 DEF CommitRequest
<1>4. CASE SpawnSend(r)
  <2>1. /\ UNCHANGED <<row, account, balance>>
        /\ session' = [session EXCEPT ![r] = NewSession]
    BY <1>4 DEF SpawnSend, tables, books
  <2> QED
    BY <1>1, <2>1, RootMoved
<1> QED
  BY <1>1, <1>2, <1>3, <1>4, RootLiftAccount, RootLiftBalance, RootMake
     DEF RequestStep

\* Every step keeps the accounts of what is in the books.
LEMMA RootStep == BookInv /\ RootInv /\ [Next]_vars => RootInv'
<1> SUFFICES ASSUME BookInv, RootInv, [Next]_vars PROVE RootInv'
  OBVIOUS
<1>1. CASE UNCHANGED <<row, account, balance, session>>
  BY <1>1 DEF RootInv
<1>2. ASSUME NEW a \in Account, LiftElsewhere(a) PROVE RootInv'
  <2>1. /\ account' = [account EXCEPT ![a] = @ + 1] /\ UNCHANGED <<row, balance, session>>
        /\ account \in [Account -> Nat]
    BY <1>2 DEF LiftElsewhere, BookInv, TransfersTypeOK
  <2> DEFINE ac2 == account'
  <2>2. \A x \in Account : account[x] > 0 => ac2[x] > 0
    BY <2>1
  <2>3. \A p \in Process : Good(p, session[p], row, status) /\ Rooted(session[p], account)
    BY DEF BookInv, RootInv
  <2> HIDE DEF ac2
  <2>4. \A p \in Process : Rooted(session[p], ac2)
    BY <2>2, <2>3, RootedGrows
  <2>5. \A h \in Hash : Parties(h) \subseteq Account
    BY TransfersAssumption DEF Parties
  <2> QED
    BY <2>1, <2>2, <2>4, <2>5 DEF RootInv, ac2
<1>3. ASSUME NEW p \in Process, Crash(p) PROVE RootInv'
  <2>1. /\ session' = [session EXCEPT ![p] = NewSession]
        /\ UNCHANGED <<row, account, balance>>
    BY <1>3 DEF Crash, tables, books
  <2> QED
    BY <2>1, RootMoved
<1>4. CASE UNCHANGED vars \/ Publish \/ \E h \in Hash : SendDirectly(h) \/ Decide(h)
  BY <1>1, <1>4
     DEF vars, Publish, SendDirectly, Decide, Execute, Reject, tables, books
<1> QED
  BY <1>2, <1>3, <1>4, RootInterpreter, RootRequest DEF Next

-----------------------------------------------------------------------------
(***************************************************************************)
(* The books add up.  L2's balances are the opening ones and what L2 has   *)
(* executed; the table's are the opening ones and what is in the books, as *)
(* long as no balance is in two sessions: then what a session has read and *)
(* changed is still the table's balance and what it has done itself.       *)
(***************************************************************************)
Has(s) == Loaded(s) \cup Range(s.todo)

Tallies(s, b) ==
  \A a \in Account :
    s.loaded[a] # NoRow =>
      s.loaded[a] = Amount(b[a]) + Net(s.applies, a) - Net(s.refunds, a)

L2Sum == \A a \in Account : l2[a] = Opening[a] + Net({h \in Hash : OnL2(h)}, a)

BookSum ==
  \A a \in Account :
    Amount(balance[a]) = Opening[a] + Net({h \in Hash : InBooks(h)}, a)

Apart == \A p, q \in Process : p # q => Holds(p) \cap Holds(q) = {}

Tally == \A p \in Process : Tallies(session[p], balance)

\* Who has no row yet has no balance.
Unread(s) == \A a \in s.opened : balance[a] = NoRow

SumInv ==
  /\ L2Sum
  /\ ~overlapped => /\ BookSum /\ Apart /\ Tally
                    /\ \A p \in Process : Unread(session[p])

\* A session that has read nothing and done nothing.
LEMMA NewTallies ==
  ASSUME NEW s, s = NewSession \/ s = [NewSession EXCEPT !.at = "spawn"], NEW b
  PROVE  Has(s) = {} /\ Tallies(s, b) /\ s.opened = {}
<1>1. s.todo = <<>> /\ s.opened = {} /\ \A a \in Account : s.loaded[a] = NoRow
  BY DEF NewSession
<1>2. Range(s.todo) = {}
  BY <1>1 DEF Range
<1> QED
  BY <1>1, <1>2 DEF Has, Loaded, Tallies

\* At the start both sides are at the opening balances.
LEMMA SumStart == Init => SumInv
<1> SUFFICES ASSUME Init PROVE SumInv
  OBVIOUS
<1>1. \A p \in Process : session[p] = NewSession
  BY DEF Init
<1>2. \A p \in Process :
        Holds(p) = {} /\ Tallies(session[p], balance) /\ Unread(session[p])
  BY <1>1, NewTallies DEF Holds, Has, Loaded, Unread
<1>3. Apart /\ Tally
  BY <1>2 DEF Apart, Tally
<1>4. {h \in Hash : OnL2(h)} = {} /\ {h \in Hash : InBooks(h)} = {}
  BY DEF Init, OnL2, InBooks
<1>5. ASSUME NEW a \in Account
      PROVE  l2[a] = Opening[a] /\ Amount(balance[a]) = Opening[a] /\ Opening[a] \in Nat
  BY TransfersAssumption DEF Init, Row, Amount
<1>6. L2Sum
  BY <1>4, <1>5, NetRules DEF L2Sum
<1>7. BookSum
  BY <1>4, <1>5, NetRules DEF BookSum
<1> QED
  BY <1>2, <1>3, <1>6, <1>7 DEF SumInv

\* A step of one session that leaves the tables alone.
LEMMA SumSession ==
  ASSUME BookInv, SumInv, NEW p \in Process, NEW s,
         session' = [session EXCEPT ![p] = s],
         UNCHANGED <<row, balance>>, L2Sum',
         ~overlapped' => /\ ~overlapped /\ Tallies(s, balance) /\ Unread(s)
                         /\ \A q \in Process \ {p} : Holds(q) \cap Has(s) = {}
  PROVE  SumInv'
<1> SUFFICES ASSUME ~overlapped'
             PROVE  /\ BookSum' /\ Apart' /\ Tally'
                    /\ \A q \in Process : Unread(session[q])'
  BY DEF SumInv
<1>1. session \in [Process -> Session] /\ BookSum /\ Apart /\ Tally
  BY DEF BookInv, TransfersTypeOK, SumInv
<1>2. \A q \in Process : session'[q] = IF q = p THEN s ELSE session[q]
  BY <1>1
<1>3. \A q \in Process : Holds(q)' = IF q = p THEN Has(s) ELSE Holds(q)
  BY <1>2 DEF Holds, Has, Loaded
<1>4. Apart'
  BY <1>1, <1>3 DEF Apart
<1>5. Tally'
  BY <1>1, <1>2 DEF Tally
<1>6. BookSum'
  BY <1>1 DEF BookSum, InBooks
<1>7. \A q \in Process : Unread(session[q])'
  BY <1>2 DEF Unread, SumInv
<1> QED
  BY <1>4, <1>5, <1>6, <1>7

\* One that touches no balance it did not have.
LEMMA SumKept ==
  ASSUME BookInv, SumInv, NEW p \in Process, NEW s,
         session' = [session EXCEPT ![p] = s],
         UNCHANGED <<row, balance, overlapped>>, L2Sum',
         Has(s) \subseteq Holds(p),
         Tallies(session[p], balance) /\ Unread(session[p]) => Tallies(s, balance),
         \A a \in s.opened : a \in session[p].opened \/ balance[a] = NoRow
  PROVE  SumInv'
<1>1. ~overlapped => Apart /\ Tally /\ Unread(session[p])
  BY DEF SumInv
<1>2. ~overlapped' => /\ ~overlapped /\ Tallies(s, balance) /\ Unread(s)
                      /\ \A q \in Process \ {p} : Holds(q) \cap Has(s) = {}
  BY <1>1 DEF Apart, Tally, Unread
<1> QED
  BY <1>2, SumSession

\* One that only moves on, or that gives up.
LEMMA SumMoved ==
  ASSUME BookInv, SumInv, NEW p \in Process, NEW s,
         session' = [session EXCEPT ![p] = s],
         UNCHANGED <<row, balance, overlapped>>, L2Sum',
         \/ s = NewSession
         \/ /\ s.loaded = session[p].loaded /\ s.todo = session[p].todo
            /\ s.applies = session[p].applies /\ s.refunds = session[p].refunds
            /\ s.opened = session[p].opened
  PROVE  SumInv'
<1>1. Has(s) \subseteq Holds(p)
  BY NewTallies DEF Has, Holds, Loaded
<1>2. Tallies(session[p], balance) => Tallies(s, balance)
  BY NewTallies DEF Tallies
<1>3. \A a \in s.opened : a \in session[p].opened \/ balance[a] = NoRow
  BY NewTallies
<1> QED
  BY <1>1, <1>2, <1>3, SumKept

\* One that is about to touch both balances of a transfer.
LEMMA SumTouched ==
  ASSUME BookInv, SumInv, NEW p \in Process, NEW s, NEW h \in Hash,
         session' = [session EXCEPT ![p] = s], Touch(p, h),
         UNCHANGED <<row, balance>>, L2Sum',
         s.loaded = session[p].loaded, Range(s.todo) = Range(Sides(h)),
         s.applies = session[p].applies, s.refunds = session[p].refunds,
         s.opened = session[p].opened
  PROVE  SumInv'
<1>1. Has(s) = Loaded(session[p]) \cup Range(Sides(h))
  BY DEF Has, Loaded
<1>2. Loaded(session[p]) \subseteq Holds(p)
  BY DEF Loaded, Holds
<1>3. ~overlapped' => /\ ~overlapped
                      /\ \A q \in Process \ {p} : Holds(q) \cap Range(Sides(h)) = {}
  BY DEF Touch
<1>4. ~overlapped => Apart /\ Tallies(session[p], balance) /\ Unread(session[p])
  BY DEF SumInv, Tally
<1>5. ~overlapped' => /\ ~overlapped /\ Tallies(s, balance) /\ Unread(s)
                      /\ \A q \in Process \ {p} : Holds(q) \cap Has(s) = {}
  BY <1>1, <1>2, <1>3, <1>4 DEF Apart, Tallies, Unread
<1> QED
  BY <1>5, SumSession

\* L2's balances while it executes nothing.
LEMMA L2SumKept ==
  ASSUME L2Sum, UNCHANGED l2, \A h \in Hash : OnL2(h)' <=> OnL2(h)
  PROVE  L2Sum'
<1>1. {h \in Hash : OnL2(h)}' = {h \in Hash : OnL2(h)}
  OBVIOUS
<1> QED
  BY <1>1 DEF L2Sum

\* A transfer that L2 receives is not executed yet.
LEMMA L2SumReceived ==
  ASSUME L2Sum, TransfersTypeOK, NEW h, AddTransaction(h)
  PROVE  L2Sum'
<1>1. \A g \in Hash : OnL2(g)' <=> OnL2(g)
  BY DEF AddTransaction, Received, OnL2, TransfersTypeOK
<1> QED
  BY <1>1, L2SumKept DEF AddTransaction

\* Nothing happens on L2.
LEMMA L2SumSame ==
  ASSUME L2Sum, UNCHANGED <<status, l2>>
  PROVE  L2Sum'
BY L2SumKept DEF OnL2

\* L2 executes a transfer.
LEMMA L2SumExecuted ==
  ASSUME L2Sum, TransfersTypeOK, NEW h \in Hash, Execute(h)
  PROVE  L2Sum'
<1> DEFINE A == {g \in Hash : OnL2(g)}
<1>1. /\ status[h] = "RECEIVED" /\ status' = [status EXCEPT ![h] = "PENDING"]
      /\ l2' = Moved(l2, Terms[h].from, Terms[h].to, Terms[h].amount)
  BY DEF Execute
<1>2. A' = A \cup {h} /\ h \notin A /\ A \in SUBSET Hash
  BY <1>1 DEF OnL2, TransfersTypeOK
<1>3. /\ Terms[h].from \in Account /\ Terms[h].to \in Account
      /\ Terms[h].amount \in Nat
  BY TransfersAssumption
<1>4. \A a \in Account : l2'[a] = l2[a] + Effect(h, a) /\ l2[a] \in Int
  <2> DEFINE x == Terms[h].from
             y == Terms[h].to
             v == Terms[h].amount
  <2>1. /\ l2 = [a \in Account |-> l2[a]] /\ \A a \in Account : l2[a] \in Int
        /\ x \in Account /\ y \in Account /\ v \in Nat
        /\ l2' = Moved(l2, x, y, v)
    BY <1>1, <1>3 DEF TransfersTypeOK
  <2>2. \A a \in Account :
          Effect(h, a) = (IF a = y THEN v ELSE 0) - (IF a = x THEN v ELSE 0)
    BY DEF Effect
  <2> HIDE DEF x, y, v
  <2>3. \A a \in Account :
          l2'[a] = IF a \in {x, y}
                   THEN l2[a] + ((IF a = y THEN v ELSE 0) - (IF a = x THEN v ELSE 0))
                   ELSE l2[a]
    BY <2>1, MovedOf
  <2> QED
    BY <2>1, <2>2, <2>3
<1> HIDE DEF A
<1>5. ASSUME NEW a \in Account PROVE l2'[a] = Opening[a] + Net(A', a)
  <2>1. Net(A', a) = Net(A, a) + Effect(h, a)
    BY <1>2, NetRules
  <2>2. l2[a] = Opening[a] + Net(A, a)
    BY DEF L2Sum, A
  <2>3. Opening[a] \in Int /\ Net(A, a) \in Int /\ Effect(h, a) \in Int
    BY <1>2, TransfersAssumption, NetRules, EffectOf
  <2> DEFINE n == Net(A, a)
             m == Net(A', a)
             e == Effect(h, a)
             o == Opening[a]
  <2>4. m = n + e /\ l2[a] = o + n /\ l2'[a] = l2[a] + e
    BY <1>4, <2>1, <2>2
  <2>5. o \in Int /\ n \in Int /\ e \in Int
    BY <2>3
  <2> HIDE DEF n, m, e, o
  <2>6. l2'[a] = o + m
    BY <2>4, <2>5
  <2> QED
    BY <2>6 DEF o, m
<1> QED
  BY <1>5 DEF L2Sum, A

\* An account is lifted: one that is inserted has no balance.
LEMMA SumOpen ==
  ASSUME BookInv, RootInv, SumInv, NEW p \in Process, LiftAccount(p)
  PROVE  SumInv'
<1> DEFINE s == session[p]
           a == Head(s.todo)
           O == IF RowsFound(s, a) = 0 THEN s.opened \cup {a} ELSE s.opened
           b == [s EXCEPT !.todo = Tail(s.todo),
                          !.at = IF Len(s.todo) = 3 THEN "lift" ELSE "account",
                          !.opened = O]
<1>1. /\ s.at = "account"
      /\ session' = [session EXCEPT ![p] =
                       IF RowsFound(s, a) > 1 THEN NewSession ELSE b]
      /\ UNCHANGED <<l2side, tables, crashes>>
  BY DEF LiftAccount
<1>2. /\ Good(p, s, row, status) /\ s \in Session /\ TransfersTypeOK
  BY DEF BookInv, Good
<1>3. s.todo \in Seq(Account) /\ Lifting(s.todo, s.hash) /\ s.hash \in Hash
  BY <1>1, <1>2 DEF Good, Shape, Session
<1>4. a \in Account /\ Range(Tail(s.todo)) = Range(s.todo)
  BY <1>3, LiftingParties, HeadOrTail
<1>5. \A x \in O : x \in s.opened \/ balance[x] = NoRow
  <2>1. RowsFound(s, a) = 0 => account[a] = 0
    BY <1>2, <1>4 DEF RowsFound, TransfersTypeOK
  <2> QED
    BY <1>4, <2>1 DEF RootInv
<1> HIDE DEF O
<1>6. /\ b.loaded = s.loaded /\ b.todo = Tail(s.todo) /\ b.opened = O
      /\ b.applies = s.applies /\ b.refunds = s.refunds
  BY <1>2 DEF Session
<1>7. L2Sum' /\ UNCHANGED <<row, balance, overlapped>>
  BY <1>1, L2SumSame DEF SumInv, l2side, tables, books
<1> HIDE DEF b, a
<1>8. CASE session' = [session EXCEPT ![p] = b]
  <2>1. Has(b) \subseteq Holds(p)
    BY <1>4, <1>6 DEF Has, Holds, Loaded
  <2>2. Tallies(session[p], balance) => Tallies(b, balance)
    BY <1>6 DEF Tallies
  <2>3. \A x \in b.opened : x \in session[p].opened \/ balance[x] = NoRow
    BY <1>5, <1>6
  <2> HIDE DEF s
  <2> QED
    BY <1>7, <1>8, <2>1, <2>2, <2>3, SumKept
<1>9. CASE session' = [session EXCEPT ![p] = NewSession]
  BY <1>7, <1>9, SumMoved
<1> QED
  BY <1>1, <1>8, <1>9

\* A balance is read where nothing was done to it, or not read again.
LEMMA SumLift ==
  ASSUME BookInv, SumInv, NEW p \in Process, LiftBalance(p)
  PROVE  SumInv'
<1> DEFINE s == session[p]
           a == Head(s.todo)
           none == a \in s.opened \/ balance[a] = NoRow
           v == IF s.loaded[a] # NoRow THEN s.loaded[a]
                ELSE IF none THEN 0 ELSE balance[a]
           F == IF s.loaded[a] = NoRow /\ none
                THEN s.fresh \cup {a} ELSE s.fresh
           b == [s EXCEPT !.todo = Tail(s.todo), !.loaded[a] = v, !.fresh = F]
<1>1. /\ s.at \in {"lift", "refund"} /\ s.todo # <<>>
      /\ session' = [session EXCEPT ![p] = b]
      /\ UNCHANGED <<l2side, tables, crashes>>
  BY DEF LiftBalance
<1>2. Good(p, s, row, status) /\ s \in Session /\ TransfersTypeOK
  BY DEF BookInv, Good
<1>3. s.todo \in Seq(Account) /\ s.fresh \subseteq Account
      /\ s.loaded \in [Account -> Int \cup {NoRow}]
      /\ s.applies \in SUBSET Hash /\ s.refunds \in SUBSET Hash
  BY <1>2 DEF Session
<1>4. a \in Account
  BY <1>1, <1>3, HeadOrTail
<1>5. v \in Int /\ (s.loaded[a] # NoRow => v = s.loaded[a]) /\ F \in SUBSET Account
      /\ (s.loaded[a] = NoRow /\ Unread(s) => v = Amount(balance[a]))
      /\ Amount(balance[a]) \in Int
  BY <1>2, <1>3, <1>4 DEF Amount, Unread, TransfersTypeOK
<1>6. /\ \A h \in s.applies \cup s.refunds : Parties(h) \subseteq Loaded(s)
      /\ Holds(p) = Loaded(s) \cup Range(s.todo)
  BY <1>2 DEF Good, Shape, Holds, Loaded
<1>7. /\ b.loaded = [s.loaded EXCEPT ![a] = v] /\ b.todo = Tail(s.todo)
      /\ b.applies = s.applies /\ b.refunds = s.refunds /\ b.opened = s.opened
  BY <1>2 DEF Session
<1>8. Range(s.todo) = {a} \cup Range(Tail(s.todo))
  BY <1>1, <1>3, HeadOrTail
<1> HIDE DEF s, a, v, F, b
<1>9. Tallies(s, balance) /\ Unread(s) => Tallies(b, balance)
  <2> SUFFICES ASSUME Tallies(s, balance), Unread(s), NEW x \in Account, b.loaded[x] # NoRow
               PROVE  b.loaded[x] = Amount(balance[x]) + Net(b.applies, x)
                                      - Net(b.refunds, x)
    BY DEF Tallies
  <2>1. /\ b.loaded[x] = IF x = a THEN v ELSE s.loaded[x]
        /\ b.applies = s.applies /\ b.refunds = s.refunds
    BY <1>3, <1>4, <1>7
  <2>2. CASE s.loaded[x] # NoRow
    <3>1. b.loaded[x] = s.loaded[x]
      BY <1>5, <2>1, <2>2
    <3> QED
      BY <2>1, <2>2, <3>1 DEF Tallies
  <2>3. CASE s.loaded[x] = NoRow
    <3>1. x = a /\ b.loaded[x] = Amount(balance[x]) /\ Amount(balance[x]) \in Int
      BY <1>5, <2>1, <2>3
    <3>2. \A h \in s.applies \cup s.refunds : x \notin {Terms[h].from, Terms[h].to}
      BY <1>6, <2>3 DEF Loaded, Parties
    <3>3. Net(s.applies, x) = 0 /\ Net(s.refunds, x) = 0
      BY <1>3, <3>2, NetElsewhere
    <3> QED
      BY <2>1, <3>1, <3>3
  <2> QED
    BY <2>2, <2>3
<1>10. Has(b) \subseteq Holds(p)
  <2>1. Loaded(b) \subseteq Loaded(s) \cup {a}
    BY <1>3, <1>4, <1>7 DEF Loaded
  <2> QED
    BY <1>6, <1>7, <1>8, <2>1 DEF Has
<1>11. L2Sum' /\ UNCHANGED <<row, balance, overlapped>>
  BY <1>1, L2SumSame DEF SumInv, l2side, tables, books
<1>12. /\ Tallies(session[p], balance) /\ Unread(session[p]) => Tallies(b, balance)
       /\ \A x \in b.opened : x \in session[p].opened
  BY <1>7, <1>9 DEF s
<1> QED
  BY <1>1, <1>10, <1>11, <1>12, SumKept

\* A transfer is made, or unmade, in balances that are all loaded.
LEMMA SumMake ==
  ASSUME BookInv, SumInv, NEW p \in Process, NEW b, NEW from \in Account,
         NEW to \in Account, NEW amount \in Nat, NEW h \in Hash,
         session[p].todo = <<>>, b.todo = <<>>,
         session[p].loaded[from] \in Int, session[p].loaded[to] \in Int,
         session' = [session EXCEPT ![p] = b],
         b.loaded = Moved(session[p].loaded, from, to, amount),
         b.opened = session[p].opened, UNCHANGED <<l2side, tables>>,
         \/ /\ from = Terms[h].from /\ to = Terms[h].to /\ amount = Terms[h].amount
            /\ h \notin session[p].applies
            /\ b.applies = session[p].applies \cup {h}
            /\ b.refunds = session[p].refunds
         \/ /\ from = Terms[h].to /\ to = Terms[h].from /\ amount = Terms[h].amount
            /\ h \notin session[p].refunds
            /\ b.refunds = session[p].refunds \cup {h}
            /\ b.applies = session[p].applies
  PROVE  SumInv'
<1> DEFINE s == session[p]
<1>1. /\ s \in Session /\ s.loaded = [a \in Account |-> s.loaded[a]]
      /\ s.applies \in SUBSET Hash /\ s.refunds \in SUBSET Hash
      /\ \A a \in Account : s.loaded[a] \in Int \cup {NoRow}
      /\ balance \in [Account -> Int \cup {NoRow}]
  <2>1. s \in Session /\ TransfersTypeOK
    BY DEF BookInv, Good
  <2> QED
    BY <2>1 DEF Session, TransfersTypeOK
<1>2. /\ NoRow \notin Int
      /\ s.loaded[from] \in Int /\ s.loaded[to] \in Int
      /\ b.loaded = Moved(s.loaded, from, to, amount)
  BY TransfersAssumption
<1> HIDE DEF s
<1>3. \A a \in Account :
        b.loaded[a] = IF a \in {from, to}
                      THEN s.loaded[a] + ((IF a = to THEN amount ELSE 0)
                                            - (IF a = from THEN amount ELSE 0))
                      ELSE s.loaded[a]
  <2> DEFINE l == s.loaded
             m == b.loaded
  <2>1. /\ l = [a \in Account |-> l[a]] /\ l[from] \in Int /\ l[to] \in Int
        /\ m = Moved(l, from, to, amount)
    BY <1>1, <1>2
  <2> HIDE DEF l, m
  <2>2. \A a \in Account :
          m[a] = IF a \in {from, to}
                 THEN l[a] + ((IF a = to THEN amount ELSE 0)
                                - (IF a = from THEN amount ELSE 0))
                 ELSE l[a]
    BY <2>1, MovedOf
  <2> QED
    BY <2>2 DEF l, m
<1>4. Has(b) \subseteq Holds(p)
  <2>1. \A a \in Account : b.loaded[a] # NoRow => s.loaded[a] # NoRow
    BY <1>2, <1>3
  <2> QED
    BY <2>1 DEF Has, Holds, Loaded, s
<1>5. ASSUME Tallies(s, balance) PROVE Tallies(b, balance)
  <2> SUFFICES ASSUME NEW a \in Account, b.loaded[a] # NoRow
               PROVE  b.loaded[a] = Amount(balance[a]) + Net(b.applies, a)
                                      - Net(b.refunds, a)
    BY DEF Tallies
  <2>1. s.loaded[a] # NoRow /\ s.loaded[a] \in Int
    BY <1>1, <1>2, <1>3
  <2>2. s.loaded[a] = Amount(balance[a]) + Net(s.applies, a) - Net(s.refunds, a)
    BY <1>5, <2>1 DEF Tallies
  <2>3. /\ Amount(balance[a]) \in Int /\ Net(s.applies, a) \in Int
        /\ Net(s.refunds, a) \in Int /\ Effect(h, a) \in Int
    BY <1>1, NetRules, EffectOf DEF Amount
  <2> DEFINE x == Amount(balance[a])
             n == Net(s.applies, a)
             m == Net(s.refunds, a)
             e == Effect(h, a)
             l == s.loaded[a]
             k == b.loaded[a]
  <2>4. l = x + n - m /\ x \in Int /\ n \in Int /\ m \in Int /\ e \in Int
    BY <2>2, <2>3
  <2>5. CASE /\ from = Terms[h].from /\ to = Terms[h].to /\ amount = Terms[h].amount
             /\ h \notin s.applies
             /\ b.applies = s.applies \cup {h} /\ b.refunds = s.refunds
    <3>1. Net(b.applies, a) = n + e /\ Net(b.refunds, a) = m
      <4>1. Net(s.applies \cup {h}, a) = Net(s.applies, a) + Effect(h, a)
        BY <1>1, <2>5, NetRules
      <4> QED
        BY <2>5, <4>1
    <3>2. e = (IF a = to THEN amount ELSE 0) - (IF a = from THEN amount ELSE 0)
      BY <2>5 DEF Effect
    <3>3. k = l + e
      <4> HIDE DEF e
      <4> QED
        BY <1>3, <2>1, <3>2
    <3> HIDE DEF x, n, m, e, l, k
    <3>4. k = x + (n + e) - m
      BY <2>4, <3>3
    <3> QED
      BY <3>1, <3>4, Zenon DEF k, x
  <2>6. CASE /\ from = Terms[h].to /\ to = Terms[h].from /\ amount = Terms[h].amount
             /\ h \notin s.refunds
             /\ b.refunds = s.refunds \cup {h} /\ b.applies = s.applies
    <3>1. Net(b.refunds, a) = m + e /\ Net(b.applies, a) = n
      <4>1. Net(s.refunds \cup {h}, a) = Net(s.refunds, a) + Effect(h, a)
        BY <1>1, <2>6, NetRules
      <4> QED
        BY <2>6, <4>1
    <3>2. e = (IF a = from THEN amount ELSE 0) - (IF a = to THEN amount ELSE 0)
      BY <2>6 DEF Effect
    <3>3. k = l - e
      <4> HIDE DEF e
      <4> QED
        BY <1>3, <2>1, <3>2
    <3> HIDE DEF x, n, m, e, l, k
    <3>4. k = x + n - (m + e)
      BY <2>4, <3>3
    <3> QED
      BY <3>1, <3>4, Zenon DEF k, x
  <2> QED
    BY <2>5, <2>6 DEF s
<1>6. L2Sum' /\ UNCHANGED <<row, balance, overlapped>>
  BY L2SumSame DEF SumInv, l2side, tables, books
<1>7. Tallies(session[p], balance) => Tallies(b, balance)
  BY <1>5 DEF s
<1> QED
  BY <1>4, <1>6, <1>7, SumKept

\* A session makes a transfer.
LEMMA SumApplyTransfer ==
  ASSUME BookInv, SumInv, NEW p \in Process, ApplyTransfer(p)
  PROVE  SumInv'
<1> DEFINE s == session[p]
           t == Terms[s.hash]
           b == [s EXCEPT !.at = IF p = Interpreter THEN "exec" ELSE "booked",
                          !.loaded = Moved(s.loaded, t.from, t.to, t.amount),
                          !.applies = s.applies \cup {s.hash}]
<1>1. /\ s.at = "lift" /\ s.todo = <<>>
      /\ session' = [session EXCEPT ![p] = b]
      /\ UNCHANGED <<l2side, tables, crashes>>
  BY DEF ApplyTransfer
<1>2. Good(p, s, row, status) /\ s \in Session
  BY DEF BookInv, Good
<1>3. /\ b.todo = <<>> /\ b.opened = s.opened /\ b.loaded = Moved(s.loaded, t.from, t.to, t.amount)
      /\ b.applies = s.applies \cup {s.hash} /\ b.refunds = s.refunds
  BY <1>1, <1>2 DEF Session
<1>4. s.hash \notin s.applies
  BY <1>1, <1>2, Zenon DEF Good, Writes
<1>5. /\ s.hash \in Hash /\ s.loaded[t.from] \in Int /\ s.loaded[t.to] \in Int
  <2> HIDE DEF s
  <2> QED
    BY <1>1, <1>2, MoveIsGood, Zenon
<1>6. t.from \in Account /\ t.to \in Account /\ t.amount \in Nat
  BY <1>5, TransfersAssumption
<1> HIDE DEF b
<1> QED
  BY <1>1, <1>3, <1>4, <1>5, <1>6, SumMake

\* The interpreter unmakes one.
LEMMA SumApplyReject ==
  ASSUME BookInv, SumInv, NEW p \in Process, ApplyReject(p)
  PROVE  SumInv'
<1> DEFINE s == session[p]
           t == Terms[s.hash]
           b == [s EXCEPT !.at = "poll",
                          !.loaded = Moved(s.loaded, t.to, t.from, t.amount),
                          !.refunds = s.refunds \cup {s.hash}]
<1>1. /\ s.at = "refund" /\ s.todo = <<>>
      /\ session' = [session EXCEPT ![p] = b]
      /\ UNCHANGED <<l2side, tables, crashes>>
  BY DEF ApplyReject
<1>2. Good(p, s, row, status) /\ s \in Session
  BY DEF BookInv, Good
<1>3. /\ b.todo = <<>> /\ b.opened = s.opened /\ b.loaded = Moved(s.loaded, t.to, t.from, t.amount)
      /\ b.refunds = s.refunds \cup {s.hash} /\ b.applies = s.applies
  BY <1>1, <1>2 DEF Session
<1>4. s.hash \notin s.refunds
  BY <1>1, <1>2, Zenon DEF Good, Writes
<1>5. /\ s.hash \in Hash /\ s.loaded[t.from] \in Int /\ s.loaded[t.to] \in Int
  <2> HIDE DEF s
  <2> QED
    BY <1>1, <1>2, MoveIsGood, Zenon
<1>6. t.from \in Account /\ t.to \in Account /\ t.amount \in Nat
  BY <1>5, TransfersAssumption
<1> HIDE DEF b
<1> QED
  BY <1>1, <1>3, <1>4, <1>5, <1>6, SumMake

\* A commit writes the balances that it has changed, and they tally.
LEMMA SumFlush ==
  ASSUME BookInv, SumInv, NEW p \in Process, session[p].at \in {"booked", "poll"},
         ~Conflict(session[p]), Flush(session[p]),
         NEW n, session' = [session EXCEPT ![p] = n],
         n = NewSession \/ n = [NewSession EXCEPT !.at = "spawn"],
         UNCHANGED <<status, l2>>
  PROVE  SumInv'
<1> DEFINE s == session[p]
           A == s.applies
           R == s.refunds
           B == {h \in Hash : InBooks(h)}
           C == {h \in Hash : InBooks(h)'}
<1>1. L2Sum' /\ overlapped' = overlapped
  BY L2SumSame DEF SumInv, Flush
<1> SUFFICES ASSUME ~overlapped, BookSum, Apart, Tally,
                    \A q \in Process : Unread(session[q])
             PROVE  /\ BookSum' /\ Apart' /\ Tally'
                    /\ \A q \in Process : Unread(session[q])'
  BY <1>1 DEF SumInv
<1>2. Good(p, s, row, status) /\ TransfersTypeOK
  BY DEF BookInv
<1>3. /\ A \in SUBSET Hash /\ R \in SUBSET Hash
      /\ session \in [Process -> Session]
      /\ s.loaded \in [Account -> Int \cup {NoRow}]
      /\ balance \in [Account -> Int \cup {NoRow}]
  BY <1>2 DEF Good, Session, TransfersTypeOK
<1>4. \A h \in Hash :
         /\ h \in A => row[h] = NoRow /\ row'[h] \notin {NoRow, "REJECTED"}
         /\ h \in R => /\ row[h] \notin {NoRow, "REJECTED"}
                       /\ row'[h] = "REJECTED" /\ h \notin A
         /\ h \notin A \cup R => /\ row'[h] = NoRow <=> row[h] = NoRow
                                 /\ row'[h] = "REJECTED" <=> row[h] = "REJECTED"
  BY Flushed
<1>5. /\ B \in SUBSET Hash /\ R \subseteq B /\ A \cap B = {}
      /\ C = (B \ R) \cup A
  BY <1>3, <1>4 DEF InBooks
<1>6. ASSUME NEW a \in Account
      PROVE  /\ balance'[a] = IF s.loaded[a] = NoRow THEN balance[a] ELSE s.loaded[a]
             /\ Amount(balance[a]) \in Int
             /\ s.loaded[a] = NoRow => Net(A, a) = 0 /\ Net(R, a) = 0
  <2>1. balance'[a] = IF s.loaded[a] = NoRow THEN balance[a] ELSE s.loaded[a]
    BY DEF Flush
  <2>2. Amount(balance[a]) \in Int
    BY <1>3 DEF Amount
  <2>3. ASSUME s.loaded[a] = NoRow PROVE Net(A, a) = 0 /\ Net(R, a) = 0
    <3>1. \A h \in A \cup R : a \notin {Terms[h].from, Terms[h].to}
      BY <1>2, <2>3 DEF Good, Shape, Loaded, Parties
    <3> HIDE DEF A, R
    <3> QED
      BY <1>3, <3>1, NetElsewhere
  <2> QED
    BY <2>1, <2>2, <2>3
<1>7. ASSUME NEW a \in Account
      PROVE  Amount(balance'[a]) = Amount(balance[a]) + Net(A, a) - Net(R, a)
  <2>1. Net(A, a) \in Int /\ Net(R, a) \in Int
    BY <1>3, NetRules
  <2>2. CASE s.loaded[a] = NoRow
    BY <1>6, <2>1, <2>2
  <2>3. CASE s.loaded[a] # NoRow
    <3>1. s.loaded[a] = Amount(balance[a]) + Net(A, a) - Net(R, a)
      BY <2>3 DEF Tally, Tallies
    <3>2. Amount(balance'[a]) = s.loaded[a]
      BY <1>6, <2>3 DEF Amount
    <3> QED
      BY <3>1, <3>2
  <2> QED
    BY <2>2, <2>3
<1> HIDE DEF A, R, B, C
<1>8. ASSUME NEW a \in Account
      PROVE  Amount(balance'[a]) = Opening[a] + Net(C, a)
  <2>1. Amount(balance[a]) = Opening[a] + Net(B, a)
    BY DEF BookSum, B
  <2>2. Net(C, a) = Net(B \ R, a) + Net(A, a)
    <3>1. B \ R \in SUBSET Hash /\ (B \ R) \cap A = {}
      BY <1>5
    <3> QED
      BY <1>3, <1>5, <3>1, NetRules
  <2>3. Net(B, a) = Net(B \ R, a) + Net(R, a)
    <3>1. /\ B \ R \in SUBSET Hash /\ (B \ R) \cap R = {} /\ (B \ R) \cup R = B
      BY <1>5
    <3>2. Net((B \ R) \cup R, a) = Net(B \ R, a) + Net(R, a)
      BY <1>3, <3>1, NetRules
    <3> QED
      BY <3>1, <3>2
  <2>4. /\ Net(B \ R, a) \in Int /\ Net(A, a) \in Int /\ Net(R, a) \in Int
        /\ Opening[a] \in Int
    BY <1>3, <1>5, NetRules, TransfersAssumption
  <2> DEFINE k == Net(B \ R, a)
             m == Net(A, a)
             r == Net(R, a)
             o == Opening[a]
             x == Amount(balance[a])
             y == Amount(balance'[a])
  <2>5. /\ x = o + (k + r) /\ y = x + m - r
        /\ k \in Int /\ m \in Int /\ r \in Int /\ o \in Int
    BY <1>7, <2>1, <2>3, <2>4
  <2> HIDE DEF k, m, r, o, x, y
  <2>6. y = o + (k + m)
    BY <2>5
  <2> QED
    BY <2>2, <2>6, Zenon DEF y, o, k, m
<1>9. BookSum'
  BY <1>8 DEF BookSum, C
<1>10. \A q \in Process : session'[q] = IF q = p THEN n ELSE session[q]
  BY <1>3
<1>11. Has(n) = {} /\ n.opened = {} /\ \A b : Tallies(n, b)
  BY NewTallies
<1>12. \A q \in Process : Holds(q)' = IF q = p THEN {} ELSE Holds(q)
  BY <1>10, <1>11 DEF Holds, Has, Loaded
<1>13. Apart'
  BY <1>12 DEF Apart
<1>14. ASSUME NEW q \in Process, q # p PROVE Tallies(session[q], balance')
  <2>1. Tallies(session[q], balance)
    BY DEF Tally
  <2>2. ASSUME NEW a \in Account, session[q].loaded[a] # NoRow
        PROVE  balance'[a] = balance[a]
    <3>1. a \in Holds(q) /\ Holds(q) \cap Holds(p) = {}
      BY <1>14, <2>2 DEF Holds, Apart
    <3>2. s.loaded[a] = NoRow
      BY <3>1 DEF Holds
    <3> QED
      BY <1>6, <3>2
  <2> QED
    BY <2>1, <2>2 DEF Tallies
<1>15. Tally'
  BY <1>10, <1>11, <1>14 DEF Tally
<1>16. ASSUME NEW q \in Process, q # p, NEW a \in session[q].opened
       PROVE  balance'[a] = NoRow
  <2>1. a \in Account /\ a \in Holds(q)
    <3>1. Good(q, session[q], row, status)
      BY DEF BookInv
    <3> QED
      BY <1>16, <3>1 DEF Good, Session, Shape, Holds, Loaded
  <2>2. Holds(q) \cap Holds(p) = {}
    BY <1>16 DEF Apart
  <2>3. s.loaded[a] = NoRow
    BY <2>1, <2>2 DEF Holds
  <2> QED
    BY <1>6, <1>16, <2>1, <2>3 DEF Unread
<1>17. \A q \in Process : Unread(session[q])'
  BY <1>10, <1>11, <1>16 DEF Unread
<1> QED
  BY <1>9, <1>13, <1>15, <1>17

\* A step that moves no session.
LEMMA SumUnmoved ==
  ASSUME BookInv, SumInv, UNCHANGED <<session, tables>>, L2Sum'
  PROVE  SumInv'
<1>1. /\ Interpreter \in Process
      /\ session' = [session EXCEPT ![Interpreter] = Mine]
  BY Unmoved
<1>2. UNCHANGED <<row, balance, overlapped>>
  BY DEF tables, books
<1> QED
  BY <1>1, <1>2, SumMoved DEF Mine

\* The steps of the interpreter keep the sums.
LEMMA SumInterpreter ==
  ASSUME BookInv, RootInv, SumInv, InterpreterStep
  PROVE  SumInv'
<1> DEFINE m == Mine
<1>1. /\ Interpreter \in Process /\ TransfersTypeOK /\ m = session[Interpreter]
      /\ m \in Session /\ L2Sum
  BY MineIsGood DEF Good, SumInv, Mine
<1>2. ASSUME NEW b, Become(b), UNCHANGED <<l2side, books, overlapped>>,
             \/ b = NewSession
             \/ /\ b.loaded = m.loaded /\ b.todo = m.todo /\ b.opened = m.opened
                /\ b.applies = m.applies /\ b.refunds = m.refunds
      PROVE  SumInv'
  <2>1. L2Sum' /\ UNCHANGED <<row, balance, overlapped>>
    BY <1>1, <1>2, L2SumSame DEF l2side, books
  <2> QED
    BY <1>1, <1>2, <2>1, SumMoved DEF Become
<1>3. ASSUME NEW b, NEW h \in Hash, Become(b), Touch(Interpreter, h),
             UNCHANGED <<l2side, books>>,
             b.loaded = m.loaded, Range(b.todo) = Range(Sides(h)),
             b.opened = m.opened, b.applies = m.applies, b.refunds = m.refunds
      PROVE  SumInv'
  <2>1. L2Sum' /\ UNCHANGED <<row, balance>>
    BY <1>1, <1>3, L2SumSame DEF l2side, books
  <2> QED
    BY <1>1, <1>3, <2>1, SumTouched DEF Become
<1>4. CASE BeginBlock
  <2> DEFINE b == [m EXCEPT !.at = "exec", !.txs = Head(chain)]
  <2>1. Become(b) /\ UNCHANGED <<l2side, books, overlapped>>
    BY <1>4 DEF BeginBlock, tables
  <2>2. /\ b.loaded = m.loaded /\ b.todo = m.todo /\ b.opened = m.opened
        /\ b.applies = m.applies /\ b.refunds = m.refunds
    BY <1>1 DEF Session
  <2> HIDE DEF b, m
  <2> QED
    BY <1>2, <2>1, <2>2
<1>5. CASE ExecTransfer
  <2> DEFINE h == Head(m.txs)
             r == [m EXCEPT !.txs = Tail(m.txs)]
             b == [r EXCEPT !.rows[h] = "ACCEPTED_ON_L2"]
             c == Book(r, h, "ACCEPTED_ON_L2")
  <2>1. /\ UNCHANGED <<l2side, books>>
        /\ \/ Become(b) /\ UNCHANGED overlapped
           \/ Become(c) /\ Touch(Interpreter, h)
    BY <1>5 DEF ExecTransfer
  <2>2. h \in Hash
    <3>1. m.at = "exec" /\ m.txs # <<>> /\ m.txs \in Seq(Hash)
      BY <1>1, <1>5 DEF ExecTransfer, Session
    <3> HIDE DEF m
    <3> QED
      BY <3>1, HeadOrTail
  <2>3. /\ b.loaded = m.loaded /\ b.todo = m.todo /\ b.opened = m.opened
        /\ b.applies = m.applies /\ b.refunds = m.refunds
    BY <1>1 DEF Session
  <2>4. /\ c.loaded = m.loaded /\ c.todo = Sides(h) \o Sides(h)
        /\ c.applies = m.applies /\ c.refunds = m.refunds
        /\ c.opened = m.opened
    BY <1>1 DEF Session, Book
  <2> HIDE DEF h, r, b, c, m
  <2>5. Range(c.todo) = Range(Sides(h))
    BY <2>2, <2>4, LiftingOf, LiftingParties, SidesOf
  <2> QED
    BY <1>2, <1>3, <2>1, <2>2, <2>3, <2>4, <2>5
<1>6. CASE SelectUnresolved
  <2>1. PICK S : Become([m EXCEPT !.at = "poll", !.polled = S])
    BY <1>6 DEF SelectUnresolved
  <2> DEFINE b == [m EXCEPT !.at = "poll", !.polled = S]
  <2>2. Become(b) /\ UNCHANGED <<l2side, books, overlapped>>
    BY <1>6, <2>1 DEF SelectUnresolved, tables
  <2>3. /\ b.loaded = m.loaded /\ b.todo = m.todo /\ b.opened = m.opened
        /\ b.applies = m.applies /\ b.refunds = m.refunds
    BY <1>1 DEF Session
  <2> HIDE DEF b, m
  <2> QED
    BY <1>2, <2>2, <2>3
<1>7. CASE Resend
  <2> DEFINE b == [m EXCEPT !.at = "poll"]
  <2>1. Become(b) /\ AddTransaction(m.hash) /\ UNCHANGED tables
    BY <1>7 DEF Resend
  <2>2. /\ b.loaded = m.loaded /\ b.todo = m.todo /\ b.opened = m.opened
        /\ b.applies = m.applies /\ b.refunds = m.refunds
    BY <1>1 DEF Session
  <2> HIDE DEF b, m
  <2>3. L2Sum' /\ UNCHANGED <<row, balance, overlapped>>
    BY <1>1, <2>1, L2SumReceived DEF tables, books
  <2> QED
    BY <1>1, <2>1, <2>2, <2>3, SumMoved DEF Become
<1>8. CASE CommitBlock
  <2>1. /\ session[Interpreter].at = "poll" /\ UNCHANGED <<status, l2>>
        /\ session' = [session EXCEPT ![Interpreter] = NewSession]
        /\ UNCHANGED tables \/ (~Conflict(Mine) /\ Flush(Mine))
    BY <1>8 DEF CommitBlock, Become, Mine
  <2>2. CASE UNCHANGED tables
    <3>1. L2Sum' /\ UNCHANGED <<row, balance, overlapped>>
      BY <1>1, <2>1, <2>2, L2SumSame DEF tables, books
    <3> QED
      BY <1>1, <2>1, <3>1, SumMoved
  <2>3. CASE ~Conflict(Mine) /\ Flush(Mine)
    BY <1>1, <2>1, <2>3, SumFlush DEF Mine
  <2> QED
    BY <2>1, <2>2, <2>3
<1>9. ASSUME NEW h \in Hash, PollTransfer(h) PROVE SumInv'
  <2> DEFINE r == [m EXCEPT !.polled = m.polled \ {h}]
             b == [r EXCEPT !.at = "resend", !.hash = h]
             c == [r EXCEPT !.at = "refund", !.hash = h, !.todo = Sides(h),
                            !.rows[h] = "REJECTED"]
             d == [r EXCEPT !.rows[h] = status[h]]
  <2>1. /\ UNCHANGED <<l2side, books>>
        /\ \/ Become(b) /\ UNCHANGED overlapped
           \/ Become(c) /\ Touch(Interpreter, h)
           \/ Become(d) /\ UNCHANGED overlapped
    BY <1>9 DEF PollTransfer
  <2>2. /\ b.loaded = m.loaded /\ b.todo = m.todo /\ b.opened = m.opened
        /\ b.applies = m.applies /\ b.refunds = m.refunds
    BY <1>1 DEF Session
  <2>3. /\ c.loaded = m.loaded /\ c.todo = Sides(h) /\ c.opened = m.opened
        /\ c.applies = m.applies /\ c.refunds = m.refunds
    BY <1>1 DEF Session
  <2>4. /\ d.loaded = m.loaded /\ d.todo = m.todo /\ d.opened = m.opened
        /\ d.applies = m.applies /\ d.refunds = m.refunds
    BY <1>1 DEF Session
  <2> HIDE DEF r, b, c, d, m
  <2> QED
    BY <1>2, <1>3, <2>1, <2>2, <2>3, <2>4
<1> QED
  BY <1>1, <1>4, <1>5, <1>6, <1>7, <1>8, <1>9, SumOpen, SumLift,
     SumApplyTransfer, SumApplyReject DEF InterpreterStep

\* So do those of a request.
LEMMA SumRequest ==
  ASSUME BookInv, RootInv, SumInv, NEW r \in Request, RequestStep(r)
  PROVE  SumInv'
<1>1. /\ r \in Process /\ TransfersTypeOK /\ L2Sum /\ HashOf[r] \in Hash
      /\ session[r] \in Session
  BY TransfersAssumption DEF Process, BookInv, SumInv, Good
<1>2. CASE TransferRequest(r)
  <2>1. UNCHANGED <<l2side, books>>
    BY <1>2 DEF TransferRequest
  <2>2. L2Sum' /\ UNCHANGED <<row, balance>>
    BY <1>1, <2>1, L2SumSame DEF l2side, books
  <2>3. CASE /\ session' = [session EXCEPT ![r] = NewSession]
             /\ UNCHANGED overlapped
    BY <1>1, <2>2, <2>3, SumMoved
  <2>4. CASE /\ Touch(r, HashOf[r])
             /\ session' = [session EXCEPT ![r] =
                              Book(session[r], HashOf[r], "NOT_RECEIVED")]
    <3> DEFINE b == Book(session[r], HashOf[r], "NOT_RECEIVED")
    <3>1. /\ b.loaded = session[r].loaded
          /\ b.todo = Sides(HashOf[r]) \o Sides(HashOf[r])
          /\ b.applies = session[r].applies /\ b.refunds = session[r].refunds
          /\ b.opened = session[r].opened
      BY <1>1 DEF Book, Session
    <3>2. session' = [session EXCEPT ![r] = b]
      BY <2>4
    <3> HIDE DEF b
    <3>3. Range(b.todo) = Range(Sides(HashOf[r]))
      BY <1>1, <3>1, LiftingOf, LiftingParties, SidesOf
    <3> QED
      BY <1>1, <2>2, <2>4, <3>1, <3>2, <3>3, SumTouched
  <2> QED
    BY <1>2, <2>3, <2>4 DEF TransferRequest
<1>3. CASE CommitRequest(r)
  <2>1. session[r].at = "booked" /\ UNCHANGED <<status, l2>>
    BY <1>3 DEF CommitRequest, l2side
  <2>2. CASE UNCHANGED tables /\ session' = [session EXCEPT ![r] = NewSession]
    <3>1. L2Sum' /\ UNCHANGED <<row, balance, overlapped>>
      BY <1>1, <2>1, <2>2, L2SumSame DEF tables, books
    <3> QED
      BY <1>1, <2>2, <3>1, SumMoved
  <2>3. CASE /\ ~Conflict(session[r]) /\ Flush(session[r])
             /\ session' = [session EXCEPT ![r] = [NewSession EXCEPT !.at = "spawn"]]
    BY <1>1, <2>1, <2>3, SumFlush
  <2> QED
    BY <1>3, <2>2, <2>3 DEF CommitRequest
<1>4. CASE SpawnSend(r)
  <2>1. /\ AddTransaction(HashOf[r]) /\ UNCHANGED tables
        /\ session' = [session EXCEPT ![r] = NewSession]
    BY <1>4 DEF SpawnSend
  <2>2. L2Sum' /\ UNCHANGED <<row, balance, overlapped>>
    BY <1>1, <2>1, L2SumReceived DEF tables, books
  <2> QED
    BY <1>1, <2>1, <2>2, SumMoved
<1> QED
  BY <1>1, <1>2, <1>3, <1>4, SumOpen, SumLift, SumApplyTransfer
     DEF RequestStep

\* Every step preserves the sums.
LEMMA SumStep == BookInv /\ RootInv /\ SumInv /\ [Next]_vars => SumInv'
<1> SUFFICES ASSUME BookInv, RootInv, SumInv, [Next]_vars PROVE SumInv'
  OBVIOUS
<1>1. TransfersTypeOK /\ L2Sum
  BY DEF BookInv, SumInv
<1>2. CASE UNCHANGED vars
  <2>1. L2Sum' /\ UNCHANGED <<session, tables>>
    BY <1>1, <1>2, L2SumSame DEF vars, l2side
  <2> QED
    BY <2>1, SumUnmoved
<1>3. ASSUME NEW h \in Hash, SendDirectly(h) \/ Decide(h) PROVE SumInv'
  <2>1. CASE SendDirectly(h)
    <3>1. L2Sum' /\ UNCHANGED <<session, tables>>
      BY <1>1, <2>1, L2SumReceived DEF SendDirectly
    <3> QED
      BY <3>1, SumUnmoved
  <2>2. CASE Execute(h)
    <3>1. L2Sum' /\ UNCHANGED <<session, tables>>
      BY <1>1, <2>2, L2SumExecuted DEF Execute
    <3> QED
      BY <3>1, SumUnmoved
  <2>3. CASE Reject(h)
    <3>1. /\ status[h] = "RECEIVED" /\ status' = [status EXCEPT ![h] = "REJECTED"]
          /\ UNCHANGED l2 /\ UNCHANGED <<session, tables>>
      BY <2>3 DEF Reject
    <3>2. \A g \in Hash : OnL2(g)' <=> OnL2(g)
      BY <1>1, <3>1 DEF OnL2, TransfersTypeOK
    <3>3. L2Sum'
      BY <1>1, <3>1, <3>2, L2SumKept
    <3> QED
      BY <3>1, <3>3, SumUnmoved
  <2> QED
    BY <1>3, <2>1, <2>2, <2>3 DEF Decide
<1>4. CASE Publish
  <2>1. /\ status' = [h \in Hash |-> IF status[h] = "PENDING"
                                     THEN "ACCEPTED_ON_L2" ELSE status[h]]
        /\ UNCHANGED l2 /\ UNCHANGED <<session, tables>>
    BY <1>4 DEF Publish
  <2>2. \A g \in Hash : OnL2(g)' <=> OnL2(g)
    BY <2>1 DEF OnL2
  <2>3. L2Sum'
    BY <1>1, <2>1, <2>2, L2SumKept
  <2> QED
    BY <2>1, <2>3, SumUnmoved
<1>5. ASSUME NEW p \in Process, Crash(p) PROVE SumInv'
  <2>1. /\ session' = [session EXCEPT ![p] = NewSession]
        /\ UNCHANGED <<l2side, tables>>
    BY <1>5 DEF Crash
  <2>2. L2Sum' /\ UNCHANGED <<row, balance, overlapped>>
    BY <1>1, <2>1, L2SumSame DEF l2side, tables, books
  <2> QED
    BY <2>1, <2>2, SumMoved
<1>6. ASSUME NEW a \in Account, LiftElsewhere(a) PROVE SumInv'
  <2>1. UNCHANGED <<status, l2, row, balance, overlapped, session>>
    BY <1>6 DEF LiftElsewhere, l2side
  <2>2. L2Sum'
    BY <1>1, <2>1, L2SumSame
  <2>3. Interpreter \in Process /\ session' = [session EXCEPT ![Interpreter] = Mine]
    BY <2>1, Unmoved
  <2> QED
    BY <2>1, <2>2, <2>3, SumMoved DEF Mine
<1> QED
  BY <1>2, <1>3, <1>4, <1>5, <1>6, SumInterpreter, SumRequest DEF Next

\* The sums are what the books and L2 differ by.
LEMMA SumReconciles == BookInv /\ SumInv => BooksReconcile
<1> SUFFICES ASSUME SumInv, ~overlapped, NEW a \in Account
             PROVE  Amount(balance[a]) + Net({h \in Hash : OnL2(h) /\ ~InBooks(h)}, a)
                      = l2[a] + Net({h \in Hash : InBooks(h) /\ ~OnL2(h)}, a)
  BY DEF BooksReconcile
<1> DEFINE L == {h \in Hash : OnL2(h)}
           B == {h \in Hash : InBooks(h)}
           X == {h \in Hash : OnL2(h) /\ ~InBooks(h)}
           Y == {h \in Hash : InBooks(h) /\ ~OnL2(h)}
           K == {h \in Hash : InBooks(h) /\ OnL2(h)}
<1>1. /\ X \in SUBSET Hash /\ Y \in SUBSET Hash /\ K \in SUBSET Hash
      /\ X \cap K = {} /\ Y \cap K = {} /\ L = X \cup K /\ B = Y \cup K
  OBVIOUS
<1>2. l2[a] = Opening[a] + Net(L, a) /\ Amount(balance[a]) = Opening[a] + Net(B, a)
  BY DEF SumInv, L2Sum, BookSum
<1> HIDE DEF L, B, X, Y, K
<1>3. Net(X \cup K, a) = Net(X, a) + Net(K, a) /\ Net(Y \cup K, a) = Net(Y, a) + Net(K, a)
  BY <1>1, NetRules
<1>4. /\ Net(X, a) \in Int /\ Net(Y, a) \in Int /\ Net(K, a) \in Int
      /\ Opening[a] \in Int
  BY <1>1, NetRules, TransfersAssumption
<1> DEFINE x == Net(X, a)
           y == Net(Y, a)
           k == Net(K, a)
           o == Opening[a]
           u == Amount(balance[a])
           v == l2[a]
<1>5. /\ v = o + (x + k) /\ u = o + (y + k)
      /\ x \in Int /\ y \in Int /\ k \in Int /\ o \in Int
  BY <1>1, <1>2, <1>3, <1>4
<1> HIDE DEF x, y, k, o, u, v
<1>6. u + x = v + y
  BY <1>5
<1> QED
  BY <1>6, Zenon DEF u, v, x, y, X, Y

\* As long as no two open sessions have touched one balance, the table differs
\* from L2 by the transfers that only one of them has yet, at every moment: for
\* any number of transfers, accounts, requests, blocks, retries and crashes.
THEOREM BooksAgree == Spec => []BooksReconcile
BY BookStart, BookStep, RootStart, RootStep, SumStart, SumStep, SumReconciles,
   PTL DEF Spec
=============================================================================
