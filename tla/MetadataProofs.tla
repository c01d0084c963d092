---------------------------- MODULE MetadataProofs ----------------------------
(***************************************************************************)
(* The rows of a token say what was accepted from its minter, for any      *)
(* number of requests, of transactions that name it, and of crashes.       *)
(***************************************************************************)
EXTENDS Metadata, SequenceTheorems, TLAPS

Accepted == {r \in Request : Ok(r)}

\* Of the requests A, there is one for each nonce below n, or one that says d.
SpentBelow(A, n) == \A m \in 0 .. n - 1 : \E r \in A : NonceOf[r] = m

Said(A, d) == \E r \in A : DataOf[r] = d

\* What a session has read stays true of the table, in which no row is deleted
\* and no nonce ever falls below what was accepted.
Sessions ==
  \A r \in Request : session[r].at = "found" =>
    /\ session[r].row <= Len(token)
    /\ NonceOf[r] = session[r].nonce
    /\ SpentBelow(Accepted, session[r].nonce)

Lifting ==
  /\ lifted.at \in {"found", "fetched"} => log > 0 /\ lifted.row <= Len(token)
  /\ lifted.at = "fetched" => lifted.data \in Data /\ Said(Accepted, lifted.data)

IInv == MetadataTypeOK /\ AcceptedMetadata /\ Sessions /\ Lifting

-----------------------------------------------------------------------------
LEMMA Rows ==
  ASSUME MetadataTypeOK
  PROVE  /\ Len(token) \in Nat
         /\ \A i \in 1 .. Len(token) : token[i].nonce \in Nat /\ token[i].data \in Data
<1>1. \A x \in Row : x.nonce \in Nat /\ x.data \in Data
  BY DEF Row
<1>2. token \in Seq(Row)
  BY DEF MetadataTypeOK
<1>3. \A i \in 1 .. Len(token) : token[i] \in Row
  BY <1>2, ElementOfSeq
<1> QED
  BY <1>1, <1>2, <1>3, LenProperties

\* A row that is appended or replaced leaves the others as they were.
LEMMA AppendRow ==
  ASSUME token \in Seq(Row), NEW x \in Row, token' = Append(token, x)
  PROVE  /\ token' \in Seq(Row) /\ Len(token') = Len(token) + 1
         /\ Len(token) \in Nat
         /\ token'[Len(token) + 1] = x
         /\ \A i \in 1 .. Len(token) : token'[i] = token[i]
<1> HIDE DEF Row
<1> QED
  BY AppendProperties, LenProperties

LEMMA ReplaceRow ==
  ASSUME token \in Seq(Row), NEW x \in Row, NEW i \in 1 .. Len(token),
         token' = [token EXCEPT ![i] = x]
  PROVE  /\ token' \in Seq(Row) /\ Len(token') = Len(token)
         /\ token'[i] = x
         /\ \A j \in 1 .. Len(token) : j # i => token'[j] = token[j]
<1> HIDE DEF Row
<1> QED
  BY ExceptSeq, LenProperties

-----------------------------------------------------------------------------
LEMMA InitHolds == Init => IInv
<1> SUFFICES ASSUME Init PROVE IInv
  OBVIOUS
<1>1. token = <<>> /\ Len(token) = 0 /\ token \in Seq(Row)
  BY DEF Init
<1>2. \A r \in Request : session[r].at = "idle"
  BY DEF Init, Idle
<1>3. lifted.at = "idle"
  BY DEF Init, Unread
<1>4. MetadataTypeOK
  <2>1. session \in [Request ->
          [at : {"idle", "found", "ok", "unauthorized", "error"}, row : Nat, nonce : Nat]]
    BY DEF Init, Idle
  <2>2. lifted \in [at : {"idle", "found", "fetched", "dead"}, row : Nat,
                    old : Data \cup {NoRow}, data : Data \cup {NoRow}]
    BY DEF Init, Unread
  <2>3. log \in 0 .. sent /\ sent \in 0 .. MaxLog /\ crashes \in 0 .. MaxCrashes
    BY MetadataAssumption DEF Init, MetadataAssumption
  <2> QED
    BY <1>1, <2>1, <2>2, <2>3 DEF Init, MetadataTypeOK
<1>5. DOMAIN token = {}
  BY <1>1
<1> QED
  BY <1>2, <1>3, <1>4, <1>5 DEF IInv, AcceptedMetadata, Sessions, Lifting

\* An accepted update stays accepted.
LEMMA OkStays ==
  ASSUME MetadataTypeOK, [Next]_vars
  PROVE  Accepted \subseteq Accepted'
<1> SUFFICES ASSUME NEW q \in Request, Ok(q) PROVE Ok(q)'
  BY DEF Accepted
<1>1. ASSUME NEW r \in Request, SelectToken(r) \/ CommitUpdate(r) \/ CrashRequest(r)
      PROVE  Ok(q)'
  <2>1. r # q
    BY <1>1 DEF SelectToken, CommitUpdate, CrashRequest, Ok
  <2>2. session'[q] = session[q]
    BY <1>1, <2>1
    DEF SelectToken, CommitUpdate, CrashRequest, Ends, MetadataTypeOK
  <2> QED
    BY <2>2 DEF Ok
<1>2. CASE UNCHANGED session
  BY <1>2 DEF Ok
<1> QED
  BY <1>1, <1>2
  DEF Next, Interpret, Transact, LiftToken, FetchMetadata, CommitToken,
      RestartInterpreter, CrashInterpreter, vars

\* The session of request r ends, or finds what it has selected.
LEMMA SessionTyped ==
  ASSUME MetadataTypeOK, NEW r \in Request,
         NEW x \in [at : {"idle", "found", "ok", "unauthorized", "error"},
                    row : Nat, nonce : Nat],
         session' = [session EXCEPT ![r] = x]
  PROVE  /\ session' \in [Request -> [at : {"idle", "found", "ok", "unauthorized", "error"},
                                      row : Nat, nonce : Nat]]
         /\ session'[r] = x
         /\ \A q \in Request : q # r => session'[q] = session[q]
BY DEF MetadataTypeOK

LEMMA EndsTyped ==
  ASSUME MetadataTypeOK, NEW r \in Request, NEW at \in {"ok", "unauthorized", "error"},
         Ends(r, at)
  PROVE  /\ session' \in [Request -> [at : {"idle", "found", "ok", "unauthorized", "error"},
                                      row : Nat, nonce : Nat]]
         /\ session'[r].at = at
         /\ \A q \in Request : q # r => session'[q] = session[q]
<1> DEFINE x == [Idle EXCEPT !.at = at]
<1>1. x \in [at : {"idle", "found", "ok", "unauthorized", "error"}, row : Nat, nonce : Nat]
      /\ x.at = at
  BY DEF Idle
<1>2. session' = [session EXCEPT ![r] = x]
  BY DEF Ends
<1> HIDE DEF x
<1> QED
  BY <1>1, <1>2, SessionTyped

\* What is accepted stays so, and with it what is said and the nonces that are spent.
LEMMA SaidStays ==
  ASSUME NEW A, NEW B, A \subseteq B
  PROVE  /\ \A d : Said(A, d) => Said(B, d)
         /\ \A n : SpentBelow(A, n) => SpentBelow(B, n)
BY DEF Said, SpentBelow

\* AcceptedMetadata, of one row at a time
LEMMA RowsAccepted ==
  ASSUME token \in Seq(Row)
  PROVE  AcceptedMetadata <=>
           \A i \in 1 .. Len(token) :
             SpentBelow(Accepted, token[i].nonce) /\ Said(Accepted, token[i].data)
<1>1. DOMAIN token = 1 .. Len(token)
  BY LenProperties
<1> QED
  BY <1>1 DEF AcceptedMetadata, SpentBelow, Said, Accepted

LEMMA RowsAcceptedNext ==
  ASSUME token' \in Seq(Row)
  PROVE  AcceptedMetadata' <=>
           \A i \in 1 .. Len(token') :
             SpentBelow(Accepted', token'[i].nonce) /\ Said(Accepted', token'[i].data)
<1> HIDE DEF Row
<1>1. DOMAIN token' = 1 .. Len(token')
  BY LenProperties
<1> QED
  BY <1>1 DEF AcceptedMetadata, SpentBelow, Said, Accepted

\* A step that leaves the table alone, and under which what was accepted stays so
LEMMA AcceptedFrame ==
  ASSUME MetadataTypeOK, AcceptedMetadata, UNCHANGED token, Accepted \subseteq Accepted'
  PROVE  AcceptedMetadata'
<1>1. token \in Seq(Row)
  BY DEF MetadataTypeOK
<1>2. \A i \in 1 .. Len(token) :
        SpentBelow(Accepted, token[i].nonce) /\ Said(Accepted, token[i].data)
  BY <1>1, RowsAccepted
<1>3. \A i \in 1 .. Len(token) :
        SpentBelow(Accepted', token[i].nonce) /\ Said(Accepted', token[i].data)
  BY <1>2, SaidStays
<1> QED
  BY <1>1, <1>3, RowsAcceptedNext

LEMMA SelectTokenHolds ==
  ASSUME IInv, NEW r \in Request, SelectToken(r), Accepted \subseteq Accepted'
  PROVE  IInv'
<1> DEFINE nonce == IF token = <<>> THEN 0 ELSE token[1].nonce
           Record == [at : {"idle", "found", "ok", "unauthorized", "error"},
                      row : Nat, nonce : Nat]
           x == [at |-> "found", row |-> Len(token), nonce |-> nonce]
<1>1. MetadataTypeOK /\ UNCHANGED <<token, log, sent, lifted, crashes>>
  BY DEF IInv, SelectToken
<1>2. Len(token) \in Nat /\ (token # <<>> => 1 \in 1 .. Len(token))
  BY <1>1, EmptySeq, LenProperties DEF MetadataTypeOK
<1>3. nonce \in Nat
  BY <1>1, <1>2, Rows
<1>4. SpentBelow(Accepted, nonce)
  <2>1. CASE token = <<>>
    BY <2>1 DEF SpentBelow
  <2>2. CASE token # <<>>
    BY <2>2, <1>1, <1>2, RowsAccepted DEF IInv, MetadataTypeOK
  <2> QED
    BY <2>1, <2>2
<1>5. x \in Record /\ x.at = "found" /\ x.row = Len(token) /\ x.nonce = nonce
  BY <1>2, <1>3
<1>6. \/ Ends(r, "error") \/ Ends(r, "unauthorized")
      \/ Signed(r, nonce) /\ session' = [session EXCEPT ![r] = x]
  BY DEF SelectToken
<1> HIDE DEF x, nonce
<1>7. /\ session' \in [Request -> Record]
      /\ \A q \in Request : q # r => session'[q] = session[q]
      /\ \/ session'[r].at # "found"
         \/ Signed(r, nonce) /\ session'[r] = x
  BY <1>1, <1>5, <1>6, EndsTyped, SessionTyped
<1>8. MetadataTypeOK'
  <2>1. overlapped' \in BOOLEAN
    BY <1>1 DEF SelectToken, Opens, Open, MetadataTypeOK
  <2> QED
    BY <1>1, <1>7, <2>1 DEF MetadataTypeOK
<1>9. Sessions'
  <2> SUFFICES ASSUME NEW q \in Request, session'[q].at = "found"
               PROVE  /\ session'[q].row <= Len(token)
                      /\ NonceOf[q] = session'[q].nonce
                      /\ SpentBelow(Accepted, session'[q].nonce)
    BY <1>1, SaidStays DEF Sessions
  <2>1. CASE q = r
    BY <2>1, <1>2, <1>4, <1>5, <1>7 DEF Signed
  <2>2. CASE q # r
    BY <2>2, <1>7 DEF IInv, Sessions
  <2> QED
    BY <2>1, <2>2
<1>10. Lifting'
  BY <1>1, SaidStays DEF IInv, Lifting
<1>11. AcceptedMetadata'
  BY <1>1, AcceptedFrame DEF IInv
<1> QED
  BY <1>8, <1>9, <1>10, <1>11 DEF IInv

\* A write of a row that keeps or raises the table's length, and says in it what
\* an accepted request brought.
LEMMA WriteHolds ==
  ASSUME IInv, NEW i \in Nat \ {0}, NEW x \in Row,
         token' \in Seq(Row), Len(token') >= Len(token),
         i \in 1 .. Len(token'), token'[i] = x,
         \A j \in 1 .. Len(token') : j # i => j <= Len(token) /\ token'[j] = token[j],
         SpentBelow(Accepted', x.nonce), Said(Accepted', x.data),
         Accepted \subseteq Accepted'
  PROVE  AcceptedMetadata'
<1> SUFFICES ASSUME NEW j \in 1 .. Len(token')
             PROVE  SpentBelow(Accepted', token'[j].nonce) /\ Said(Accepted', token'[j].data)
  BY RowsAcceptedNext
<1>1. CASE j = i
  BY <1>1
<1>2. CASE j # i
  <2>1. j \in 1 .. Len(token) /\ token'[j] = token[j]
    BY <1>2, LenProperties DEF IInv, MetadataTypeOK
  <2>2. SpentBelow(Accepted, token[j].nonce) /\ Said(Accepted, token[j].data)
    BY <2>1, RowsAccepted DEF IInv, MetadataTypeOK
  <2> QED
    BY <2>1, <2>2, SaidStays
<1> QED
  BY <1>1, <1>2

LEMMA CommitUpdateHolds ==
  ASSUME IInv, NEW r \in Request, CommitUpdate(r), Accepted \subseteq Accepted'
  PROVE  IInv'
<1> DEFINE x == [nonce |-> session[r].nonce + 1, data |-> DataOf[r]]
           k == session[r].row
<1>1. /\ MetadataTypeOK /\ UNCHANGED <<log, sent, lifted, overlapped, crashes>>
      /\ token \in Seq(Row)
  BY DEF IInv, CommitUpdate, MetadataTypeOK
<1>2. /\ k \in Nat /\ session[r].nonce \in Nat
      /\ k <= Len(token) /\ NonceOf[r] = session[r].nonce
      /\ SpentBelow(Accepted, session[r].nonce)
  BY DEF IInv, MetadataTypeOK, Sessions, CommitUpdate
<1>3. /\ session' \in [Request -> [at : {"idle", "found", "ok", "unauthorized", "error"},
                                   row : Nat, nonce : Nat]]
      /\ session'[r].at = "ok"
      /\ \A q \in Request : q # r => session'[q] = session[q]
  BY <1>1, EndsTyped DEF CommitUpdate
<1>4. Ok(r)'
  BY <1>3 DEF Ok
<1>5. x \in Row /\ Said(Accepted', x.data)
  BY <1>2, <1>4, MetadataAssumption DEF Row, Said, Accepted
<1>6. SpentBelow(Accepted', x.nonce)
  <2>1. SpentBelow(Accepted', session[r].nonce)
    BY <1>2, SaidStays
  <2>2. r \in Accepted'
    BY <1>4 DEF Accepted
  <2>3. ASSUME NEW m \in 0 .. x.nonce - 1
        PROVE  \E q \in Accepted' : NonceOf[q] = m
    <3>1. CASE m \in 0 .. session[r].nonce - 1
      BY <2>1, <3>1 DEF SpentBelow
    <3>2. CASE m = session[r].nonce
      BY <1>2, <2>2, <3>2
    <3> QED
      BY <1>2, <3>1, <3>2
  <2> QED
    BY <2>3 DEF SpentBelow
<1>7. token' = IF k = 0 THEN Append(token, x) ELSE [token EXCEPT ![k] = x]
  BY DEF CommitUpdate
<1> HIDE DEF x, k
<1>8. /\ token' \in Seq(Row) /\ Len(token') >= Len(token)
      /\ AcceptedMetadata'
  <2>0. Len(token) \in Nat
    BY <1>1, LenProperties
  <2>1. CASE k = 0
    <3>1. /\ token' \in Seq(Row) /\ Len(token') = Len(token) + 1
          /\ token'[Len(token) + 1] = x
          /\ \A j \in 1 .. Len(token) : token'[j] = token[j]
      BY <1>1, <1>5, <1>7, <2>1, AppendRow
    <3>2. \A j \in 1 .. Len(token') : j # Len(token) + 1 =>
            j <= Len(token) /\ token'[j] = token[j]
      BY <2>0, <3>1
    <3> QED
      BY <1>5, <1>6, <2>0, <3>1, <3>2, WriteHolds
  <2>2. CASE k # 0
    <3>1. k \in 1 .. Len(token)
      BY <1>2, <2>0, <2>2 DEF k
    <3>2. /\ token' \in Seq(Row) /\ Len(token') = Len(token)
          /\ token'[k] = x
          /\ \A j \in 1 .. Len(token) : j # k => token'[j] = token[j]
      BY <1>1, <1>5, <1>7, <2>2, <3>1, ReplaceRow
    <3> QED
      BY <1>5, <1>6, <2>0, <3>1, <3>2, WriteHolds
  <2> QED
    BY <2>1, <2>2
<1>9. MetadataTypeOK'
  BY <1>1, <1>3, <1>8 DEF MetadataTypeOK
<1>10. Sessions'
  <2> SUFFICES ASSUME NEW q \in Request, session'[q].at = "found"
               PROVE  /\ session'[q].row <= Len(token')
                      /\ NonceOf[q] = session'[q].nonce
                      /\ SpentBelow(Accepted', session'[q].nonce)
    BY DEF Sessions, SpentBelow
  <2>1. q # r /\ session'[q] = session[q]
    BY <1>3
  <2>2. /\ session[q].row <= Len(token) /\ session[q].row \in Nat
        /\ NonceOf[q] = session[q].nonce /\ SpentBelow(Accepted, session[q].nonce)
    BY <2>1 DEF IInv, Sessions, MetadataTypeOK
  <2>3. Len(token) \in Nat /\ Len(token') \in Nat
    BY <1>1, <1>8, LenProperties
  <2>4. SpentBelow(Accepted', session[q].nonce)
    BY <2>2, SaidStays
  <2>5. session[q].row <= Len(token')
    BY <1>8, <2>2, <2>3
  <2> QED
    BY <2>1, <2>2, <2>4, <2>5
<1>11. Lifting'
  <2>1. Len(token) \in Nat /\ Len(token') \in Nat /\ lifted.row \in Nat
    BY <1>1, <1>8, LenProperties DEF MetadataTypeOK
  <2> QED
    BY <1>1, <1>8, <2>1, SaidStays DEF IInv, Lifting
<1> QED
  BY <1>8, <1>9, <1>10, <1>11 DEF IInv

LEMMA CommitTokenHolds ==
  ASSUME IInv, CommitToken, Accepted \subseteq Accepted'
  PROVE  IInv'
<1> DEFINE k == lifted.row
           d == lifted.data
           n == IF k = 0 THEN 0 ELSE token[k].nonce
           x == [nonce |-> n, data |-> d]
<1>1. /\ MetadataTypeOK /\ UNCHANGED <<session, sent, overlapped, crashes>>
      /\ token \in Seq(Row) /\ lifted' = Unread /\ log' = log - 1
  BY DEF IInv, CommitToken, MetadataTypeOK
<1>2. /\ k \in Nat /\ k <= Len(token) /\ log > 0 /\ d \in Data /\ Said(Accepted, d)
      /\ Len(token) \in Nat
  BY LenProperties DEF IInv, MetadataTypeOK, Lifting, CommitToken
<1>3. k # 0 => k \in 1 .. Len(token) /\ token[k] \in Row
  BY <1>1, <1>2, ElementOfSeq
<1>4. n \in Nat /\ SpentBelow(Accepted, n)
  <2>1. CASE k = 0
    BY <2>1 DEF SpentBelow
  <2>2. CASE k # 0
    <3>1. n = token[k].nonce /\ SpentBelow(Accepted, token[k].nonce)
      BY <1>1, <1>3, <2>2, RowsAccepted DEF IInv
    <3> QED
      BY <1>3, <2>2, <3>1 DEF Row
  <2> QED
    BY <2>1, <2>2
<1>5. x \in Row /\ x.nonce = n /\ x.data = d
  BY <1>2, <1>4 DEF Row
<1>6. SpentBelow(Accepted', x.nonce) /\ Said(Accepted', x.data)
  <2>1. SpentBelow(Accepted, n) /\ Said(Accepted, d)
    BY <1>2, <1>4
  <2> QED
    BY <1>5, <2>1, SaidStays
<1>7. \/ k = 0 /\ token' = Append(token, x)
      \/ k # 0 /\ token' = token
      \/ k # 0 /\ token' = [token EXCEPT ![k] = x]
  <2>1. CASE k = 0
    BY <2>1 DEF CommitToken
  <2>2. CASE k # 0 /\ token' = token
    BY <2>2
  <2>3. CASE k # 0 /\ token' = [token EXCEPT ![k].data = d]
    <3>1. [token[k] EXCEPT !.data = d] = x
      BY <1>3, <2>3 DEF Row
    <3> QED
      BY <2>3, <3>1
  <2> QED
    BY <2>1, <2>2, <2>3 DEF CommitToken
<1> HIDE DEF x, k, d, n
<1>8. /\ token' \in Seq(Row) /\ Len(token') >= Len(token)
      /\ AcceptedMetadata'
  <2>1. CASE k = 0 /\ token' = Append(token, x)
    <3>1. /\ token' \in Seq(Row) /\ Len(token') = Len(token) + 1
          /\ token'[Len(token) + 1] = x
          /\ \A j \in 1 .. Len(token) : token'[j] = token[j]
      BY <1>1, <1>5, <2>1, AppendRow
    <3>2. \A j \in 1 .. Len(token') : j # Len(token) + 1 =>
            j <= Len(token) /\ token'[j] = token[j]
      BY <1>2, <3>1
    <3> QED
      BY <1>2, <1>5, <1>6, <3>1, <3>2, WriteHolds
  <2>2. CASE token' = token
    BY <1>1, <1>2, <2>2, AcceptedFrame DEF IInv
  <2>3. CASE k # 0 /\ token' = [token EXCEPT ![k] = x]
    <3>1. /\ token' \in Seq(Row) /\ Len(token') = Len(token)
          /\ token'[k] = x
          /\ \A j \in 1 .. Len(token) : j # k => token'[j] = token[j]
      BY <1>1, <1>3, <1>5, <2>3, ReplaceRow
    <3> QED
      BY <1>2, <1>3, <1>5, <1>6, <2>3, <3>1, WriteHolds
  <2> QED
    BY <1>7, <2>1, <2>2, <2>3
<1>9. MetadataTypeOK'
  <2>1. lifted' \in [at : {"idle", "found", "fetched", "dead"}, row : Nat,
                     old : Data \cup {NoRow}, data : Data \cup {NoRow}]
    BY <1>1 DEF Unread
  <2>2. log' \in 0 .. sent
    BY <1>1, <1>2 DEF MetadataTypeOK
  <2> QED
    BY <1>1, <1>8, <2>1, <2>2 DEF MetadataTypeOK
<1>10. Sessions'
  <2> SUFFICES ASSUME NEW q \in Request, session[q].at = "found"
               PROVE  /\ session[q].row <= Len(token')
                      /\ NonceOf[q] = session[q].nonce
                      /\ SpentBelow(Accepted', session[q].nonce)
    BY <1>1 DEF Sessions, SpentBelow
  <2>1. /\ session[q].row <= Len(token) /\ session[q].row \in Nat
        /\ NonceOf[q] = session[q].nonce /\ SpentBelow(Accepted, session[q].nonce)
    BY DEF IInv, Sessions, MetadataTypeOK
  <2>2. Len(token) \in Nat /\ Len(token') \in Nat
    BY <1>1, <1>8, LenProperties
  <2> QED
    BY <1>8, <2>1, <2>2, SaidStays
<1>11. Lifting'
  BY <1>1 DEF Lifting, Unread
<1> QED
  BY <1>8, <1>9, <1>10, <1>11 DEF IInv

\* A step that leaves the table and the requests alone is judged by where it
\* leaves the interpreter.
LEMMA InterpreterFrame ==
  ASSUME IInv, UNCHANGED <<token, session>>, MetadataTypeOK', Lifting'
  PROVE  IInv'
<1>1. Accepted' = Accepted
  BY DEF Accepted, Ok
<1>2. AcceptedMetadata'
  BY <1>1, AcceptedFrame DEF IInv
<1>3. Sessions'
  BY <1>1 DEF IInv, Sessions, SpentBelow
<1> QED
  BY <1>2, <1>3 DEF IInv

LEMMA NextHolds == IInv /\ [Next]_vars => IInv'
<1> SUFFICES ASSUME IInv, [Next]_vars PROVE IInv'
  OBVIOUS
<1>1. MetadataTypeOK /\ Accepted \subseteq Accepted' /\ MetadataAssumption
  BY OkStays, MetadataAssumption DEF IInv
<1>2. ASSUME NEW r \in Request, SelectToken(r) PROVE IInv'
  BY <1>1, <1>2, SelectTokenHolds
<1>3. ASSUME NEW r \in Request, CommitUpdate(r) PROVE IInv'
  BY <1>1, <1>3, CommitUpdateHolds
<1>4. ASSUME NEW r \in Request, CrashRequest(r) PROVE IInv'
  <2>1. UNCHANGED <<token, log, sent, lifted, overlapped>>
    BY <1>4 DEF CrashRequest
  <2>2. /\ session' \in [Request -> [at : {"idle", "found", "ok", "unauthorized", "error"},
                                     row : Nat, nonce : Nat]]
        /\ session'[r].at = "error"
        /\ \A q \in Request : q # r => session'[q] = session[q]
    BY <1>1, <1>4, EndsTyped DEF CrashRequest
  <2>3. crashes' \in 0 .. MaxCrashes
    BY <1>1, <1>4 DEF CrashRequest, MetadataTypeOK, MetadataAssumption
  <2>4. MetadataTypeOK'
    BY <1>1, <2>1, <2>2, <2>3 DEF MetadataTypeOK
  <2>5. Sessions'
    <3> SUFFICES ASSUME NEW q \in Request, session'[q].at = "found"
                 PROVE  /\ session'[q].row <= Len(token)
                        /\ NonceOf[q] = session'[q].nonce
                        /\ SpentBelow(Accepted', session'[q].nonce)
      BY <2>1 DEF Sessions
    <3>1. session'[q] = session[q]
      BY <2>2
    <3> QED
      BY <1>1, <3>1, SaidStays DEF IInv, Sessions
  <2>6. Lifting'
    BY <1>1, <2>1, SaidStays DEF IInv, Lifting
  <2> QED
    BY <1>1, <2>1, <2>4, <2>5, <2>6, AcceptedFrame DEF IInv
<1>5. CASE Transact
  <2>1. MetadataTypeOK'
    BY <1>1, <1>5 DEF Transact, MetadataTypeOK, MetadataAssumption
  <2>2. Lifting'
    <3>1. log \in Nat
      BY <1>1 DEF MetadataTypeOK
    <3>2. Accepted' = Accepted
      BY <1>5 DEF Transact, Accepted, Ok
    <3> QED
      BY <1>5, <3>1, <3>2 DEF IInv, Lifting, Transact
  <2> QED
    BY <1>5, <2>1, <2>2, InterpreterFrame DEF Transact
<1>6. CASE LiftToken
  <2>1. Len(token) \in Nat
        /\ (token # <<>> => token[1].data \in Data)
    BY <1>1, Rows, EmptySeq, LenProperties DEF MetadataTypeOK
  <2> DEFINE old == IF token = <<>> THEN NoRow ELSE token[1].data
             x == [at |-> "found", row |-> Len(token), old |-> old, data |-> NoRow]
  <2>2. old \in Data \cup {NoRow}
    BY <2>1
  <2>3. x \in [at : {"idle", "found", "fetched", "dead"}, row : Nat,
              old : Data \cup {NoRow}, data : Data \cup {NoRow}]
        /\ x.at = "found" /\ x.row = Len(token)
    BY <2>1, <2>2
  <2>4. \/ lifted' = [Unread EXCEPT !.at = "dead"]
        \/ lifted' = x
    BY <1>6 DEF LiftToken, Unread
  <2> HIDE DEF x
  <2>5. lifted' \in [at : {"idle", "found", "fetched", "dead"}, row : Nat,
                    old : Data \cup {NoRow}, data : Data \cup {NoRow}]
        /\ (lifted'.at = "dead" \/ (lifted'.at = "found" /\ lifted'.row = Len(token)))
    BY <2>3, <2>4 DEF Unread
  <2>6. overlapped' \in BOOLEAN
    BY <1>1, <1>6 DEF LiftToken, Opens, Open, MetadataTypeOK
  <2>7. MetadataTypeOK'
    BY <1>1, <1>6, <2>5, <2>6 DEF LiftToken, MetadataTypeOK
  <2>8. Lifting'
    BY <1>6, <2>1, <2>5 DEF LiftToken, Lifting
  <2> QED
    BY <1>6, <2>7, <2>8, InterpreterFrame DEF LiftToken
<1>7. CASE FetchMetadata
  <2>1. GetMetadata # NoRow => GetMetadata \in Data /\ Said(Accepted, GetMetadata)
    <3>1. Len(token) = 1 => token[1].data \in Data /\ Said(Accepted, token[1].data)
      BY <1>1, Rows, RowsAccepted DEF IInv, MetadataTypeOK
    <3> QED
      BY <3>1 DEF GetMetadata
  <2>2. \/ lifted' = [Unread EXCEPT !.at = "dead"]
        \/ /\ GetMetadata # NoRow
           /\ lifted' = [lifted EXCEPT !.at = "fetched", !.data = GetMetadata]
    BY <1>7 DEF FetchMetadata
  <2>3. lifted' \in [at : {"idle", "found", "fetched", "dead"}, row : Nat,
                    old : Data \cup {NoRow}, data : Data \cup {NoRow}]
        /\ \/ lifted'.at = "dead"
           \/ /\ lifted'.at = "fetched" /\ lifted'.row = lifted.row
              /\ lifted'.data \in Data /\ Said(Accepted, lifted'.data)
    <3>1. CASE lifted' = [Unread EXCEPT !.at = "dead"]
      BY <3>1 DEF Unread
    <3>2. CASE /\ GetMetadata # NoRow
               /\ lifted' = [lifted EXCEPT !.at = "fetched", !.data = GetMetadata]
      <4>1. PICK d \in Data : d = GetMetadata /\ Said(Accepted, d)
        BY <2>1, <3>2
      <4>2. lifted' = [lifted EXCEPT !.at = "fetched", !.data = d]
        BY <3>2, <4>1
      <4> QED
        BY <1>1, <4>1, <4>2 DEF MetadataTypeOK
    <3> QED
      BY <2>2, <3>1, <3>2
  <2>4. MetadataTypeOK'
    BY <1>1, <1>7, <2>3 DEF FetchMetadata, MetadataTypeOK
  <2>5. Lifting'
    BY <1>1, <1>7, <2>3, SaidStays DEF FetchMetadata, IInv, Lifting
  <2> QED
    BY <1>7, <2>4, <2>5, InterpreterFrame DEF FetchMetadata
<1>8. CASE CommitToken
  BY <1>1, <1>8, CommitTokenHolds
<1>9. ASSUME lifted' = Unread, UNCHANGED <<token, session, log, sent, overlapped>>,
             crashes' \in 0 .. MaxCrashes
      PROVE  IInv'
  <2>1. MetadataTypeOK'
    BY <1>1, <1>9 DEF MetadataTypeOK, Unread
  <2>2. Lifting'
    BY <1>9 DEF Lifting, Unread
  <2> QED
    BY <1>9, <2>1, <2>2, InterpreterFrame
<1>10. CASE RestartInterpreter
  BY <1>1, <1>9, <1>10 DEF RestartInterpreter, MetadataTypeOK
<1>11. CASE CrashInterpreter
  <2>1. crashes' \in 0 .. MaxCrashes
    BY <1>1, <1>11 DEF CrashInterpreter, MetadataTypeOK, MetadataAssumption
  <2> QED
    BY <1>9, <1>11, <2>1 DEF CrashInterpreter
<1>12. CASE UNCHANGED vars
  <2>1. MetadataTypeOK' /\ Lifting'
    BY <1>12 DEF vars, IInv, MetadataTypeOK, Lifting, Accepted, Ok
  <2> QED
    BY <1>12, <2>1, InterpreterFrame DEF vars
<1> QED
  BY <1>2, <1>3, <1>4, <1>5, <1>6, <1>7, <1>8, <1>10, <1>11, <1>12
  DEF Next, Interpret

\* However many sessions overlap and whatever dies: a row of the token shows
\* metadata that came with a nonce signed by the minter, and no nonce that was
\* not used.
THEOREM AcceptedOnly == Spec => []MetadataInv
<1>1. IInv => MetadataInv
  BY DEF IInv, MetadataInv
<1> QED
  BY InitHolds, NextHolds, <1>1, PTL DEF Spec

-----------------------------------------------------------------------------
Opened == lifted.at \in {"found", "fetched"}

\* If no two sessions were ever open at once, there is one row, and the session
\* that is open has it as it is.
Alone ==
  ~overlapped =>
    /\ Len(token) <= 1
    /\ \A r \in Request : session[r].at = "found" =>
         /\ ~Opened
         /\ \A q \in Request : session[q].at = "found" => q = r
         /\ session[r].row = Len(token)
         /\ Len(token) = 1 => session[r].nonce = token[1].nonce
    /\ Opened => lifted.row = Len(token)
    /\ Opened /\ Len(token) = 1 => lifted.old = token[1].data
    /\ lifted.at = "fetched" => Len(token) = 1 /\ lifted.data = token[1].data

LInv == Alone /\ LatestMetadata

LEMMA LatestInit == Init => LInv
BY DEF Init, LInv, Alone, LatestMetadata, Opened, Unread, Idle, Ok

\* A step under which no request comes to be accepted and the table stays
LEMMA LatestFrame ==
  ASSUME IInv, LInv, UNCHANGED token, ~overlapped' => ~overlapped,
         \A r \in Request : Ok(r)' => Ok(r)
  PROVE  LatestMetadata'
BY DEF LInv, LatestMetadata

LEMMA LatestHolds == IInv /\ LInv /\ [Next]_vars => LInv'
<1> SUFFICES ASSUME IInv, LInv, [Next]_vars PROVE LInv'
  OBVIOUS
<1>1. /\ MetadataTypeOK /\ token \in Seq(Row) /\ Len(token) \in Nat
      /\ (token = <<>> <=> Len(token) = 0)
  BY EmptySeq, LenProperties DEF IInv, MetadataTypeOK
<1>2. ASSUME NEW r \in Request, SelectToken(r) PROVE LInv'
  <2>1. UNCHANGED <<token, lifted>> /\ Opens
    BY <1>2 DEF SelectToken
  <2> DEFINE nonce == IF token = <<>> THEN 0 ELSE token[1].nonce
  <2>2. /\ \A q \in Request : q # r => session'[q] = session[q]
        /\ \/ session'[r].at \in {"error", "unauthorized"}
           \/ /\ session'[r].at = "found" /\ session'[r].row = Len(token)
              /\ session'[r].nonce = nonce
    <3>1. \/ Ends(r, "error") \/ Ends(r, "unauthorized")
          \/ session' = [session EXCEPT ![r] =
                           [at |-> "found", row |-> Len(token), nonce |-> nonce]]
      BY <1>2 DEF SelectToken
    <3> HIDE DEF nonce
    <3> QED
      BY <1>1, <3>1 DEF Ends, Idle, MetadataTypeOK
  <2>3. session[r].at = "idle"
    BY <1>2 DEF SelectToken
  <2>4. LatestMetadata'
    <3>1. \A q \in Request : Ok(q)' => Ok(q)
      BY <2>2 DEF Ok
    <3> QED
      BY <2>1, <3>1, LatestFrame DEF Opens
  <2>5. Alone'
    <3> SUFFICES ASSUME ~overlapped' PROVE Alone'
      BY DEF Alone
    <3>1. ~overlapped /\ ~Open
      BY <2>1 DEF Opens
    <3>2. ~Opened /\ \A q \in Request : session[q].at # "found"
      BY <3>1 DEF Open, Opened
    <3>3. Len(token) <= 1
      BY <3>1 DEF LInv, Alone
    <3> QED
      BY <1>1, <2>1, <2>2, <3>2, <3>3 DEF Alone, Opened
  <2> QED
    BY <2>4, <2>5 DEF LInv
<1>3. ASSUME NEW r \in Request, CommitUpdate(r) PROVE LInv'
  <2> DEFINE x == [nonce |-> session[r].nonce + 1, data |-> DataOf[r]]
  <2>1. UNCHANGED <<lifted, overlapped>> /\ session[r].at = "found"
    BY <1>3 DEF CommitUpdate
  <2>2. /\ session'[r].at = "ok"
        /\ \A q \in Request : q # r => session'[q] = session[q]
    BY <1>1, <1>3, EndsTyped DEF CommitUpdate
  <2> SUFFICES ASSUME ~overlapped PROVE LInv'
    BY <2>1 DEF LInv, Alone, LatestMetadata
  <2>3. /\ ~Opened /\ \A q \in Request : session'[q].at # "found"
        /\ session[r].row = Len(token) /\ Len(token) <= 1
        /\ Len(token) = 1 => session[r].nonce = token[1].nonce
    BY <2>1, <2>2 DEF LInv, Alone
  <2>4. NonceOf[r] = session[r].nonce /\ NonceOf[r] \in Nat
    BY <2>1, MetadataAssumption DEF IInv, Sessions, MetadataAssumption
  <2>5. x \in Row /\ x.nonce = NonceOf[r] + 1 /\ x.data = DataOf[r]
    BY <2>4, MetadataAssumption DEF Row, MetadataAssumption
  <2>6. token' = IF session[r].row = 0 THEN Append(token, x)
                 ELSE [token EXCEPT ![session[r].row] = x]
    BY <1>3 DEF CommitUpdate
  <2> HIDE DEF x
  <2>7. Len(token') = 1 /\ token'[1] = x
    <3>1. CASE Len(token) = 0
      BY <1>1, <2>3, <2>5, <2>6, <3>1, AppendRow
    <3>2. CASE Len(token) = 1
      BY <1>1, <2>3, <2>5, <2>6, <3>2, ReplaceRow
    <3>3. Len(token) = 0 \/ Len(token) = 1
      <4>1. Len(token) \in Nat
        BY <1>1
      <4>2. Len(token) <= 1
        BY DEF LInv, Alone
      <4>3. \A n \in Nat : n <= 1 => n = 0 \/ n = 1
        OBVIOUS
      <4> QED
        BY <4>1, <4>2, <4>3, Zenon
    <3> QED
      BY <3>1, <3>2, <3>3
  <2>8. \A q \in Request : q # r /\ Ok(q)' => NonceOf[q] < NonceOf[r] /\ NonceOf[q] \in Nat
    <3> SUFFICES ASSUME NEW q \in Request, q # r, Ok(q)'
                 PROVE  NonceOf[q] < NonceOf[r] /\ NonceOf[q] \in Nat
      OBVIOUS
    <3>1. Ok(q)
      BY <2>2 DEF Ok
    <3>2. Len(token) = 1 /\ token[1].nonce > NonceOf[q]
      BY <3>1 DEF LInv, LatestMetadata
    <3>3. NonceOf[q] \in Nat
      BY MetadataAssumption DEF MetadataAssumption
    <3> QED
      BY <2>3, <2>4, <3>2, <3>3
  <2>9. LatestMetadata'
    <3>1. ASSUME NEW q \in Request, Ok(q)'
          PROVE  /\ Len(token') = 1 /\ token'[1].nonce > NonceOf[q]
                 /\ token'[1].nonce = NonceOf[q] + 1 => token'[1].data = DataOf[q]
      <4>1. CASE q = r
        BY <2>4, <2>5, <2>7, <4>1
      <4>2. CASE q # r
        BY <2>4, <2>5, <2>7, <2>8, <3>1, <4>2
      <4> QED
        BY <4>1, <4>2
    <3>2. ASSUME NEW q \in Request, NEW s \in Request, Ok(q)', Ok(s)',
                 NonceOf[q] = NonceOf[s]
          PROVE  q = s
      <4>1. CASE q = r \/ s = r
        BY <2>4, <2>8, <3>2, <4>1
      <4>2. CASE q # r /\ s # r
        <5>1. Ok(q) /\ Ok(s)
          BY <2>2, <3>2, <4>2 DEF Ok
        <5> QED
          BY <3>2, <5>1 DEF LInv, LatestMetadata
      <4> QED
        BY <4>1, <4>2
    <3> QED
      BY <3>1, <3>2 DEF LatestMetadata
  <2>10. Alone'
    BY <2>1, <2>3, <2>7 DEF Alone, Opened
  <2> QED
    BY <2>9, <2>10 DEF LInv
<1>4. ASSUME NEW r \in Request, CrashRequest(r) PROVE LInv'
  <2>1. UNCHANGED <<token, lifted, overlapped>>
    BY <1>4 DEF CrashRequest
  <2>2. /\ session'[r].at = "error"
        /\ \A q \in Request : q # r => session'[q] = session[q]
    BY <1>1, <1>4, EndsTyped DEF CrashRequest
  <2>3. LatestMetadata'
    <3>1. \A q \in Request : Ok(q)' => Ok(q)
      BY <2>2 DEF Ok
    <3> QED
      BY <2>1, <3>1, LatestFrame
  <2>4. Alone'
    BY <2>1, <2>2 DEF LInv, Alone, Opened
  <2> QED
    BY <2>3, <2>4 DEF LInv
<1>5. ASSUME UNCHANGED <<token, session, overlapped>>, lifted' = lifted \/ ~Opened'
      PROVE  LInv'
  <2>1. LatestMetadata'
    BY <1>5, LatestFrame DEF Ok
  <2>2. Alone'
    BY <1>5 DEF LInv, Alone, Opened
  <2> QED
    BY <2>1, <2>2 DEF LInv
<1>6. CASE LiftToken
  <2>1. UNCHANGED <<token, session>> /\ Opens
    BY <1>6 DEF LiftToken
  <2>2. LatestMetadata'
    BY <2>1, LatestFrame DEF Ok, Opens
  <2>3. Alone'
    <3> SUFFICES ASSUME ~overlapped' PROVE Alone'
      BY DEF Alone
    <3>1. ~overlapped /\ ~Open
      BY <2>1 DEF Opens
    <3>2. Len(token) <= 1 /\ \A q \in Request : session[q].at # "found"
      BY <3>1 DEF LInv, Alone, Open
    <3>3. \/ lifted'.at = "dead"
          \/ /\ lifted'.at = "found" /\ lifted'.row = Len(token)
             /\ Len(token) = 1 => lifted'.old = token[1].data
      BY <1>1, <1>6 DEF LiftToken, Unread
    <3> QED
      BY <2>1, <3>2, <3>3 DEF Alone, Opened
  <2> QED
    BY <2>2, <2>3 DEF LInv
<1>7. CASE FetchMetadata
  <2>1. UNCHANGED <<token, session, overlapped>> /\ lifted.at = "found"
    BY <1>7 DEF FetchMetadata
  <2>2. LatestMetadata'
    BY <2>1, LatestFrame DEF Ok
  <2>3. \/ lifted'.at = "dead"
        \/ /\ Len(token) = 1 /\ lifted'.at = "fetched"
           /\ lifted'.row = lifted.row /\ lifted'.old = lifted.old
           /\ lifted'.data = token[1].data
    <3>1. CASE GetMetadata = NoRow
      BY <1>7, <3>1 DEF FetchMetadata, Unread
    <3>2. CASE GetMetadata # NoRow
      <4>1. Len(token) = 1 /\ GetMetadata = token[1].data
        BY <3>2 DEF GetMetadata
      <4>2. lifted' = [lifted EXCEPT !.at = "fetched", !.data = token[1].data]
        BY <1>7, <3>2, <4>1 DEF FetchMetadata
      <4> QED
        BY <1>1, <4>1, <4>2 DEF MetadataTypeOK
    <3> QED
      BY <3>1, <3>2
  <2>4. Alone'
    BY <2>1, <2>3 DEF LInv, Alone, Opened
  <2> QED
    BY <2>2, <2>4 DEF LInv
<1>8. CASE CommitToken
  <2>1. UNCHANGED <<session, overlapped>> /\ lifted.at = "fetched" /\ lifted' = Unread
    BY <1>8 DEF CommitToken
  <2> SUFFICES ASSUME ~overlapped PROVE LInv'
    BY <2>1 DEF LInv, Alone, LatestMetadata
  <2>2. lifted.row = 1 /\ lifted.data = lifted.old
    BY <2>1 DEF LInv, Alone, Opened
  <2>3. UNCHANGED token
    BY <1>8, <2>2 DEF CommitToken
  <2> QED
    BY <1>5, <2>1, <2>3 DEF Opened, Unread
<1>9. CASE RestartInterpreter \/ CrashInterpreter
  BY <1>5, <1>9 DEF RestartInterpreter, CrashInterpreter, Opened, Unread
<1>10. CASE Transact \/ UNCHANGED vars
  BY <1>5, <1>10 DEF Transact, vars
<1> QED
  BY <1>2, <1>3, <1>4, <1>6, <1>7, <1>8, <1>9, <1>10 DEF Next, Interpret

\* Without overlaps, the gateway accepts one update for each nonce, and a token
\* shows the last, whatever the interpreter has copied and wherever it died.
THEOREM LastAcceptedShown == Spec => []LatestMetadata
<1>1. LInv => LatestMetadata
  BY DEF LInv
<1> QED
  BY InitHolds, NextHolds, LatestInit, LatestHolds, <1>1, PTL DEF Spec
=============================================================================
