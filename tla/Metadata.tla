------------------------------- MODULE Metadata -------------------------------
(***************************************************************************)
(* The metadata of one token of a collection that the gateway hosts.  For  *)
(* each update the minter signs the token and its nonce; the interpreter,  *)
(* when a transaction names the token, asks the gateway for the metadata,  *)
(* as it would ask any other server, and writes a copy into the same row.  *)
(*                                                                         *)
(* Nothing makes a token unique in its table, and no session locks a row.  *)
(***************************************************************************)
EXTENDS Integers, Sequences

CONSTANTS
  Data,        \* what metadata may be
  NoRow,       \* nothing read yet
  Request,     \* PUT .../_metadata requests, retries included
  NonceOf,     \* NonceOf[r]: the nonce that was signed
  DataOf,      \* DataOf[r]: the metadata, which is not signed
  MaxLog,      \* bound: transactions of L2 that name the token
  MaxCrashes   \* bound: crashes of the gateway and of the interpreter

ASSUME MetadataAssumption ==
  /\ NoRow \notin Data
  /\ NonceOf \in [Request -> Nat] /\ DataOf \in [Request -> Data]
  /\ MaxLog \in Nat /\ MaxCrashes \in Nat

VARIABLES
  token,     \* the rows of the token: a sequence of [nonce, data]
  session,   \* [Request -> its progress and what its select found]
  log,       \* how many transactions the interpreter has yet to pass
  sent,      \* how many there were
  lifted,    \* the interpreter's progress and what it has read
  overlapped, \* whether two sessions were open at once (history)
  crashes

vars == <<token, session, log, sent, lifted, overlapped, crashes>>

Row == [nonce : Nat, data : Data]

\* row is the index of the row that was found, 0 for a new one.
Idle == [at |-> "idle", row |-> 0, nonce |-> 0]
Unread == [at |-> "idle", row |-> 0, old |-> NoRow, data |-> NoRow]

Init ==
  /\ token = <<>>
  /\ session = [r \in Request |-> Idle]
  /\ log = 0 /\ sent = 0
  /\ lifted = Unread
  /\ overlapped = FALSE
  /\ crashes = 0

Open == \/ \E r \in Request : session[r].at = "found"
        \/ lifted.at \in {"found", "fetched"}

\* A session opens; it does not wait for others.
Opens == overlapped' = (overlapped \/ Open)

Ends(r, at) == session' = [session EXCEPT ![r] = [Idle EXCEPT !.at = at]]

-----------------------------------------------------------------------------
(***************************************************************************)
(* The gateway's update_metadata.                                          *)
(***************************************************************************)
Signed_Slip(r, nonce) == NonceOf[r] <= nonce

\* authenticate: the minter's signature is over the address, the token and the
\* nonce.  It does not cover the metadata: with it any may be sent, once.
Signed(r, nonce) == NonceOf[r] = nonce

SelectToken(r) ==
  LET nonce == IF token = <<>> THEN 0 ELSE token[1].nonce IN
  /\ session[r].at = "idle"
  /\ Opens
  /\ \/ /\ Len(token) > 1       \* MultipleResultsFound
        /\ Ends(r, "error")
     \/ /\ Len(token) <= 1 /\ ~Signed(r, nonce)
        /\ Ends(r, "unauthorized")
     \/ /\ Len(token) <= 1 /\ Signed(r, nonce)
        /\ session' = [session EXCEPT ![r] =
                         [at |-> "found", row |-> Len(token), nonce |-> nonce]]
  /\ UNCHANGED <<token, log, sent, lifted, crashes>>

CommitUpdate(r) ==
  LET s == session[r]
      row == [nonce |-> s.nonce + 1, data |-> DataOf[r]]
  IN
  /\ s.at = "found"
  /\ token' = IF s.row = 0 THEN Append(token, row) ELSE [token EXCEPT ![s.row] = row]
  /\ Ends(r, "ok")
  /\ UNCHANGED <<log, sent, lifted, overlapped, crashes>>

CrashRequest(r) ==
  /\ session[r].at = "found" /\ crashes < MaxCrashes
  /\ crashes' = crashes + 1
  /\ Ends(r, "error")
  /\ UNCHANGED <<token, log, sent, lifted, overlapped>>

\* get_metadata and get_metadata_by_permanent_id: one row, or an error
GetMetadata == IF Len(token) = 1 THEN token[1].data ELSE NoRow

-----------------------------------------------------------------------------
(***************************************************************************)
(* The interpreter's lift_token.                                           *)
(***************************************************************************)
Transact ==
  /\ sent < MaxLog
  /\ sent' = sent + 1 /\ log' = log + 1
  /\ UNCHANGED <<token, session, lifted, overlapped, crashes>>

LiftToken ==
  /\ lifted.at = "idle" /\ log > 0
  /\ Opens
  /\ lifted' = IF Len(token) > 1 THEN [Unread EXCEPT !.at = "dead"]
               ELSE [Unread EXCEPT !.at = "found", !.row = Len(token),
                       !.old = IF token = <<>> THEN NoRow ELSE token[1].data]
  /\ UNCHANGED <<token, session, log, sent, crashes>>

\* Without metadata there is nothing to validate, and the process dies.
FetchMetadata ==
  /\ lifted.at = "found"
  /\ lifted' = IF GetMetadata = NoRow THEN [Unread EXCEPT !.at = "dead"]
               ELSE [lifted EXCEPT !.at = "fetched", !.data = GetMetadata]
  /\ UNCHANGED <<token, session, log, sent, overlapped, crashes>>

CommitToken_Slip ==
  /\ lifted.at = "fetched"
  /\ token' = Append(token, [nonce |-> 0, data |-> lifted.data])
  /\ log' = log - 1
  /\ lifted' = Unread
  /\ UNCHANGED <<session, sent, overlapped, crashes>>

\* A column is written if it differs from what was read.
CommitToken ==
  /\ lifted.at = "fetched"
  /\ \/ /\ lifted.row = 0
        /\ token' = Append(token, [nonce |-> 0, data |-> lifted.data])
     \/ /\ lifted.row # 0
        /\ token' = IF lifted.data = lifted.old THEN token
                    ELSE [token EXCEPT ![lifted.row].data = lifted.data]
  /\ log' = log - 1
  /\ lifted' = Unread
  /\ UNCHANGED <<session, sent, overlapped, crashes>>

RestartInterpreter ==
  /\ lifted.at = "dead"
  /\ lifted' = Unread
  /\ UNCHANGED <<token, session, log, sent, overlapped, crashes>>

CrashInterpreter ==
  /\ lifted.at \in {"found", "fetched"} /\ crashes < MaxCrashes
  /\ crashes' = crashes + 1
  /\ lifted' = Unread
  /\ UNCHANGED <<token, session, log, sent, overlapped>>

Interpret == LiftToken \/ FetchMetadata \/ CommitToken \/ RestartInterpreter

Next ==
  \/ \E r \in Request : SelectToken(r) \/ CommitUpdate(r) \/ CrashRequest(r)
  \/ Transact
  \/ Interpret \/ CrashInterpreter

Spec == Init /\ [][Next]_vars

\* The interpreter runs or is restarted; a request that has begun goes on.
FairSpec ==
  /\ Spec
  /\ WF_vars(Interpret)
  /\ \A r \in Request : WF_vars(CommitUpdate(r))

-----------------------------------------------------------------------------
MetadataTypeOK ==
  /\ token \in Seq(Row)
  /\ session \in [Request -> [at : {"idle", "found", "ok", "unauthorized", "error"},
                              row : Nat, nonce : Nat]]
  /\ log \in 0 .. sent /\ sent \in 0 .. MaxLog
  /\ lifted \in [at : {"idle", "found", "fetched", "dead"}, row : Nat,
                 old : Data \cup {NoRow}, data : Data \cup {NoRow}]
  /\ overlapped \in BOOLEAN
  /\ crashes \in 0 .. MaxCrashes

Ok(r) == session[r].at = "ok"

\* As long as no two sessions were open at once, they use each nonce once, and
\* the row shows the metadata of the last update that was accepted: the
\* interpreter's copy, which comes by another way round, never brings an older
\* one back.
LatestMetadata ==
  ~overlapped => \A r \in Request :
    /\ Ok(r) => Len(token) = 1 /\ token[1].nonce > NonceOf[r]
    /\ \A s \in Request : Ok(r) /\ Ok(s) /\ NonceOf[r] = NonceOf[s] => r = s
    /\ Ok(r) /\ token[1].nonce = NonceOf[r] + 1 => token[1].data = DataOf[r]

\* However sessions overlap, no row gets ahead of the minter: below its nonce
\* there is an accepted update for each, and what it shows, the interpreter's
\* copies included, some accepted update has said.
AcceptedMetadata ==
  \A i \in DOMAIN token :
    /\ \A n \in 0 .. token[i].nonce - 1 : \E r \in Request : Ok(r) /\ NonceOf[r] = n
    /\ \E r \in Request : Ok(r) /\ DataOf[r] = token[i].data

\* The rows are well formed and say what was accepted.
MetadataInv == MetadataTypeOK /\ AcceptedMetadata

\* A mint whose metadata came too late stops the interpreter only until then,
\* unless sessions overlapped: two rows of one token stop it for ever.
MintPassed == token # <<>> /\ log > 0 ~> log = 0 \/ overlapped
=============================================================================
