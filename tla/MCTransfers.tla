----------------------------- MODULE MCTransfers -----------------------------
(***************************************************************************)
(* Two accounts and two opposite transfers, so that both touch both        *)
(* balances.  The payee has nothing at first: h2 executes only after h1.   *)
(***************************************************************************)
EXTENDS Transfers

CONSTANTS h1, h2, payer, payee, r1, r2

MCTerms ==
  [h \in {h1, h2} |-> IF h = h1 THEN [from |-> payer, to |-> payee, amount |-> 2]
                                ELSE [from |-> payee, to |-> payer, amount |-> 1]]

MCHashOf == [r \in Request |-> IF r = r2 THEN h2 ELSE h1]

\* The row of payee is inserted by the first session that books something.
MCOpening == [x \in {payer, payee} |-> IF x = payer THEN 3 ELSE 0]
=============================================================================
