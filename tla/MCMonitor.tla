------------------------------ MODULE MCMonitor ------------------------------
(***************************************************************************)
(* Three withdrawals in up to two blocks of L1: a token, and equal amounts *)
(* of two contracts, for which the user has chosen one nonce.              *)
(***************************************************************************)
EXTENDS Monitor

CONSTANTS w1, w2, w3

MCDetail ==
  [w \in {w1, w2, w3} |->
     IF w = w3 THEN <<"token", FALSE, 1>> ELSE <<"amount", 1, 1>>]
=============================================================================
