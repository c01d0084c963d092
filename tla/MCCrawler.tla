------------------------------ MODULE MCCrawler ------------------------------
(***************************************************************************)
(* Three blocks at most, in buckets of two and batches of two; the         *)
(* exchange is deployed in the first and called in the two after it.       *)
(***************************************************************************)
EXTENDS Crawler
=============================================================================
