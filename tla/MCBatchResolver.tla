--------------------------- MODULE MCBatchResolver ---------------------------
(***************************************************************************)
(* A small instance of BatchResolver for TLC: three items and two permits, *)
(* one of them in line, and searches that find up to two tracks.           *)
(***************************************************************************)
EXTENDS BatchResolver, TLC

CONSTANTS plain, rude, broken, none
===============================================================================
