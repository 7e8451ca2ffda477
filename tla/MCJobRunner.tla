----------------------------- MODULE MCJobRunner -----------------------------
(***************************************************************************)
(* A small instance of JobRunner for TLC.  With a time to live of one tick  *)
(* and three clock readings a job can expire while the next is still fresh. *)
(* A long poll may end within a tick or at a reading past the expiry.       *)
(***************************************************************************)
EXTENDS JobRunner

CONSTANTS alice, bob, w1, NoOne, Never
===============================================================================
