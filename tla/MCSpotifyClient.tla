--------------------------- MODULE MCSpotifyClient ---------------------------
(***************************************************************************)
(* Small instances of SpotifyClient for TLC: up to three concurrent calls, *)
(* two user tokens, one retry.                                             *)
(***************************************************************************)
EXTENDS SpotifyClient, TLC

CONSTANTS c1, c2, c3, alice, bob, main, nobody, unknown

Symmetric == Permutations(Call)
===============================================================================
