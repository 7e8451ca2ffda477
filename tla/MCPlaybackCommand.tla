-------------------------- MODULE MCPlaybackCommand --------------------------
(***************************************************************************)
(* Small instances of PlaybackCommand for TLC: one clean and one explicit  *)
(* track, plays of up to two, and three people with different preferences. *)
(***************************************************************************)
EXTENDS PlaybackCommand

CONSTANTS clean, rude, none, phone, desk, anywhere, nowhere, unset, on, off

(* One person with no wishes, one who refuses explicit tracks and shuffles, *)
(* and one whose preferences could only be read in part.                    *)
ThreePeople ==
    {[explicit |-> "allowed", dial |-> [m \in Mode |-> unset]],
     [explicit |-> "refused", dial |-> [m \in Mode |-> IF m = "shuffle" THEN on ELSE unset]],
     [explicit |-> "unknown", dial |-> [m \in Mode |-> on]]}
===============================================================================
