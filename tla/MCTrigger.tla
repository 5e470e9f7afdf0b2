----------------------------- MODULE MCTrigger ------------------------------
(***************************************************************************)
(* Trigger with a short table of intervals.                                *)
(***************************************************************************)
EXTENDS Trigger

\* two tries at once, then one hour, then two
ShortBackoff == <<0, 0, 1, 2>>
=============================================================================
