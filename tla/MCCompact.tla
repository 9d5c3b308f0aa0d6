----------------------------- MODULE MCCompact -----------------------------
(***************************************************************************)
(* Four variables that are used, frozen, melted, fixed and eliminated      *)
(* between compactions, without clauses, assumptions or phases: what       *)
(* freezing promises is independent of them.                               *)
(***************************************************************************)
EXTENDS Compact

MCNext == Use \/ Freeze \/ Melt \/ Fix \/ Eliminate \/ compact
MCSpec == Init /\ [][MCNext]_vars
=============================================================================
