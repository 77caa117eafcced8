------------------------------ MODULE MCTasks ------------------------------
(***************************************************************************)
(* Tasks for TLC: messages as model values.                                *)
(***************************************************************************)
EXTENDS Tasks, TLC
=============================================================================
