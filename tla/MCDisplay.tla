------------------------------ MODULE MCDisplay ------------------------------
(***************************************************************************)
(* Instances of DisplayedRun for TLC.                                      *)
(***************************************************************************)
EXTENDS DisplayedRun

MCFiles == <<2, 1>>
=============================================================================
