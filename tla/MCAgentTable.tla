---------------------------- MODULE MCAgentTable ----------------------------
(***************************************************************************)
(* Instances of AgentTable for TLC: three runs, so that one can look up,   *)
(* create or append between the steps of two others.                       *)
(***************************************************************************)
EXTENDS AgentTable, TLC

\* Runs differ by their flags only, which TableInit takes all of.
RunSymmetry == Permutations(Runs)
=============================================================================
