---------------------------- MODULE MCMergeFile -----------------------------
(***************************************************************************)
(* Instances of MergeFile for TLC.                                         *)
(***************************************************************************)
EXTENDS MergeFile

\* An empty merge, and counts that another run's changed inputs can have too.
MCTotal == [r \in Runs |-> IF r = 1 THEN 0 ELSE 1]
=============================================================================
