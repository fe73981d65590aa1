----------------------------- MODULE MCSnapshot -----------------------------
(***************************************************************************)
(* Instances of Snapshot for TLC: more VMs than places.  No symmetry, for  *)
(* liveness is checked.                                                    *)
(***************************************************************************)
EXTENDS Snapshot
=============================================================================
