---------------------------- MODULE MCUploadFIEs ----------------------------
(***************************************************************************)
(* Instances of UploadFIEs for TLC.                                        *)
(***************************************************************************)
EXTENDS UploadFIEs

\* Nothing to upload; one read; reads that end within a batch, with a batch,
\* and one row after it; more full batches than the channel holds.
MCPlans == {<<>>, <<1>>, <<1, 3>>, <<2, 4>>, <<3, 9>>}
=============================================================================
