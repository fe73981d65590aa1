--------------------------------- MODULE V1 ----------------------------------
(***************************************************************************)
(* The two readers of v1's streams of FIEs: the parquet command, and the   *)
(* loader of ClickHouse tables, that v1 has as a library.  One of them     *)
(* runs, over a stream of its own.                                         *)
(***************************************************************************)
EXTENDS ParquetV1, IngestV1

VARIABLE
  reader        \* the one that runs

vars == <<reader, streamVars, parquetVars, ingestVars>>

\* The parquet command exports compressed FIEs, with any of its flags.  The
\* loader gets a stream that could be made, of either kind.
Init ==
  /\ reader \in {"parquet", "ingest"}
  /\ StreamInit
  /\ ParquetInit
  /\ IngestInit
  /\ reader = "parquet" => ~full
  /\ reader = "ingest" => where \in {"all", "sample"} /\ CanMake

Parquet(A) == reader = "parquet" /\ A /\ UNCHANGED <<reader, ingestVars>>
Loader(A) == reader = "ingest" /\ A /\ UNCHANGED <<reader, parquetVars>>

Next == Parquet(ParquetNext) \/ Loader(IngestNext)

Spec == Init /\ [][Next]_vars

\* The goroutines are scheduled; nothing says that a tick or an interrupt comes.
FairSpec ==
  /\ Spec
  /\ WF_vars(Parquet(ParquetStep))
  /\ WF_vars(Loader(Producer))
  /\ \A w \in Workers : WF_vars(Loader(Worker(w)))
  /\ WF_vars(Loader(Ingest))
-----------------------------------------------------------------------------
(***************************************************************************)
(* Both end, whatever fails and whoever cancels: a producer whose workers  *)
(* are gone does not wait for room, workers whose producer is gone do not  *)
(* wait for items, and the status goroutine does not keep the export.      *)
(***************************************************************************)
V1Ends == <>(exporting = "ended" \/ ingested # "none")
=============================================================================
