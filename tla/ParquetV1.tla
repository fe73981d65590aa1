------------------------------ MODULE ParquetV1 ------------------------------
(***************************************************************************)
(* The parquet command of v1 (main.go in deprecated/cmd/fie-importer and   *)
(* parquete_writer.go in deprecated/internal/streams): the compressed FIEs *)
(* are written as row groups of a Parquet file, while a second goroutine   *)
(* prints the progress.  The footer, without which nobody can read the     *)
(* file, is written by a deferred Close whose error is ignored.            *)
(***************************************************************************)
EXTENDS FIEStreamV1

VARIABLES
  batchSize,    \* --batch-size
  exporting,    \* where the command is
  rows,         \* the rows gathered and not yet written, by their numbers
  created,      \* whether the output file was created, which empties it
  groups,       \* the row groups in it
  footer,       \* whether its footer was written
  count,        \* the ingester's counter
  shown,        \* the counter as last printed
  ticking,      \* whether the status goroutine runs
  exported      \* how the command ended

parquetVars == <<batchSize, exporting, rows, created, groups, footer, count, shown, ticking, exported>>

\* The flag may also have a value that is refused.
ParquetInit ==
  /\ batchSize \in {0, BatchSize}
  /\ exporting = "flags"
  /\ rows = <<>> /\ groups = <<>>
  /\ created = FALSE /\ footer = FALSE
  /\ count = 0 /\ shown = 0
  /\ ticking = FALSE
  /\ exported = "none"

ExportFails ==
  /\ exporting' = "ended"
  /\ exported' = "failed"
  /\ UNCHANGED <<batchSize, rows, created, groups, footer, count, shown, ticking>>

\* Neither --pdids nor a --pdid-percent that is in range: the default is 0.
RefuseFlags == exporting = "flags" /\ where = "none" /\ ExportFails /\ UNCHANGED streamVars

\* NewCompressedFIEStream counts the rows, or fails.
CountRows ==
  /\ exporting = "flags"
  /\ where # "none"
  /\ \/ CanMake /\ exporting' = "counted" /\ UNCHANGED <<batchSize, rows, created, groups, footer, count, shown, ticking, exported>>
     \/ ExportFails
  /\ UNCHANGED streamVars

\* os.Create comes before the batch size is looked at.
CreateOutput ==
  /\ exporting = "counted"
  /\ \/ created' = TRUE /\ exporting' = "created" /\ UNCHANGED <<batchSize, rows, groups, footer, count, shown, ticking, exported>>
     \/ ExportFails
  /\ UNCHANGED streamVars

StartExport ==
  /\ exporting = "created"
  /\ IF batchSize <= 0
       THEN ExportFails
       ELSE /\ exporting' = "ingesting"
            /\ ticking' = TRUE
            /\ UNCHANGED <<batchSize, rows, created, groups, footer, count, shown, exported>>
  /\ UNCHANGED streamVars

\* Variant: the rows that remain at the end are left.
ShouldWriteFull == Len(rows) >= batchSize

\* A full batch, and what remains at the end.
ShouldWrite == ShouldWriteFull \/ (streamEnd = "ended" /\ rows # <<>>)

AppendRow ==
  /\ exporting = "ingesting"
  /\ ~ShouldWrite
  /\ GiveRow
  /\ rows' = Append(rows, given')
  /\ UNCHANGED <<batchSize, exporting, created, groups, footer, count, shown, ticking, exported>>

\* write: a row group of its own, then the counter.
Write ==
  /\ exporting = "ingesting"
  /\ ShouldWrite
  /\ groups' = Append(groups, rows)
  /\ count' = count + Len(rows)
  /\ rows' = <<>>
  /\ UNCHANGED <<streamVars, batchSize, exporting, created, footer, shown, ticking, exported>>

\* Write or Flush fails; the group may be in the file, or get there on Close.
WriteFails ==
  /\ exporting = "ingesting"
  /\ ShouldWrite
  /\ groups' \in {groups, Append(groups, rows)}
  /\ exporting' = "failed"
  /\ UNCHANGED <<streamVars, batchSize, rows, created, footer, count, shown, ticking, exported>>

IngestEnds ==
  /\ exporting = "ingesting"
  /\ ~ShouldWrite
  /\ \/ EndStream /\ UNCHANGED exporting
     \/ GiveError /\ exporting' = "failed"
     \/ streamEnd = "ended" /\ exporting' = "written" /\ UNCHANGED streamVars
  /\ UNCHANGED <<batchSize, rows, created, groups, footer, count, shown, ticking, exported>>

\* A tick of the status goroutine.
Tick ==
  /\ ticking
  /\ shown' = count
  /\ UNCHANGED <<streamVars, batchSize, exporting, rows, created, groups, footer, count, ticking, exported>>

\* done is closed, or the group's context canceled.
TickerEnds ==
  /\ ticking
  /\ exporting \in {"written", "failed"}
  /\ ticking' = FALSE
  /\ UNCHANGED <<streamVars, batchSize, exporting, rows, created, groups, footer, count, shown, exported>>

\* group.Wait returns; "complete" is printed before the file is closed.
Report ==
  /\ exporting \in {"written", "failed"}
  /\ ~ticking
  /\ exporting' = "closing"
  /\ exported' = IF exporting = "written" THEN "complete" ELSE "failed"
  /\ shown' = IF exporting = "written" THEN count ELSE shown
  /\ UNCHANGED <<streamVars, batchSize, rows, created, groups, footer, count, ticking>>

\* The deferred Close writes the footer, after a failure too, or fails unseen.
CloseIngester ==
  /\ exporting = "closing"
  /\ footer' \in BOOLEAN
  /\ exporting' = "ended"
  /\ UNCHANGED <<streamVars, batchSize, rows, created, groups, count, shown, ticking, exported>>

\* v1 handles no signal: an interrupt ends the process where it is.
DieExporting ==
  /\ exporting # "ended"
  /\ exporting' = "ended"
  /\ exported' = "killed"
  /\ ticking' = FALSE
  /\ UNCHANGED <<streamVars, batchSize, rows, created, groups, footer, count, shown>>

ParquetStep ==
  \/ RefuseFlags \/ CountRows \/ CreateOutput \/ StartExport
  \/ AppendRow \/ Write \/ WriteFails \/ IngestEnds
  \/ TickerEnds \/ Report \/ CloseIngester

ParquetNext == ParquetStep \/ Tick \/ DieExporting
-----------------------------------------------------------------------------
(***************************************************************************)
(* At every moment the file has the first rows of the capture files, each  *)
(* once and in their order, whatever failed, and the progress never counts *)
(* a row that is not in it.  "complete" is said of no file that lacks one. *)
(***************************************************************************)
ExportIsWhole ==
  LET written == FlattenSeq(groups)
  IN  /\ written = [i \in 1..Len(written) |-> i]
      /\ shown <= count /\ count <= Len(written)
      /\ \A g \in ToSet(groups) : Len(g) \in 1..BatchSize
      /\ exported = "complete" => Len(written) = Total /\ count = Total /\ shown = Total
=============================================================================
