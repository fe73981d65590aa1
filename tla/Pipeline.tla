------------------------------ MODULE Pipeline ------------------------------
(***************************************************************************)
(* The pipeline that upload-fies and upload-pds fill their table with: one *)
(* goroutine reads the input into batches, the other inserts them, and a   *)
(* channel of two batches lies between them.  Both run in an errgroup: the *)
(* first error of either cancels the context of both, and the group's Wait *)
(* returns it.  The code is transfer in cmd/fie-importer/upload_fies.go    *)
(* and transferPDs in cmd/fie-importer/upload_pds.go.                      *)
(*                                                                         *)
(* A row stands for its position in the input: the n-th row the input      *)
(* gives the reader is n.  What the input is, and when it ends, is said by *)
(* the modules that extend this one.                                       *)
(***************************************************************************)
EXTENDS TableRun

CONSTANT BatchSize              \* --batch-size
ASSUME BatchSizeAssumption == BatchSize \in Nat \ {0}

ChanCap == 2                    \* make(chan []Row, 2)

VARIABLES
  reader,       \* the reading goroutine's control state
  batch,        \* rows read and not sent yet
  read,         \* how many rows the input gave the reader
  chan,         \* the batches in the channel, oldest first
  inserter,     \* the inserting goroutine's control state
  inserting,    \* the batch the inserter received last and still inserts
  sent,         \* how many rows ClickHouse acknowledged
  groupErr      \* the errgroup's first error

pipeVars == <<reader, batch, read, chan, inserter, inserting, sent, groupErr>>

PipeTypeOK ==
  /\ reader \in {"between", "reading", "sending", "flushing", "done"}
  /\ batch \in Seq(Nat)
  /\ read \in Nat
  /\ chan \in Seq(Seq(Nat))
  /\ Len(chan) <= ChanCap
  /\ inserter \in {"waiting", "inserting", "done"}
  /\ inserting \in Seq(Nat)
  /\ sent \in Nat
  /\ groupErr \in RunErrs

PipeInit ==
  /\ batch = <<>>
  /\ read = 0
  /\ chan = <<>>
  /\ inserter = "waiting"
  /\ inserting = <<>>
  /\ sent = 0
  /\ groupErr = NoErr

Filling == phase = "fill"

\* The context errgroup.WithContext derives is done when the command's is and
\* when a goroutine of the group failed.
CtxDone == interrupted \/ groupErr # NoErr

\* Variant: the last error is kept.
ReportLast(e) == groupErr' = IF e = NoErr THEN groupErr ELSE e

\* A goroutine of the group returns e; only the first error is kept.
Report(e) == groupErr' = IF groupErr = NoErr THEN e ELSE groupErr

\* The reader returns, closing the channel by its defer.
ReaderReturns(e) ==
  /\ reader' = "done"
  /\ Report(e)

\* The reader appends the input's next row to its batch; a full batch is to
\* be sent before anything else is read.
AppendRow ==
  /\ read' = read + 1
  /\ batch' = Append(batch, read + 1)
  /\ reader' = IF Len(batch) + 1 < BatchSize THEN "reading" ELSE "sending"

\* The input ended: what is left in the batch is sent, if anything is.
LastBatch ==
  IF batch # <<>>
  THEN reader' = "flushing" /\ UNCHANGED groupErr
  ELSE ReaderReturns(NoErr)

\* case batches <- batch: the channel has room.  The batch is replaced by a
\* new one; the last one needs no successor and the reader returns.
SendBatch ==
  /\ Filling
  /\ reader \in {"sending", "flushing"}
  /\ Len(chan) < ChanCap
  /\ chan' = Append(chan, batch)
  /\ batch' = <<>>
  /\ reader' = IF reader = "sending" THEN "reading" ELSE "done"
  /\ UNCHANGED <<runVars, read, inserter, inserting, sent, groupErr>>

\* Variant: a plain send, without the select.
SendNeverCanceled == FALSE

\* case <-ctx.Done().  With room in the channel too, select takes either.
SendCanceled ==
  /\ Filling
  /\ reader \in {"sending", "flushing"}
  /\ CtxDone
  /\ ReaderReturns(Canceled)
  /\ UNCHANGED <<runVars, batch, read, chan, inserter, inserting, sent>>

\* for batch := range batches: the next batch.  The inserter does not look at
\* the context here, only its call to ClickHouse does.
ReceiveBatch ==
  /\ Filling
  /\ inserter = "waiting"
  /\ chan # <<>>
  /\ inserting' = Head(chan)
  /\ chan' = Tail(chan)
  /\ inserter' = "inserting"
  /\ UNCHANGED <<runVars, reader, batch, read, sent, groupErr>>

\* Variant: the channel is closed only by a reader that succeeded.
InserterReturnsOnSuccess ==
  /\ Filling
  /\ inserter = "waiting"
  /\ chan = <<>>
  /\ reader = "done"
  /\ groupErr = NoErr
  /\ inserter' = "done"
  /\ UNCHANGED <<runVars, reader, batch, read, chan, inserting, sent, groupErr>>

\* for batch := range batches: the channel is closed and drained.
InserterReturns ==
  /\ Filling
  /\ inserter = "waiting"
  /\ chan = <<>>
  /\ reader = "done"
  /\ inserter' = "done"
  /\ UNCHANGED <<runVars, reader, batch, read, chan, inserting, sent, groupErr>>

\* Variant: a batch whose acknowledgment was lost is sent again.
InsertBatchTwice ==
  /\ Filling
  /\ inserter = "inserting"
  /\ rows' = rows \o inserting \o inserting
  /\ sent' = sent + Len(inserting)
  /\ inserting' = <<>>
  /\ inserter' = "waiting"
  /\ UNCHANGED <<phase, server, created, err, dropFailed, record, interrupted,
                 dropOnFail, reader, batch, read, chan, groupErr>>

\* A batch is one block of ClickHouse's native protocol: it is in the table
\* as a whole or not at all.
InsertBatch ==
  /\ Filling
  /\ inserter = "inserting"
  /\ rows' = rows \o inserting
  /\ sent' = sent + Len(inserting)
  /\ inserting' = <<>>
  /\ inserter' = "waiting"
  /\ UNCHANGED <<phase, server, created, err, dropFailed, record, interrupted,
                 dropOnFail, reader, batch, read, chan, groupErr>>

\* Variant: the inserter goes on with the next batch after an error.
InsertFailsAndGoesOn ==
  /\ Filling
  /\ inserter = "inserting"
  /\ rows' \in {rows, rows \o inserting}
  /\ inserting' = <<>>
  /\ inserter' = "waiting"
  /\ \E e \in CallErrs("insert", CtxDone) : Report(e)
  /\ UNCHANGED <<phase, server, created, err, dropFailed, record, interrupted,
                 dropOnFail, reader, batch, read, chan, sent>>

\* The insert returns an error, with the rows in the table or not, and the
\* inserter returns, leaving what is in the channel.
InsertFails ==
  /\ Filling
  /\ inserter = "inserting"
  /\ rows' \in {rows, rows \o inserting}
  /\ inserting' = <<>>
  /\ inserter' = "done"
  /\ \E e \in CallErrs("insert", CtxDone) : Report(e)
  /\ UNCHANGED <<phase, server, created, err, dropFailed, record, interrupted,
                 dropOnFail, reader, batch, read, chan, sent>>

PipeStep == \/ SendBatch \/ SendCanceled
            \/ ReceiveBatch \/ InserterReturns
            \/ InsertBatch \/ InsertFails

\* group.Wait returns once both goroutines did.
Waited == Filling /\ reader = "done" /\ inserter = "done"

\* The process is killed, or the machine dies: nothing is deferred.  An insert
\* in flight reaches the table or not.
Kill ==
  /\ Running
  /\ phase' = "killed"
  /\ rows' \in {rows} \cup
               (IF inserter = "inserting" THEN {rows \o inserting} ELSE {})
  /\ UNCHANGED <<server, created, err, dropFailed, record, interrupted,
                 dropOnFail, pipeVars>>
-----------------------------------------------------------------------------
\* Rows lo, lo + 1, ... of the input, in its order.
Run(s, lo) == \A i \in 1..Len(s) : s[i] = lo + i - 1

\* The batches of c are, one after the other, the rows lo to hi of the input.
Chain(c, lo, hi) ==
  /\ lo <= hi + 1
  /\ \A i \in 1..Len(c) : /\ c[i] # <<>>
                           /\ Run(c[i], c[i][1])
                           /\ c[i][1] + Len(c[i]) <= hi + 1
  /\ \A i \in 1..Len(c) - 1 : c[i + 1][1] = c[i][1] + Len(c[i])
  /\ IF c = <<>>
     THEN hi = lo - 1
     ELSE c[1][1] = lo /\ c[Len(c)][1] + Len(c[Len(c)]) = hi + 1

\* Unless an insert failed, every row read is in exactly one of: the table, the
\* batch being inserted, the channel, the reader's batch - in this order.
Lossless ==
  /\ Run(inserting, Len(rows) + 1)
  /\ sent = Len(rows)
  /\ Chain(chan, Len(rows) + Len(inserting) + 1, read - Len(batch))

\* The table may still become whole.
Intact ==
  /\ Opening \/ phase \in {"fill", "verify"}
  /\ inserter # "done" \/ groupErr = NoErr

\* What the goroutines' control states say about the batches.
PipeInv ==
  /\ Run(rows, 1)
  /\ Len(rows) <= read
  /\ Run(batch, read - Len(batch) + 1)
  /\ Len(batch) <= BatchSize
  /\ Len(batch) = BatchSize => reader \notin {"between", "reading"}
  /\ reader \in {"sending", "flushing"} => batch # <<>>
  /\ Len(inserting) <= BatchSize
  /\ \A i \in 1..Len(chan) : Len(chan[i]) \in 1..BatchSize
  /\ inserter # "inserting" => inserting = <<>>
  /\ Opening => rows = <<>> /\ inserter = "waiting"
  /\ Intact => Lossless
  /\ reader = "done" /\ groupErr = NoErr => batch = <<>>
  /\ inserter = "done" /\ groupErr = NoErr => reader = "done" /\ chan = <<>>
  /\ phase = "verify" => inserter = "done" /\ groupErr = NoErr
  /\ Returned => inserter # "inserting"

(***************************************************************************)
(* What ClickHouse holds of the input is always its first rows: none is    *)
(* missing before a row that is there, none is there twice, and they were  *)
(* inserted in the input's order - with batches in flight, after a failed  *)
(* insert that reached the server or not, after a signal, and when the     *)
(* process was killed (transfer and transferPDs, with the README's         *)
(* "--drop-on-fail=false keeps what was inserted").                        *)
(***************************************************************************)
TableIsPrefix == Run(rows, 1) /\ Len(rows) <= read

(***************************************************************************)
(* The error a user reads is the cause: "context canceled" is reported     *)
(* only when a signal did cancel the run, never because the other          *)
(* goroutine's failure canceled the group's context (errgroup keeps the    *)
(* first error; select on ctx.Done() in transfer and flush).               *)
(***************************************************************************)
CauseIsReported == err = Canceled \/ groupErr = Canceled => interrupted

(***************************************************************************)
(* Four batches are in memory at most: the one being read, ChanCap of them *)
(* in the channel, the one being inserted; each has --batch-size rows or   *)
(* fewer.  That is the memory an upload needs, however long its input is.  *)
(***************************************************************************)
BoundedMemory ==
  /\ Len(batch) <= BatchSize
  /\ Len(batch) = BatchSize => reader # "reading"
  /\ Len(inserting) <= BatchSize
  /\ Len(chan) <= ChanCap
  /\ \A i \in 1..Len(chan) : Len(chan[i]) \in 1..BatchSize
=============================================================================
