------------------------------- MODULE IngestV1 ------------------------------
(***************************************************************************)
(* v1's loader of ClickHouse tables, Ingest of clickhouse_ingester.go over *)
(* parallel_foreach.go and clickhouse_batch_writer.go in                   *)
(* deprecated/internal/streams.  A producer puts the stream's items into a *)
(* channel, workers gather them in batches of their own and insert a batch *)
(* when it is full, and when all of them have returned, the batches that   *)
(* are left are inserted one after the other.                              *)
(*                                                                         *)
(* The channel is the items taken+1 to put: it is first in, first out.     *)
(***************************************************************************)
EXTENDS FIEStreamV1, FiniteSets

CONSTANTS
  NWorkers,     \* the workers are 1 to NWorkers
  BufferSizes   \* what the channel may hold; 0 is a rendezvous

ASSUME IngestAssumption ==
  NWorkers \in Nat \ {0} /\ BufferSizes \subseteq Nat /\ BatchSize \in Nat \ {0}

VARIABLES
  bufferSize,   \* what the channel holds
  put,          \* how many items were put into it
  taken,        \* and how many were taken from it
  producing,    \* whether the producer has still to close it
  item,         \* the item that a worker holds, or none
  working,      \* whether a worker has still to return
  batch,        \* a worker's rows that are not inserted
  table,        \* how many times the table has a row
  cause,        \* the group's first error
  interrupted,  \* whether the caller's context is canceled
  flushed,      \* whose last batch was inserted, once the group has returned
  ingested      \* how Ingest ended

ingestVars == <<bufferSize, put, taken, producing, item, working, batch, table, cause,
                interrupted, flushed, ingested>>

Workers == 1..NWorkers

NoItem == 0

IngestInit ==
  /\ bufferSize \in BufferSizes
  /\ put = 0 /\ taken = 0
  /\ producing = TRUE
  /\ item = [w \in Workers |-> NoItem]
  /\ working = [w \in Workers |-> TRUE]
  /\ batch = [w \in Workers |-> {}]
  /\ table = [i \in 1..Total |-> 0]
  /\ cause = "none"
  /\ interrupted = FALSE
  /\ flushed = 0
  /\ ingested = "none"

\* childCtx: canceled with the caller's, and by the group's first error.
GroupDone == interrupted \/ cause # "none"

FirstError(e) == cause' = IF cause = "none" THEN e ELSE cause

Idle(w) == working[w] /\ item[w] = NoItem

\* Receivers that wait take an item without the buffer.
Room == put - taken < bufferSize + Cardinality({w \in Workers : Idle(w)})

(***************************************************************************)
(* The producer.                                                           *)
(***************************************************************************)
\* The next item: a row, an error, or the stream's end.
Pull ==
  /\ producing
  /\ put = given
  /\ GiveRow \/ GiveError \/ EndStream
  /\ UNCHANGED ingestVars

Send ==
  /\ producing
  /\ put < given
  /\ Room
  /\ put' = put + 1
  /\ UNCHANGED <<streamVars, bufferSize, taken, producing, item, working, batch, table, cause, interrupted, flushed, ingested>>

\* Variant: the send is not left when the group is done.
SendForEver == FALSE

\* The select may leave the item although there is room for it.  It is an
\* error only of the caller's context.
SendCanceled ==
  /\ producing
  /\ put < given
  /\ GroupDone
  /\ producing' = FALSE
  /\ IF interrupted THEN FirstError("canceled") ELSE UNCHANGED cause
  /\ UNCHANGED <<streamVars, bufferSize, put, taken, item, working, batch, table, interrupted, flushed, ingested>>

ProducerEnds ==
  /\ producing
  /\ put = given
  /\ streamEnd # "more"
  /\ producing' = FALSE
  /\ UNCHANGED <<streamVars, bufferSize, put, taken, item, working, batch, table, cause, interrupted, flushed, ingested>>

Producer == Pull \/ Send \/ SendCanceled \/ ProducerEnds

(***************************************************************************)
(* A worker.                                                               *)
(***************************************************************************)
Take(w) ==
  /\ Idle(w)
  /\ taken < put
  /\ taken' = taken + 1
  /\ item' = [item EXCEPT ![w] = taken']
  /\ UNCHANGED <<streamVars, bufferSize, put, producing, working, batch, table, cause, interrupted, flushed, ingested>>

Inserted(rows) == [i \in DOMAIN table |-> IF i \in rows THEN table[i] + 1 ELSE table[i]]

\* Append of a row that leaves the batch short.
Gather(w) ==
  /\ item[w] # NoItem
  /\ ~IsError(item[w])
  /\ Cardinality(batch[w]) + 1 < BatchSize
  /\ batch' = [batch EXCEPT ![w] = @ \union {item[w]}]
  /\ item' = [item EXCEPT ![w] = NoItem]
  /\ UNCHANGED <<streamVars, bufferSize, put, taken, producing, working, table, cause, interrupted, flushed, ingested>>

\* Append of the row that fills it, which inserts it.
InsertFull(w) ==
  /\ item[w] # NoItem
  /\ ~IsError(item[w])
  /\ Cardinality(batch[w]) + 1 >= BatchSize
  /\ table' = Inserted(batch[w] \union {item[w]})
  /\ batch' = [batch EXCEPT ![w] = {}]
  /\ item' = [item EXCEPT ![w] = NoItem]
  /\ UNCHANGED <<streamVars, bufferSize, put, taken, producing, working, cause, interrupted, flushed, ingested>>

\* Variant: the batches are prepared under the group's context, which is done
\* when the group has returned.
BatchContextOfGroup == GroupDone \/ \A w \in Workers : ~working[w]

\* Batches are prepared under the caller's context, not under the group's.
BatchContextDone == interrupted

\* PrepareBatch, Append or Send fails: the server's error, or the context's.
\* The rows may have been inserted; the batch keeps them.
WorkerFails(w) ==
  /\ item[w] # NoItem
  /\ ~IsError(item[w])
  /\ IF BatchContextDone THEN FirstError("canceled") \/ FirstError("append") ELSE FirstError("append")
  /\ batch' = [batch EXCEPT ![w] = @ \union {item[w]}]
  /\ table' \in IF Cardinality(batch'[w]) >= BatchSize THEN {table, Inserted(batch'[w])} ELSE {table}
  /\ working' = [working EXCEPT ![w] = FALSE]
  /\ UNCHANGED <<streamVars, bufferSize, put, taken, producing, item, interrupted, flushed, ingested>>

\* The item is the stream's error.
StreamFails(w) ==
  /\ working[w]
  /\ item[w] # NoItem
  /\ IsError(item[w])
  /\ FirstError("stream")
  /\ working' = [working EXCEPT ![w] = FALSE]
  /\ UNCHANGED <<streamVars, bufferSize, put, taken, producing, item, batch, table, interrupted, flushed, ingested>>

\* The channel is closed and empty.  Others' errors do not end a worker.
WorkerEnds(w) ==
  /\ Idle(w)
  /\ ~producing
  /\ taken = put
  /\ working' = [working EXCEPT ![w] = FALSE]
  /\ UNCHANGED <<streamVars, bufferSize, put, taken, producing, item, batch, table, cause, interrupted, flushed, ingested>>

Worker(w) ==
  \/ Take(w) \/ WorkerEnds(w)
  \/ /\ working[w]
     /\ Gather(w) \/ InsertFull(w) \/ WorkerFails(w) \/ StreamFails(w)

(***************************************************************************)
(* Ingest, once the group has returned.                                    *)
(***************************************************************************)
GroupReturned == ~producing /\ \A w \in Workers : ~working[w]

IngestReturns(o) ==
  /\ ingested = "none"
  /\ ingested' = o
  /\ UNCHANGED <<streamVars, bufferSize, put, taken, producing, item, working, batch, cause, interrupted, flushed>>

GroupFailed == GroupReturned /\ cause # "none" /\ IngestReturns(cause) /\ UNCHANGED table

FlushRest ==
  /\ GroupReturned
  /\ cause = "none"
  /\ ingested = "none"
  /\ flushed < NWorkers
  /\ flushed' = flushed + 1
  /\ table' = Inserted(batch[flushed + 1])
  /\ batch' = [batch EXCEPT ![flushed + 1] = {}]
  /\ UNCHANGED <<streamVars, bufferSize, put, taken, producing, item, working, cause, interrupted, ingested>>

FlushFails ==
  /\ GroupReturned
  /\ cause = "none"
  /\ flushed < NWorkers
  /\ batch[flushed + 1] # {}
  /\ table' \in {table, Inserted(batch[flushed + 1])}
  /\ IF BatchContextDone THEN IngestReturns("canceled") ELSE IngestReturns("append")

IngestSucceeds ==
  /\ GroupReturned
  /\ cause = "none"
  /\ flushed = NWorkers
  /\ IngestReturns("success")
  /\ UNCHANGED table

\* Variant: the batches that are left are forgotten.
IngestWithoutRest ==
  \/ GroupFailed
  \/ GroupReturned /\ cause = "none" /\ IngestReturns("success") /\ UNCHANGED table

Ingest == GroupFailed \/ FlushRest \/ FlushFails \/ IngestSucceeds

\* The caller cancels its context.
Interrupt ==
  /\ ~interrupted
  /\ ingested = "none"
  /\ interrupted' = TRUE
  /\ UNCHANGED <<streamVars, bufferSize, put, taken, producing, item, working, batch, table, cause, flushed, ingested>>

IngestNext == Producer \/ (\E w \in Workers : Worker(w)) \/ Ingest \/ Interrupt
-----------------------------------------------------------------------------
(***************************************************************************)
(* No row is inserted twice, whichever workers took the rows and whatever  *)
(* failed; and when Ingest returns no error, the stream was read to its    *)
(* end and every row of it is in the table.                                *)
(***************************************************************************)
IngestedOnce ==
  /\ \A i \in DOMAIN table : table[i] <= 1
  /\ ingested = "success" =>
       streamEnd = "ended" /\ given = Total /\ \A i \in DOMAIN table : table[i] = 1

(***************************************************************************)
(* Ingest returns the error that made it fail and none that followed from  *)
(* it: a cancellation only if the caller canceled, a stream error only if  *)
(* the stream had one.                                                     *)
(***************************************************************************)
IngestCause ==
  /\ ingested = "canceled" => interrupted
  /\ ingested = "stream" => streamEnd = "failed"
=============================================================================
