----------------------------- MODULE UploadFIEs -----------------------------
(***************************************************************************)
(* upload-fies: upload and transfer in cmd/fie-importer/upload_fies.go,    *)
(* with Rows in internal/fies/source.go and Summarize in                   *)
(* internal/clickhouse/clickhouse.go.                                      *)
(*                                                                         *)
(* The plan is the sequence of reads Window returned, written as the       *)
(* number of rows planned up to and including each read: <<2, 5>> is a     *)
(* read of two rows and a read of three.  Files are re-read after they     *)
(* were counted, so a read can give fewer rows than planned (its query has *)
(* a LIMIT: never more).                                                   *)
(***************************************************************************)
EXTENDS Pipeline

CONSTANT Plans                  \* the plans to choose from
ASSUME PlansAssumption ==
  \A p \in Plans : /\ p \in Seq(Nat \ {0})
                   /\ \A i, j \in 1..Len(p) : i < j => p[i] < p[j]

VARIABLES
  plan,         \* the reads
  file,         \* the read the reader is in or was in last, 0 before the first
  missing       \* rows planned for the reads so far that they did not give

vars == <<runVars, pipeVars, plan, file, missing>>

\* total in runUpload: the rows of all the reads.
total == IF plan = <<>> THEN 0 ELSE plan[Len(plan)]

TypeOK ==
  /\ RunTypeOK
  /\ PipeTypeOK
  /\ plan \in Plans
  /\ file \in 0..Len(plan)
  /\ missing \in Nat

Init ==
  /\ RunInit
  /\ PipeInit
  /\ reader = "between"
  /\ plan \in Plans
  /\ file = 0
  /\ missing = 0
-----------------------------------------------------------------------------
\* for i, r := range reads: the next read's query starts.
StartRead ==
  /\ Filling
  /\ reader = "between"
  /\ file < Len(plan)
  /\ file' = file + 1
  /\ reader' = "reading"
  /\ UNCHANGED <<runVars, batch, read, chan, inserter, inserting, sent,
                 groupErr, plan, missing>>

\* rows.Next and the callback of Rows.
ReadRow ==
  /\ Filling
  /\ reader = "reading"
  /\ read + missing < plan[file]
  /\ AppendRow
  /\ UNCHANGED <<runVars, chan, inserter, inserting, sent, groupErr, plan,
                 file, missing>>

\* Variant: every read starts with a batch of its own.
EndReadNewBatch ==
  /\ Filling
  /\ reader = "reading"
  /\ reader' = "between"
  /\ missing' = plan[file] - read
  /\ batch' = <<>>
  /\ UNCHANGED <<runVars, read, chan, inserter, inserting, sent, groupErr, plan,
                 file>>

\* The query has no more rows.  The batch is carried over to the next read.
EndRead ==
  /\ Filling
  /\ reader = "reading"
  /\ reader' = "between"
  /\ missing' = plan[file] - read
  /\ UNCHANGED <<runVars, batch, read, chan, inserter, inserting, sent,
                 groupErr, plan, file>>

\* A read fails on the file, or because its context is done.
ReadFails ==
  /\ Filling
  /\ reader = "reading"
  /\ \E e \in CallErrs("read", CtxDone) : ReaderReturns(e)
  /\ UNCHANGED <<runVars, batch, read, chan, inserter, inserting, sent, plan,
                 file, missing>>

EndReads ==
  /\ Filling
  /\ reader = "between"
  /\ file = Len(plan)
  /\ LastBatch
  /\ UNCHANGED <<runVars, batch, read, chan, inserter, inserting, sent, plan,
                 file, missing>>

ReaderStep == StartRead \/ ReadRow \/ EndRead \/ ReadFails \/ EndReads

\* transfer returns to upload.
TransferReturns ==
  /\ Waited
  /\ FillReturns(groupErr)
  /\ UNCHANGED <<server, rows, created, dropFailed, record, interrupted,
                 dropOnFail, pipeVars, plan, file, missing>>

\* Variant: the table is compared with what was sent, not with the plan.
VerifySent ==
  /\ phase = "verify"
  /\ Return(IF Len(rows) = sent THEN NoErr ELSE "mismatch")
  /\ UNCHANGED <<server, rows, created, dropFailed, record, interrupted,
                 dropOnFail, pipeVars, plan, file, missing>>

\* Summarize counts the table's rows and upload compares the count with what
\* was planned.
Verify ==
  /\ phase = "verify"
  /\ Return(IF Len(rows) = total THEN NoErr ELSE "mismatch")
  /\ UNCHANGED <<server, rows, created, dropFailed, record, interrupted,
                 dropOnFail, pipeVars, plan, file, missing>>

VerifyFails ==
  /\ phase = "verify"
  /\ \E e \in CallErrs("summarize", interrupted) : Return(e)
  /\ UNCHANGED <<server, rows, created, dropFailed, record, interrupted,
                 dropOnFail, pipeVars, plan, file, missing>>

MainStep ==
  \/ /\ RunStep
     /\ UNCHANGED <<pipeVars, plan, file, missing>>
  \/ TransferReturns \/ Verify \/ VerifyFails

Step == \/ MainStep
        \/ ReaderStep
        \/ PipeStep /\ UNCHANGED <<plan, file, missing>>

\* What the command does not do itself.
Environment ==
  /\ \/ Interrupt /\ UNCHANGED pipeVars
     \/ OtherCreates /\ UNCHANGED pipeVars
     \/ Kill
  /\ UNCHANGED <<plan, file, missing>>

\* The process ended.
Ended == ~Running /\ UNCHANGED vars

Next == Step \/ Environment \/ Ended

Spec == Init /\ [][Next]_vars

\* The goroutines are scheduled, calls to ClickHouse and DuckDB return.
Fairness ==
  /\ WF_vars(MainStep)
  /\ WF_vars(ReaderStep)
  /\ WF_vars((SendBatch \/ SendCanceled) /\ UNCHANGED <<plan, file, missing>>)
  /\ WF_vars((ReceiveBatch \/ InserterReturns \/ InsertBatch \/ InsertFails)
             /\ UNCHANGED <<plan, file, missing>>)

FairSpec == Spec /\ Fairness
-----------------------------------------------------------------------------
\* The last row planned for the reads up to and including the current one.
planned == IF file = 0 THEN 0 ELSE plan[file]

\* How far the plan is read, given where the reader is.
ReaderInv ==
  /\ read + missing <= planned
  /\ file = 0 => reader \notin {"reading", "sending"}
  /\ reader \in {"between", "flushing"} => read + missing = planned
  /\ reader = "flushing" => file = Len(plan)
  /\ reader = "done" /\ groupErr = NoErr
       => file = Len(plan) /\ read + missing = planned

\* What makes the properties below inductive: nothing was lost between the
\* input and the table, and the plan was followed.
IInv ==
  /\ TypeOK
  /\ RunInv
  /\ PipeInv
  /\ ReaderInv
  /\ Succeeded => Len(rows) = total /\ missing = 0
-----------------------------------------------------------------------------
(***************************************************************************)
(* A run that reports success left a table that is its own and holds every *)
(* planned row exactly once, although all that upload compares is a count: *)
(* no read was cut short and nothing was lost on the way.                  *)
(***************************************************************************)
SuccessIsComplete ==
  Succeeded =>
    /\ server = "ours"
    /\ missing = 0
    /\ Len(rows) = total
    /\ Run(rows, 1)

(***************************************************************************)
(* What is in a finished table is never taken out of it: once the count    *)
(* was verified no step of the run drops the table, not even when a signal *)
(* arrives while the run is being recorded.                                *)
(***************************************************************************)
VerifiedIsKept ==
  [][Succeeded
       => server' = server /\ rows' = rows /\ err' = err]_vars

(***************************************************************************)
(* Another client's table is never dropped and never written to, also when *)
(* it was created between the run's lookup and its own CREATE TABLE.       *)
(***************************************************************************)
ForeignIsUntouched ==
  [][server = "foreign" => server' = "foreign" /\ rows' = rows]_vars

(***************************************************************************)
(* The run is an upload without concurrency: SequentialUpload's promises   *)
(* hold of it, seen through what is in ClickHouse and the command's exit.  *)
(***************************************************************************)
Sequential == INSTANCE SequentialUpload WITH
  table <- server,
  content <- rows,
  outcome <- IF phase = "killed" THEN "killed"
             ELSE IF phase \notin {"log", "done"} THEN "running"
             ELSE IF err = NoErr THEN "ok" ELSE "failed",
  whole <- total,
  sound <- TRUE

ImplementsSequential == Sequential!Spec

(***************************************************************************)
(* Every run ends, whichever goroutine fails first and wherever a signal   *)
(* finds it: neither goroutine waits forever for the other.                *)
(***************************************************************************)
Termination == <>~Running
=============================================================================
