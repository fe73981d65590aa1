----------------------------- MODULE UploadPDs ------------------------------
(***************************************************************************)
(* upload-pds: uploadPDs and transferPDs in                                *)
(* cmd/fie-importer/upload_pds.go, with Next in internal/pds/pds.go and    *)
(* SummarizePDs in internal/clickhouse/clickhouse.go.                      *)
(*                                                                         *)
(* The input is the PDs the file has before its end or before its first    *)
(* bad line.  Unlike upload-fies the command does not know their number    *)
(* beforehand: it compares the table with what it counted itself.          *)
(***************************************************************************)
EXTENDS Pipeline

CONSTANT Inputs                 \* the numbers of PDs to choose from
ASSUME InputsAssumption == Inputs \subseteq Nat

VARIABLES
  input,        \* how many PDs come before the end or the first bad line
  ending        \* whether that is the end of the file or a bad line

vars == <<runVars, pipeVars, input, ending>>

TypeOK ==
  /\ RunTypeOK
  /\ PipeTypeOK
  /\ input \in Inputs
  /\ ending \in {"eof", "bad"}

Init ==
  /\ RunInit
  /\ PipeInit
  /\ reader = "reading"
  /\ input \in Inputs
  /\ ending \in {"eof", "bad"}
-----------------------------------------------------------------------------
\* reader.Next returns a PD.  It does not look at the context.
NextPD ==
  /\ Filling
  /\ reader = "reading"
  /\ read < input
  /\ AppendRow
  /\ UNCHANGED <<runVars, chan, inserter, inserting, sent, groupErr, input,
                 ending>>

\* reader.Next returns io.EOF.
NextEOF ==
  /\ Filling
  /\ reader = "reading"
  /\ read = input
  /\ ending = "eof"
  /\ LastBatch
  /\ UNCHANGED <<runVars, batch, read, chan, inserter, inserting, sent, input,
                 ending>>

\* Variant: the loop ends at any error as at the end of the file.
NextFailsAsEOF ==
  /\ Filling
  /\ reader = "reading"
  /\ read = input
  /\ ending = "bad"
  /\ LastBatch
  /\ UNCHANGED <<runVars, batch, read, chan, inserter, inserting, sent, input,
                 ending>>

\* reader.Next returns an error: a line that is no PD, IDs beyond 32 bits, or
\* the file cannot be read on.
NextFails ==
  /\ Filling
  /\ reader = "reading"
  /\ read = input
  /\ ending = "bad"
  /\ ReaderReturns("read")
  /\ UNCHANGED <<runVars, batch, read, chan, inserter, inserting, sent, input,
                 ending>>

ReaderStep == NextPD \/ NextEOF \/ NextFails

\* transferPDs returns to uploadPDs, which refuses a file without PDs.
TransferReturns ==
  /\ Waited
  /\ FillReturns(IF groupErr = NoErr /\ sent = 0 THEN "empty" ELSE groupErr)
  /\ UNCHANGED <<server, rows, created, dropFailed, record, interrupted,
                 dropOnFail, pipeVars, input, ending>>

\* SummarizePDs counts the table's rows.
Verify ==
  /\ phase = "verify"
  /\ Return(IF Len(rows) = sent THEN NoErr ELSE "mismatch")
  /\ UNCHANGED <<server, rows, created, dropFailed, record, interrupted,
                 dropOnFail, pipeVars, input, ending>>

VerifyFails ==
  /\ phase = "verify"
  /\ \E e \in CallErrs("summarize", interrupted) : Return(e)
  /\ UNCHANGED <<server, rows, created, dropFailed, record, interrupted,
                 dropOnFail, pipeVars, input, ending>>

MainStep ==
  \/ /\ RunStep
     /\ UNCHANGED <<pipeVars, input, ending>>
  \/ TransferReturns \/ Verify \/ VerifyFails

Environment ==
  /\ \/ Interrupt /\ UNCHANGED pipeVars
     \/ OtherCreates /\ UNCHANGED pipeVars
     \/ Kill
  /\ UNCHANGED <<input, ending>>

\* The process ended.
Ended == ~Running /\ UNCHANGED vars

Next == \/ MainStep
        \/ ReaderStep
        \/ PipeStep /\ UNCHANGED <<input, ending>>
        \/ Environment
        \/ Ended

Spec == Init /\ [][Next]_vars

\* The goroutines are scheduled and calls to ClickHouse return.
PipeFairness ==
  /\ WF_vars(MainStep)
  /\ WF_vars((SendBatch \/ SendCanceled) /\ UNCHANGED <<input, ending>>)
  /\ WF_vars((ReceiveBatch \/ InserterReturns \/ InsertBatch \/ InsertFails)
             /\ UNCHANGED <<input, ending>>)

\* --pds-file names a file: every read of it returns.
FileSpec == Spec /\ PipeFairness /\ WF_vars(ReaderStep)

\* --pds-file is "-": the program that writes to the pipe owes nothing.
StdinSpec == Spec /\ PipeFairness
-----------------------------------------------------------------------------
\* How far the input is read, given where the reader is.
ReaderInv ==
  /\ read <= input
  /\ reader # "between"
  /\ reader = "flushing" \/ (reader = "done" /\ groupErr = NoErr)
       => read = input /\ ending = "eof"

\* What makes the properties below inductive: nothing was lost between the
\* input and the table, and all that was read is the input.
IInv ==
  /\ TypeOK
  /\ RunInv
  /\ PipeInv
  /\ ReaderInv
  /\ phase = "verify" => sent # 0
  /\ Succeeded => Len(rows) = input /\ ending = "eof" /\ input # 0
-----------------------------------------------------------------------------
(***************************************************************************)
(* A run that reports success left a table that is its own and holds every *)
(* PD of the file exactly once, and there was one: a bad line anywhere in  *)
(* the file fails the run, also when everything before it was inserted     *)
(* (README, upload-pds).                                                   *)
(***************************************************************************)
SuccessIsComplete ==
  Succeeded =>
    /\ server = "ours"
    /\ ending = "eof"
    /\ Len(rows) = input
    /\ rows # <<>>
    /\ Run(rows, 1)

(***************************************************************************)
(* Every run over a file ends.                                             *)
(***************************************************************************)
Termination == <>~Running

(***************************************************************************)
(* A run that is interrupted ends: "drop the table if the upload fails or  *)
(* is interrupted" (README, upload-pds, flag --drop-on-fail).              *)
(***************************************************************************)
InterruptEnds == interrupted ~> ~Running

(***************************************************************************)
(* The run is an upload without concurrency: SequentialUpload's promises   *)
(* hold of it, seen through what is in ClickHouse and the command's exit.  *)
(***************************************************************************)
Sequential == INSTANCE SequentialUpload WITH
  table <- server,
  content <- rows,
  outcome <- IF phase = "killed" THEN "killed"
             ELSE IF phase \notin {"log", "done"} THEN "running"
             ELSE IF err = NoErr THEN "ok" ELSE "failed",
  whole <- input,
  sound <- ending = "eof"

ImplementsSequential == Sequential!Spec
=============================================================================
