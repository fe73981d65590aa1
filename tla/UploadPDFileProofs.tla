------------------------- MODULE UploadPDFileProofs -------------------------
(***************************************************************************)
(* What upload-pds guarantees for every file, every batch size, every      *)
(* --first-id and every width of the IDs: the inductive invariant of       *)
(* UploadPDs with what follows from it, and then the IDs that UploadPDFile *)
(* gives the PDs of a file.                                                *)
(***************************************************************************)
EXTENDS UploadPDFile, PipelineProofs

(***************************************************************************)
(* The initial states.                                                     *)
(***************************************************************************)
LEMMA InitInv == Init => IInv
<1> SUFFICES ASSUME Init PROVE IInv
  OBVIOUS
<1> USE DEF Init, RunInit, PipeInit
<1>1. RunTypeOK
  <2>1. rows \in Seq(Nat)
    OBVIOUS
  <2>2. created \in BOOLEAN /\ dropFailed \in BOOLEAN /\ interrupted \in BOOLEAN
    <3>1. created = FALSE /\ dropFailed = FALSE /\ interrupted = FALSE
      OBVIOUS
    <3>2. QED
      BY ONLY <3>1
  <2>3. QED
    BY <2>1, <2>2 DEF RunTypeOK, RunErrs, NoErr
<1>2. PipeTypeOK
  BY DEF PipeTypeOK, ChanCap, RunErrs, NoErr
<1>3. RunInv
  BY DEF RunInv, Opening, Returned, Succeeded
<1>4. PipeInv
  <2>1. \A n : Run(<<>>, n)
    BY DEF Run
  <2>2. Lossless
    <3>1. Len(rows) = 0 /\ Len(inserting) = 0 /\ Len(batch) = 0 /\ Len(chan) = 0
      OBVIOUS
    <3>2. Chain(chan, 1, 0)
      BY <3>1 DEF Chain
    <3>3. Run(inserting, 1)
      BY <2>1
    <3>4. QED
      BY <3>1, <3>2, <3>3 DEF Lossless
  <2>3. QED
    BY <2>1, <2>2, BatchSizeAssumption DEF PipeInv, Opening, Returned
<1>5. input \in Nat
  BY InputsAssumption
<1>6. ReaderInv /\ (Succeeded => Len(rows) = input /\ ending = "eof" /\ input # 0)
  BY <1>5 DEF ReaderInv, Succeeded, Returned
<1>7. QED
  BY <1>1, <1>2, <1>3, <1>4, <1>6 DEF IInv, TypeOK

\* The part of the invariant that is upload-pds's own.
OwnInv ==
  /\ input \in Inputs
  /\ ending \in {"eof", "bad"}
  /\ ReaderInv
  /\ phase = "verify" => sent # 0
  /\ Succeeded => Len(rows) = input /\ ending = "eof" /\ input # 0

(***************************************************************************)
(* The invariant, cut into the common part and the command's own.          *)
(***************************************************************************)
LEMMA IInvParts == IInv <=> CommonInv /\ OwnInv
  BY DEF IInv, TypeOK, CommonInv, OwnInv

(***************************************************************************)
(* The reader's steps.                                                     *)
(***************************************************************************)
LEMMA ReaderStepInv ==
  ASSUME CommonInv, OwnInv, ReaderStep
  PROVE  CommonInv' /\ OwnInv'
<1>1. input \in Nat /\ read \in Nat /\ read <= input
  BY InputsAssumption DEF OwnInv, ReaderInv, CommonInv, PipeTypeOK
<1>2. /\ phase = "fill" /\ phase' = phase /\ ~Succeeded' /\ input' = input
      /\ ending' = ending /\ reader = "reading"
  BY DEF ReaderStep, NextPD, NextEOF, NextFails, Filling, runVars, Succeeded, Returned
<1>3. CASE NextPD
  <2>1. CommonInv'
    BY <1>3, AppendRowCommon DEF NextPD
  <2>2. read' = read + 1 /\ read < input /\ reader' \in {"reading", "sending"}
    BY <1>3 DEF NextPD, AppendRow
  <2>3. QED
    BY <1>1, <1>2, <2>1, <2>2 DEF OwnInv, ReaderInv
<1>4. CASE NextEOF
  <2>1. CommonInv'
    <3>1. CASE batch # <<>>
      BY <1>4, <3>1, ReaderMovesCommon DEF NextEOF, LastBatch
    <3>2. CASE batch = <<>>
      BY <1>4, <3>2, ReaderReturnsCommon DEF NextEOF, LastBatch, RunErrs
    <3>3. QED
      BY <3>1, <3>2
  <2>2. reader' \in {"flushing", "done"} /\ read' = read /\ read = input /\ ending = "eof"
    BY <1>4 DEF NextEOF, LastBatch, ReaderReturns
  <2>3. QED
    BY <1>1, <1>2, <2>1, <2>2 DEF OwnInv, ReaderInv
<1>5. CASE NextFails
  <2>1. "read" \in RunErrs /\ "read" # NoErr
    BY DEF RunErrs, NoErr
  <2>2. CommonInv'
    BY <1>5, <2>1, ReaderReturnsCommon DEF NextFails
  <2>3. groupErr' # NoErr /\ reader' = "done" /\ read' = read
    BY <1>5, <2>1 DEF NextFails, ReaderReturns, Report
  <2>4. QED
    BY <1>1, <1>2, <2>2, <2>3 DEF OwnInv, ReaderInv
<1>6. QED
  BY <1>3, <1>4, <1>5 DEF ReaderStep

(***************************************************************************)
(* The steps of the pipeline behind the reader: what was read stays read.  *)
(***************************************************************************)
LEMMA PipeStepOwn ==
  ASSUME CommonInv, OwnInv, PipeStep, UNCHANGED <<input, ending>>
  PROVE  OwnInv'
<1>1. /\ phase = "fill" /\ phase' = phase /\ ~Succeeded' /\ read' = read
  BY DEF PipeStep, SendBatch, SendCanceled, ReceiveBatch, InserterReturns, InsertBatch,
     InsertFails, runVars, Filling, Succeeded, Returned
<1>2. \/ reader' = reader
      \/ reader = "sending" /\ reader' = "reading"
      \/ reader = "flushing" /\ reader' = "done"
      \/ reader' = "done" /\ groupErr' # NoErr
  BY DEF PipeStep, SendBatch, SendCanceled, ReceiveBatch, InserterReturns, InsertBatch,
     InsertFails, ReaderReturns, Report, NoErr, Canceled
<1>3. groupErr' = NoErr => groupErr = NoErr
  BY DEF PipeStep, SendBatch, SendCanceled, ReceiveBatch, InserterReturns, InsertBatch,
     InsertFails, ReaderReturns, Report
<1>4. ReaderInv'
  BY <1>1, <1>2, <1>3 DEF OwnInv, ReaderInv
<1>5. QED
  BY <1>1, <1>4 DEF OwnInv

(***************************************************************************)
(* The steps of the command around the pipeline.                           *)
(***************************************************************************)
LEMMA MainStepInv ==
  ASSUME CommonInv, OwnInv, MainStep
  PROVE  CommonInv' /\ OwnInv'
<1>1. UNCHANGED <<pipeVars, input, ending>>
  BY DEF MainStep, TransferReturns, Verify, VerifyFails
<1>2. ReaderInv' /\ sent' = sent
  BY <1>1 DEF OwnInv, ReaderInv, pipeVars
<1>3. CASE RunStep /\ UNCHANGED <<pipeVars, input, ending>>
  <2>1. CommonInv'
    BY <1>3, RunStepCommon
  <2>2. phase' # "verify" /\ (Succeeded' => Succeeded /\ rows' = rows)
    BY <1>3 DEF RunStep, Prepare, Connect, TableExists, CreateTable, CreateTableFails,
       DropTable, DropTableFails, KeepTable, LogOperation, Appended, Return, KeepsTable, CallErrs,
       Succeeded, Returned, NoErr, Canceled
  <2>3. QED
    BY <1>1, <1>2, <2>1, <2>2 DEF OwnInv
<1>4. CASE TransferReturns
  <2> DEFINE e == IF groupErr = NoErr /\ sent = 0 THEN "empty" ELSE groupErr
  <2>1. e \in RunErrs /\ phase = "fill" /\ (groupErr # NoErr => e # NoErr)
    BY <1>4 DEF CommonInv, PipeTypeOK, TransferReturns, Waited, Filling, RunErrs
  <2>2. CommonInv'
    BY <1>4, <2>1, FillReturnsCommon DEF TransferReturns
  <2>3. ~Succeeded' /\ (phase' = "verify" => sent # 0)
    BY <1>4, <2>1 DEF TransferReturns, FillReturns, Return, Succeeded, Returned, CommonInv,
       RunInv, NoErr
  <2>4. QED
    BY <1>1, <1>2, <2>2, <2>3 DEF OwnInv
<1>5. CASE Verify
  <2>1. (IF Len(rows) = sent THEN NoErr ELSE "mismatch") \in RunErrs
    BY DEF RunErrs
  <2>2. CommonInv'
    BY <1>5, <2>1, VerifyCommon DEF Verify
  <2>3. rows' = rows /\ phase = "verify" /\ phase' = "cleanup"
    BY <1>5 DEF Verify, Return, CommonInv, RunInv
  <2>4. Len(rows) = input /\ ending = "eof" /\ input # 0
    <3>1. /\ reader = "done" /\ chan = <<>> /\ inserting = <<>> /\ batch = <<>>
          /\ groupErr = NoErr /\ Lossless
      BY <2>3 DEF CommonInv, PipeInv, Intact
    <3>2. read = input /\ ending = "eof" /\ sent # 0
      BY <2>3, <3>1 DEF OwnInv, ReaderInv
    <3>3. Len(rows) \in Nat /\ read \in Nat /\ Len(batch) = 0 /\ Len(inserting) = 0
      BY <3>1, LenProperties DEF CommonInv, RunTypeOK, PipeTypeOK
    <3>4. read - Len(batch) = Len(rows) + Len(inserting) + 1 - 1 /\ sent = Len(rows)
      BY <3>1 DEF Lossless, Chain
    <3>5. QED
      BY <3>2, <3>3, <3>4
  <2>5. QED
    BY <1>1, <1>2, <2>2, <2>3, <2>4 DEF OwnInv
<1>6. CASE VerifyFails
  <2>1. PICK e \in {"summarize", Canceled} : Return(e)
    BY <1>6 DEF VerifyFails, CallErrs
  <2>2. e \in RunErrs /\ e # NoErr
    BY <2>1 DEF RunErrs, NoErr, Canceled
  <2>3. CommonInv'
    BY <1>6, <2>1, <2>2, VerifyCommon DEF VerifyFails
  <2>4. ~Succeeded' /\ phase' # "verify"
    BY <2>1, <2>2 DEF Return, Succeeded
  <2>5. QED
    BY <1>1, <1>2, <2>3, <2>4 DEF OwnInv
<1>7. QED
  BY <1>3, <1>4, <1>5, <1>6 DEF MainStep

(***************************************************************************)
(* What the command does not do itself.                                    *)
(***************************************************************************)
LEMMA EnvironmentInv ==
  ASSUME CommonInv, OwnInv, Environment
  PROVE  CommonInv' /\ OwnInv'
<1>1. CommonInv'
  BY EnvironmentCommon DEF Environment
<1>2. /\ UNCHANGED <<pipeVars, input, ending>>
      /\ Succeeded' => Succeeded /\ rows' = rows
      /\ phase' = "verify" => phase = "verify"
  BY DEF Environment, Interrupt, OtherCreates, Kill, Succeeded, Returned
<1>3. QED
  BY <1>1, <1>2 DEF OwnInv, ReaderInv, pipeVars

(***************************************************************************)
(* A step that changes nothing.                                            *)
(***************************************************************************)
LEMMA StutterInv ==
  ASSUME CommonInv, OwnInv, UNCHANGED vars
  PROVE  CommonInv' /\ OwnInv'
<1>1. CommonInv'
  BY StutterCommon DEF vars
<1>2. OwnInv'
  BY DEF OwnInv, ReaderInv, Succeeded, Returned, vars, runVars, pipeVars
<1>3. QED
  BY <1>1, <1>2

(***************************************************************************)
(* The invariant is inductive.                                             *)
(***************************************************************************)
LEMMA StepInv == IInv /\ [Next]_vars => IInv'
<1> SUFFICES ASSUME IInv, [Next]_vars PROVE CommonInv' /\ OwnInv'
  BY IInvParts DEF IInv, TypeOK, CommonInv, OwnInv
<1>1. CommonInv /\ OwnInv
  BY IInvParts
<1>2. CASE MainStep
  BY <1>1, <1>2, MainStepInv
<1>3. CASE ReaderStep
  BY <1>1, <1>3, ReaderStepInv
<1>4. CASE PipeStep /\ UNCHANGED <<input, ending>>
  BY <1>1, <1>4, PipeStepCommon, PipeStepOwn
<1>5. CASE Environment
  BY <1>1, <1>5, EnvironmentInv
<1>6. CASE UNCHANGED vars
  BY <1>1, <1>6, StutterInv
<1>7. QED
  BY <1>2, <1>3, <1>4, <1>5, <1>6 DEF Next, Ended

(***************************************************************************)
(* Every reachable state of upload-pds satisfies the invariant.           *)
(***************************************************************************)
THEOREM Invariance == Spec => []IInv
  BY InitInv, StepInv, PTL DEF Spec

(***************************************************************************)
(* What ClickHouse holds of the input is its first rows, in order, each    *)
(* once: for every batch size, every file, and however the run ends.       *)
(***************************************************************************)
THEOREM PrefixAlways == Spec => []TableIsPrefix
<1>1. IInv => TableIsPrefix
  BY DEF IInv, PipeInv, TableIsPrefix
<1>2. QED
  BY <1>1, Invariance, PTL

(***************************************************************************)
(* Success means that every PD of the file is in the run's own table.      *)
(***************************************************************************)
THEOREM SuccessMeansComplete == Spec => []SuccessIsComplete
<1>1. IInv => SuccessIsComplete
  BY DEF IInv, PipeInv, RunInv, SuccessIsComplete
<1>2. QED
  BY <1>1, Invariance, PTL

(***************************************************************************)
(* A run that failed after creating its table leaves none behind, unless   *)
(* told to keep it or the DROP failed.                                     *)
(***************************************************************************)
THEOREM FailureCleansUp == Spec => []FailureIsClean
<1>1. IInv => FailureIsClean
  BY DEF IInv, RunInv, FailureIsClean
<1>2. QED
  BY <1>1, Invariance, PTL

(***************************************************************************)
(* At most one batch is being read, ChanCap are in the channel and one is  *)
(* being inserted, and none has more than --batch-size rows.               *)
(***************************************************************************)
THEOREM MemoryIsBounded == Spec => []BoundedMemory
<1>1. IInv => BoundedMemory
  BY DEF IInv, TypeOK, PipeTypeOK, PipeInv, BoundedMemory
<1>2. QED
  BY <1>1, Invariance, PTL

(***************************************************************************)
(* "context canceled" is reported only when a signal arrived, and not when *)
(* a bad line made the reader return and canceled the inserter.            *)
(***************************************************************************)
THEOREM CauseAlways == Spec => []CauseIsReported
<1> USE DEF CauseIsReported, NoErr, Canceled
<1>1. Init => CauseIsReported
  BY DEF Init, RunInit, PipeInit
<1>2. ASSUME CauseIsReported, [Next]_vars PROVE CauseIsReported'
  <2>1. CASE MainStep
    <3>1. groupErr' = groupErr /\ interrupted' = interrupted
      BY <2>1 DEF MainStep, RunStep, Prepare, Connect, TableExists, CreateTable,
         CreateTableFails, DropTable, DropTableFails, KeepTable, LogOperation, Appended,
         TransferReturns, Verify, VerifyFails, pipeVars
    <3>2. err' = Canceled => err = Canceled \/ groupErr = Canceled \/ interrupted
      BY <2>1 DEF MainStep, RunStep, Prepare, Connect, TableExists, CreateTable,
         CreateTableFails, DropTable, DropTableFails, KeepTable, LogOperation, Appended,
         TransferReturns, FillReturns, Verify, VerifyFails, Return, CallErrs
    <3>3. QED
      BY <1>2, <3>1, <3>2
  <2>2. CASE ReaderStep
    BY <1>2, <2>2 DEF ReaderStep, NextPD, NextEOF, NextFails, AppendRow, LastBatch,
       ReaderReturns, Report, CallErrs, CtxDone, runVars
  <2>3. CASE PipeStep
    BY <1>2, <2>3 DEF PipeStep, SendBatch, SendCanceled, ReceiveBatch, InserterReturns,
       InsertBatch, InsertFails, ReaderReturns, Report, CallErrs, CtxDone, runVars
  <2>4. CASE Environment
    BY <1>2, <2>4 DEF Environment, Interrupt, OtherCreates, Kill, pipeVars
  <2>5. CASE UNCHANGED vars
    BY <1>2, <2>5 DEF vars, runVars, pipeVars
  <2>6. QED
    BY <1>2, <2>1, <2>2, <2>3, <2>4, <2>5 DEF Next, Ended
<1>3. QED
  BY <1>1, <1>2, PTL DEF Spec

(***************************************************************************)
(* Every step of upload-pds, whose input says only at its end how long it  *)
(* is and whether it is sound, is a step of the sequential upload of that  *)
(* input, or changes nothing of it: a run commits only all PDs of an input *)
(* without a bad line.                                                     *)
(***************************************************************************)
THEOREM Refinement == Spec => ImplementsSequential
<1>1. Init => Sequential!Init
  <2> SUFFICES ASSUME Init PROVE Sequential!Init
    OBVIOUS
  <2>1. input \in Nat /\ (ending = "eof") \in BOOLEAN
    BY InputsAssumption DEF Init
  <2>2. QED
    BY <2>1 DEF Init, RunInit, Sequential!Init
<1>2. ASSUME IInv, IInv', [Next]_vars PROVE [Sequential!Next]_(Sequential!vars)
  <2>1. rows \in Seq(Nat) /\ rows' \in Seq(Nat) /\ Len(rows) \in Nat /\ Len(rows') \in Nat
    BY <1>2, LenProperties DEF IInv, TypeOK, RunTypeOK
  <2>2. rows' = [i \in 1..Len(rows') |-> i]
    BY <1>2, <2>1, RunIsExtended DEF IInv, PipeInv, Run
  <2>3. input' = input /\ ending' = ending
    BY <1>2 DEF Next, MainStep, ReaderStep, Environment, Ended, TransferReturns,
       Verify, VerifyFails, NextPD, NextEOF, NextFails, vars
  <2> USE DEF Sequential!vars, Sequential!Next
  <2>4. CASE MainStep
    <3>1. CASE Prepare \/ Connect \/ TableExists
      BY <1>2, <2>3, <3>1 DEF Prepare, Connect, TableExists, Return, CallErrs, NoErr, Canceled,
         IInv, RunInv, Opening, Sequential!Abort
    <3>2. CASE CreateTable
      BY <2>3, <3>2 DEF CreateTable, Sequential!Create
    <3>3. CASE CreateTableFails
      <4>1. /\ phase = "create" /\ ~created /\ phase' = "log" /\ err' # NoErr /\ rows' = rows
            /\ server' \in {server} \cup (IF server = "absent" THEN {"ours"} ELSE {})
        BY <1>2, <3>3 DEF CreateTableFails, Return, CallErrs, NoErr, Canceled, IInv, RunInv, Opening
      <4>2. QED
        BY <2>3, <4>1 DEF Sequential!Abort
    <3>4. CASE DropTable \/ DropTableFails
      <4>1. /\ phase = "cleanup" /\ phase' = "log" /\ err # NoErr /\ err' = err /\ server = "ours"
            /\ \/ rows' = rows /\ server' = server
               \/ rows' = <<>> /\ server' = "absent"
        BY <1>2, <3>4 DEF DropTable, DropTableFails, KeepsTable, IInv, RunInv
      <4>2. QED
        BY <2>3, <4>1 DEF Sequential!Abort
    <3>5. CASE KeepTable
      <4>1. /\ phase = "cleanup" /\ phase' = "log" /\ err' = err /\ rows' = rows
            /\ server' = server /\ server = "ours"
        BY <1>2, <3>5 DEF KeepTable, IInv, RunInv
      <4>2. CASE err = NoErr
        <5>1. Len(rows) = input /\ ending = "eof"
          BY <1>2, <4>1, <4>2 DEF IInv, Succeeded, Returned
        <5>2. QED
          BY <2>3, <4>1, <4>2, <5>1 DEF Sequential!Commit
      <4>3. CASE err # NoErr
        BY <2>3, <4>1, <4>3 DEF Sequential!Abort
      <4>4. QED
        BY <4>2, <4>3
    <3>6. CASE LogOperation
      BY <2>3, <3>6 DEF LogOperation, Appended
    <3>7. CASE TransferReturns \/ Verify \/ VerifyFails
      <4>1. /\ phase \in {"fill", "verify"} /\ phase' \in {"verify", "cleanup"}
            /\ rows' = rows /\ server' = server
        BY <1>2, <3>7 DEF TransferReturns, FillReturns, Verify, VerifyFails, Return, Waited,
           Filling, IInv, RunInv
      <4>2. QED
        BY <2>3, <4>1
    <3>8. QED
      BY <2>4, <3>1, <3>2, <3>3, <3>4, <3>5, <3>6, <3>7 DEF MainStep, RunStep
  <2>5. CASE ReaderStep
    BY <2>3, <2>5 DEF ReaderStep, NextPD, NextEOF, NextFails, runVars
  <2>6. CASE PipeStep
    <3>1. CASE SendBatch \/ SendCanceled \/ ReceiveBatch \/ InserterReturns
      BY <2>3, <3>1 DEF SendBatch, SendCanceled, ReceiveBatch, InserterReturns, runVars
    <3>2. CASE InsertBatch \/ InsertFails
      <4>1. /\ phase = "fill" /\ phase' = phase /\ server = "ours" /\ server' = server
            /\ err' = err
            /\ rows' \in {rows, rows \o inserting}
        BY <1>2, <3>2 DEF InsertBatch, InsertFails, Filling, IInv, RunInv
      <4>2. Len(rows') >= Len(rows)
        <5>1. rows \in Seq(Nat) /\ inserting \in Seq(Nat)
          BY <1>2 DEF IInv, TypeOK, RunTypeOK, PipeTypeOK
        <5>2. Len(rows) \in Nat /\ Len(inserting) \in Nat
              /\ Len(rows \o inserting) = Len(rows) + Len(inserting)
          BY ONLY <5>1, ConcatProperties, LenProperties
        <5>3. QED
          BY ONLY <4>1, <5>2
      <4>3. QED
        BY <2>2, <2>3, <4>1, <4>2 DEF Sequential!Insert, Sequential!Extended
    <3>3. QED
      BY <2>6, <3>1, <3>2 DEF PipeStep
  <2>7. CASE Environment
    <3>1. CASE Interrupt
      BY <2>3, <3>1 DEF Interrupt
    <3>2. CASE OtherCreates
      BY <2>3, <3>2 DEF OtherCreates, Sequential!OtherCreates
    <3>3. CASE Kill
      <4>1. /\ phase' = "killed" /\ phase \notin {"done", "killed"} /\ server' = server
            /\ \/ rows' = rows
               \/ inserter = "inserting" /\ rows' = rows \o inserting
        BY <3>3 DEF Kill, Running
      <4>2. CASE rows' = rows
        BY <2>3, <4>1, <4>2 DEF Sequential!Kill
      <4>3. CASE inserter = "inserting" /\ rows' = rows \o inserting
        <5>1. phase = "fill" /\ server = "ours"
          BY <1>2, <4>1, <4>3 DEF IInv, PipeInv, RunInv, TypeOK, RunTypeOK, Opening, Returned
        <5>2. Len(rows') >= Len(rows)
          BY <1>2, <2>1, <4>3, ConcatProperties DEF IInv, TypeOK, PipeTypeOK
        <5>3. QED
          BY <2>2, <2>3, <4>1, <5>1, <5>2 DEF Sequential!Kill, Sequential!Extended
      <4>4. QED
        BY <4>1, <4>2, <4>3
    <3>4. QED
      BY <2>7, <3>1, <3>2, <3>3 DEF Environment
  <2>8. CASE UNCHANGED vars
    BY <2>3, <2>8 DEF vars, runVars
  <2>9. QED
    BY <1>2, <2>4, <2>5, <2>6, <2>7, <2>8 DEF Next, Ended
<1>3. QED
  BY <1>1, <1>2, Invariance, PTL DEF Spec, ImplementsSequential, Sequential!Spec
-----------------------------------------------------------------------------
(***************************************************************************)
(* What upload-pds does with its reader is something UploadPDs can do.     *)
(***************************************************************************)
LEMMA FileStep == [FileNext]_fileVars => [Next]_vars
<1> SUFFICES ASSUME [FileNext]_fileVars PROVE Next \/ UNCHANGED vars
  OBVIOUS
<1>1. CASE FileReaderStep
  BY <1>1 DEF FileReaderStep, ReadBlank, Next, ReaderStep
<1>2. CASE FileNext /\ ~FileReaderStep
  BY <1>2 DEF FileNext, Next
<1>3. CASE UNCHANGED fileVars
  BY <1>3 DEF fileVars
<1>4. QED
  BY <1>1, <1>2, <1>3 DEF FileNext

(***************************************************************************)
(* So is every step of upload-pds over a file, whose lines say how many    *)
(* PDs there are and whether the file is sound.                            *)
(***************************************************************************)
THEOREM FileRefinement == RunSpec => ImplementsSequential
<1>1. FileInit => Init
  BY DEF FileInit
<1>2. RunSpec => Spec
  BY <1>1, FileStep, PTL DEF RunSpec, Spec
<1>3. QED
  BY <1>2, Refinement

(***************************************************************************)
(* The initial states.                                                     *)
(***************************************************************************)
LEMMA FileInitInv == FileInit => IInv /\ NumberInv
<1> SUFFICES ASSUME FileInit PROVE IInv /\ NumberInv
  OBVIOUS
<1>1. IInv
  BY InitInv DEF FileInit
<1>2. pdFile.lines \in Seq(Lines)
  BY PDFilesAssumption DEF FileInit, NewReader
<1>3. ReaderTypeOK
  <2>1. nextID \in 0..MaxID
    BY IDsAssumption DEF FileInit, NewReader
  <2>2. line \in 0..Len(pdFile.lines)
    BY <1>2 DEF FileInit, NewReader
  <2>3. given \in Seq([line : Nat, id : Nat])
    BY DEF FileInit, NewReader
  <2>4. QED
    BY <2>1, <2>2, <2>3 DEF ReaderTypeOK, FileInit, NewReader
<1>4. Counted
  BY IDsAssumption DEF Counted, FileInit, NewReader, Init, PipeInit
<1>5. Scanned
  BY DEF Scanned, FileInit, NewReader
<1>6. reader = "reading" /\ phase = "prepare"
  BY DEF FileInit, Init, RunInit
<1>7. QED
  BY <1>1, <1>3, <1>4, <1>5, <1>6 DEF NumberInv, Succeeded, Returned

(***************************************************************************)
(* A step that gives no PD and scans no line keeps the numbers, if it does *)
(* not forget that the reader has returned, and why.                       *)
(***************************************************************************)
LEMMA QuietStep ==
  ASSUME NumberInv, UNCHANGED pdVars, read' = read,
         reader = "done" /\ groupErr # NoErr => reader' = "done" /\ groupErr' # NoErr,
         reader' = "flushing" \/ (reader' = "done" /\ groupErr' = NoErr)
           => line = Len(pdFile.lines),
         phase' = "verify" \/ Succeeded' => reader' = "done" /\ groupErr' = NoErr
  PROVE  NumberInv'
<1>1. UNCHANGED <<pdFile, firstID, line, nextID, given>>
  BY DEF pdVars
<1>2. ReaderTypeOK'
  BY <1>1 DEF NumberInv, ReaderTypeOK
<1>3. Counted'
  BY <1>1 DEF NumberInv, Counted
<1>4. Scanned'
  BY <1>1 DEF NumberInv, Scanned, Blank
<1>5. QED
  BY <1>1, <1>2, <1>3, <1>4 DEF NumberInv

(***************************************************************************)
(* The calls of Next.                                                      *)
(***************************************************************************)
LEMMA FileReaderStepInv ==
  ASSUME IInv, NumberInv, FileReaderStep
  PROVE  NumberInv'
<1>1. /\ phase = "fill" /\ phase' = "fill" /\ reader = "reading" /\ ~Succeeded'
  BY DEF FileReaderStep, ReadBlank, NextPD, NextEOF, NextFails, Filling, vars, runVars,
     Succeeded, Returned
<1>2. pdFile.lines \in Seq(Lines) /\ line \in 0..Len(pdFile.lines) /\ read \in Nat
      /\ Len(pdFile.lines) \in Nat
  BY PDFilesAssumption DEF NumberInv, ReaderTypeOK, IInv, TypeOK, PipeTypeOK
<1>3. CASE ReadBlank
  <2>1. line' = line + 1 /\ UNCHANGED <<pdFile, firstID, nextID, given>>
        /\ UNCHANGED <<read, reader, groupErr>> /\ Blank(line + 1) /\ line' <= Len(pdFile.lines)
    BY <1>2, <1>3 DEF ReadBlank, SkipBlank, vars, pipeVars
  <2>2. ReaderTypeOK'
    BY <1>2, <2>1 DEF NumberInv, ReaderTypeOK
  <2>3. Counted'
    BY <1>2, <2>1 DEF NumberInv, Counted
  <2>4. Scanned'
    BY <1>1, <1>2, <2>1 DEF NumberInv, Scanned, Blank
  <2>5. QED
    BY <1>1, <2>1, <2>2, <2>3, <2>4 DEF NumberInv
<1>4. CASE NextPD /\ GivePD
  <2>1. /\ line' = line + 1 /\ UNCHANGED <<pdFile, firstID>> /\ ~Blank(line + 1)
        /\ given' = Append(given, [line |-> line + 1, id |-> nextID])
        /\ nextID # MaxID /\ nextID' = (nextID + 1) % (MaxID + 1)
        /\ line' <= Len(pdFile.lines)
    BY <1>2, <1>4 DEF GivePD, Exceeds
  <2>2. read' = read + 1 /\ reader' \in {"reading", "sending"} /\ groupErr' = groupErr
    BY <1>4 DEF NextPD, AppendRow
  <2>3. /\ nextID \in Nat /\ MaxID \in Nat /\ nextID < MaxID /\ firstID \in Nat
        /\ Len(given) = read /\ nextID = firstID + read
        /\ given \in Seq([line : Nat, id : Nat])
    BY <2>1, IDsAssumption DEF NumberInv, ReaderTypeOK, Counted
  <2>4. nextID' = nextID + 1 /\ nextID' \in 0..MaxID
    <3>1. \A n, m \in Nat : n < m => n % m = n
      OBVIOUS
    <3>2. nextID + 1 \in Nat /\ MaxID + 1 \in Nat /\ nextID + 1 < MaxID + 1
      BY <2>3
    <3>3. (nextID + 1) % (MaxID + 1) = nextID + 1
      BY <3>1, <3>2
    <3>4. nextID' = nextID + 1
      BY <2>1, <3>3
    <3>5. QED
      BY <2>3, <3>4
  <2>5. /\ Len(given') = read + 1
        /\ given'[read + 1] = [line |-> line + 1, id |-> nextID]
        /\ \A k \in 1..read : given'[k] = given[k]
        /\ given' \in Seq([line : Nat, id : Nat])
    <3> DEFINE new == [line |-> line + 1, id |-> nextID]
    <3>1. new \in [line : Nat, id : Nat]
      BY <1>2, <2>3
    <3> HIDE DEF new
    <3>2. given' = Append(given, new)
      BY <2>1 DEF new
    <3>3. /\ Len(given') = read + 1 /\ given'[read + 1] = new
          /\ \A k \in 1..read : given'[k] = given[k]
          /\ given' \in Seq([line : Nat, id : Nat])
      BY <1>2, <2>3, <3>1, <3>2
    <3>4. QED
      BY <3>3 DEF new
  <2>6. ReaderTypeOK'
    BY <1>2, <2>1, <2>4, <2>5 DEF NumberInv, ReaderTypeOK
  <2>7. Counted'
    <3>0. line \in Nat /\ read \in Nat /\ firstID \in Nat /\ nextID \in Nat
      BY <1>2, <2>3
    <3>1. /\ given'[read + 1].id = firstID + read
          /\ given'[read + 1].line = line + 1
      BY <2>3, <2>5
    <3>2. \A k \in 1..read : /\ given'[k].id = firstID + k - 1
                             /\ given'[k].line \in 1..line
                             /\ \A l \in 1..read : k < l => given'[k].line < given'[l].line
      BY <2>5 DEF NumberInv, Counted
    <3>3. \A k \in 1..read + 1 : k \in 1..read \/ k = read + 1
      BY <1>2
    <3>4. \A k \in 1..read + 1 : /\ given'[k].id = firstID + k - 1
                                 /\ given'[k].line \in 1..line + 1
      BY <3>0, <3>1, <3>2, <3>3
    <3>5. \A k, l \in 1..read + 1 : k < l => given'[k].line < given'[l].line
      BY <3>0, <3>1, <3>2, <3>3
    <3>6. Len(given') = read' /\ nextID' = firstID' + read'
      <4>1. nextID = firstID + read /\ nextID' = nextID + 1 /\ Len(given') = read + 1
            /\ firstID' = firstID /\ read' = read + 1
        BY <2>1, <2>2, <2>3, <2>4, <2>5
      <4>2. QED
        BY ONLY <3>0, <4>1
    <3>7. QED
      BY <2>1, <2>2, <3>4, <3>5, <3>6 DEF Counted
  <2>8. Scanned'
    <3> SUFFICES ASSUME NEW i \in 1..line + 1, ~Blank(i)
                 PROVE  \E k \in 1..read + 1 : given'[k].line = i
      BY <2>1, <2>2 DEF Scanned, Blank
    <3>1. CASE i = line + 1
      BY <1>2, <2>5, <3>1
    <3>2. CASE i # line + 1
      <4>1. \E k \in 1..read : given[k].line = i
        BY <1>1, <1>2, <3>2 DEF NumberInv, Scanned
      <4>2. QED
        BY <1>2, <2>5, <4>1
    <3>3. QED
      BY <3>1, <3>2
  <2>9. QED
    BY <1>1, <2>2, <2>6, <2>7, <2>8 DEF NumberInv
<1>5. CASE NextEOF /\ EndOfFile
  <2>1. /\ UNCHANGED pdVars /\ read' = read /\ line = Len(pdFile.lines)
    BY <1>5 DEF NextEOF, EndOfFile
  <2>2. QED
    BY <1>1, <2>1, QuietStep
<1>6. CASE NextFails /\ ScanFails
  <2>1. UNCHANGED pdVars /\ read' = read /\ reader' = "done" /\ groupErr' # NoErr
    BY <1>6 DEF NextFails, ScanFails, ReaderReturns, Report, NoErr
  <2>2. QED
    BY <1>1, <2>1, QuietStep
<1>7. CASE NextFails /\ Refuse
  <2>1. read' = read /\ reader' = "done" /\ groupErr' # NoErr
    BY <1>7 DEF NextFails, ReaderReturns, Report, NoErr
  <2>2. line' = line + 1 /\ UNCHANGED <<pdFile, firstID, nextID, given>>
        /\ line' <= Len(pdFile.lines)
    BY <1>2, <1>7 DEF Refuse
  <2>3. ReaderTypeOK'
    BY <1>2, <2>2 DEF NumberInv, ReaderTypeOK
  <2>4. Counted'
    BY <1>2, <2>1, <2>2 DEF NumberInv, Counted
  <2>5. Scanned'
    BY <1>1, <1>2, <2>1, <2>2 DEF NumberInv, Scanned, Blank
  <2>6. QED
    BY <1>1, <2>1, <2>3, <2>4, <2>5 DEF NumberInv
<1>8. QED
  BY <1>3, <1>4, <1>5, <1>6, <1>7 DEF FileReaderStep

(***************************************************************************)
(* The pipeline's other steps.                                             *)
(***************************************************************************)
LEMMA FilePipeStepInv ==
  ASSUME NumberInv, PipeStep, UNCHANGED pdVars
  PROVE  NumberInv'
<1>1. /\ phase = "fill" /\ phase' = "fill" /\ read' = read /\ ~Succeeded'
  BY DEF PipeStep, SendBatch, SendCanceled, ReceiveBatch, InserterReturns, InsertBatch,
     InsertFails, Filling, runVars, Succeeded, Returned
<1>2. reader = "done" /\ groupErr # NoErr => reader' = "done" /\ groupErr' # NoErr
  BY DEF PipeStep, SendBatch, SendCanceled, ReceiveBatch, InserterReturns, InsertBatch,
     InsertFails, Report
<1>3. reader' = "flushing" \/ (reader' = "done" /\ groupErr' = NoErr)
        => reader = "flushing" \/ (reader = "done" /\ groupErr = NoErr)
  BY DEF PipeStep, SendBatch, SendCanceled, ReceiveBatch, InserterReturns, InsertBatch,
     InsertFails, ReaderReturns, Report, CallErrs, NoErr, Canceled
<1>4. QED
  BY <1>1, <1>2, <1>3, QuietStep DEF NumberInv

(***************************************************************************)
(* The steps of the command and of its environment.                        *)
(***************************************************************************)
LEMMA FileMainStepInv ==
  ASSUME NumberInv, MainStep \/ Environment \/ Ended, UNCHANGED pdVars
  PROVE  NumberInv'
<1>1. read' = read /\ reader' = reader /\ groupErr' = groupErr
  BY DEF MainStep, TransferReturns, Verify, VerifyFails, Environment, Kill, Ended, vars,
     pipeVars
<1>2. phase' = "verify" \/ Succeeded'
        => \/ phase = "verify" \/ Succeeded
           \/ reader = "done" /\ groupErr = NoErr
  <2>1. CASE RunStep
    BY <2>1 DEF RunStep, Prepare, Connect, TableExists, CreateTable, CreateTableFails,
       DropTable, DropTableFails, KeepTable, LogOperation, Appended, Return, KeepsTable, CallErrs,
       Succeeded, Returned, NoErr, Canceled
  <2>2. CASE TransferReturns
    BY <2>2 DEF TransferReturns, Waited, FillReturns, Return, Succeeded, Returned, NoErr
  <2>3. CASE Verify \/ VerifyFails
    BY <2>3 DEF Verify, VerifyFails
  <2>4. CASE Environment \/ Ended
    BY <2>4 DEF Environment, Interrupt, OtherCreates, Kill, Ended, vars, runVars, Succeeded,
       Returned
  <2>5. QED
    BY <2>1, <2>2, <2>3, <2>4 DEF MainStep
<1>3. QED
  BY <1>1, <1>2, QuietStep DEF NumberInv

(***************************************************************************)
(* The invariant is inductive.                                             *)
(***************************************************************************)
LEMMA FileStepInv == IInv /\ NumberInv /\ [FileNext]_fileVars => IInv' /\ NumberInv'
<1> SUFFICES ASSUME IInv, NumberInv, [FileNext]_fileVars PROVE IInv' /\ NumberInv'
  OBVIOUS
<1>1. IInv'
  BY FileStep, StepInv
<1>2. CASE FileReaderStep
  BY <1>1, <1>2, FileReaderStepInv
<1>3. CASE PipeStep /\ UNCHANGED pdVars
  BY <1>1, <1>3, FilePipeStepInv
<1>4. CASE (MainStep \/ Environment \/ Ended) /\ UNCHANGED pdVars
  BY <1>1, <1>4, FileMainStepInv
<1>5. CASE UNCHANGED fileVars
  BY <1>1, <1>5, QuietStep DEF fileVars, vars, pipeVars, runVars, NumberInv, Succeeded,
     Returned
<1>6. QED
  BY <1>1, <1>2, <1>3, <1>4, <1>5 DEF FileNext

(***************************************************************************)
(* Every reachable state of upload-pds over a file satisfies the invariant *)
(* of UploadPDs and that of the numbers.                                   *)
(***************************************************************************)
THEOREM NumberInvariance == RunSpec => [](IInv /\ NumberInv)
  BY FileInitInv, FileStepInv, PTL DEF RunSpec

(***************************************************************************)
(* The IDs in the table follow the file, for every file, --first-id and    *)
(* width of the IDs.                                                       *)
(***************************************************************************)
THEOREM IDsAlwaysFollowFile == RunSpec => []IDsFollowFile
<1>1. IInv /\ NumberInv => IDsFollowFile
  <2> SUFFICES ASSUME IInv, NumberInv PROVE IDsFollowFile
    OBVIOUS
  <2>1. /\ rows \in Seq(Nat) /\ Len(rows) \in Nat /\ read \in Nat /\ Len(rows) <= read
        /\ \A k \in 1..Len(rows) : rows[k] = k
    <3>1. rows \in Seq(Nat) /\ read \in Nat /\ Len(rows) <= read /\ Run(rows, 1)
      BY DEF IInv, TypeOK, RunTypeOK, PipeTypeOK, PipeInv
    <3>2. Len(rows) \in Nat
      BY <3>1
    <3>3. \A k \in 1..Len(rows) : rows[k] = k
      BY <3>1, <3>2 DEF Run
    <3>4. QED
      BY <3>1, <3>2, <3>3
  <2>2. DOMAIN table = 1..Len(rows) /\ \A k \in 1..Len(rows) : table[k] = given[k]
    BY <2>1 DEF table
  <2>3. /\ pdFile.lines \in Seq(Lines) /\ line \in 0..Len(pdFile.lines)
        /\ MaxID \in Nat /\ nextID <= MaxID /\ firstID \in Nat /\ nextID = firstID + read
    BY PDFilesAssumption, IDsAssumption DEF NumberInv, ReaderTypeOK, Counted
  <2>4. \A i \in NonBlank : i \in 1..Len(pdFile.lines) /\ ~Blank(i)
    BY <2>3 DEF NonBlank
  <2>5. ASSUME NEW k \in 1..Len(rows)
        PROVE  /\ table[k].id = firstID + k - 1
               /\ table[k].id <= MaxID
               /\ \A l \in 1..k - 1 : table[l].line < table[k].line
    <3>1. table[k].id = firstID + k - 1
      BY <2>1, <2>2 DEF NumberInv, Counted
    <3>2. table[k].id <= MaxID
      BY <2>1, <2>3, <3>1
    <3>3. \A l \in 1..k - 1 : table[l].line < table[k].line
      <4> SUFFICES ASSUME NEW l \in 1..k - 1 PROVE table[l].line < table[k].line
        OBVIOUS
      <4>1. l \in 1..Len(rows) /\ l \in 1..read /\ k \in 1..read /\ l < k
        BY <2>1
      <4>2. given[l].line < given[k].line
        BY <4>1 DEF NumberInv, Counted
      <4>3. QED
        BY <2>2, <4>1, <4>2
    <3>4. QED
      BY <3>1, <3>2, <3>3
  <2>6. ASSUME NEW k \in 1..Len(rows), NEW i \in NonBlank, i <= table[k].line
        PROVE  \E l \in 1..k : table[l].line = i
    <3>1. given[k].line \in 1..line /\ table[k] = given[k]
      BY <2>1, <2>2 DEF NumberInv, Counted
    <3>2. CASE i = given[k].line
      BY <2>1, <3>1, <3>2
    <3>3. CASE i < given[k].line
      <4>1. i \in 1..line /\ i # line
        BY <2>3, <2>4, <3>1, <3>3
      <4>2. PICK l \in 1..read : given[l].line = i
        BY <2>4, <4>1 DEF NumberInv, Scanned
      <4>3. l <= k
        BY <2>1, <3>1, <3>3, <4>2 DEF NumberInv, Counted
      <4>4. QED
        BY <2>1, <2>2, <4>2, <4>3
    <3>4. QED
      BY <2>3, <2>4, <2>6, <3>1, <3>2, <3>3
  <2>7. ASSUME Succeeded, NEW i \in NonBlank
        PROVE  \E k \in DOMAIN table : table[k].line = i
    <3>1. line = Len(pdFile.lines) /\ groupErr = NoErr
      BY <2>7 DEF NumberInv
    <3>2. PICK k \in 1..read : given[k].line = i
      BY <2>3, <2>4, <3>1 DEF NumberInv, Scanned
    <3>3. Len(rows) = read
      <4>1. input \in Nat /\ Len(rows) = input /\ read <= input
        BY <2>7, InputsAssumption DEF IInv, TypeOK, ReaderInv
      <4>2. QED
        BY <2>1, <4>1
    <3>4. QED
      BY <2>2, <3>2, <3>3
  <2>8. QED
    BY <2>2, <2>5, <2>6, <2>7 DEF IDsFollowFile
<1>2. QED
  BY <1>1, NumberInvariance, PTL
=============================================================================
