-------------------------- MODULE UploadFIEsProofs --------------------------
(***************************************************************************)
(* What upload-fies guarantees for every batch size and every plan: its    *)
(* inductive invariant, the properties that follow from it, and that the   *)
(* pipeline implements the sequential upload.                              *)
(***************************************************************************)
EXTENDS UploadFIEs, PipelineProofs

(***************************************************************************)
(* Facts about the plan: planned is a number that does not exceed total.   *)
(***************************************************************************)
LEMMA PlanFacts ==
  ASSUME plan \in Plans, file \in 0..Len(plan)
  PROVE  /\ Len(plan) \in Nat
         /\ \A i \in 1..Len(plan) : plan[i] \in Nat
         /\ \A i, j \in 1..Len(plan) : i < j => plan[i] < plan[j]
         /\ planned \in Nat
         /\ total \in Nat
         /\ file = Len(plan) => planned = total
<1>1. plan \in Seq(Nat \ {0}) /\ Len(plan) \in Nat
  BY PlansAssumption, LenProperties
<1>2. \A i \in 1..Len(plan) : plan[i] \in Nat
  BY <1>1, ElementOfSeq
<1>3. \A i, j \in 1..Len(plan) : i < j => plan[i] < plan[j]
  BY PlansAssumption
<1>4. plan = <<>> <=> Len(plan) = 0
  BY <1>1, EmptySeq
<1>5. QED
  BY <1>1, <1>2, <1>3, <1>4 DEF planned, total

(***************************************************************************)
(* The initial states.                                                     *)
(***************************************************************************)
LEMMA InitInv == Init => IInv
<1> SUFFICES ASSUME Init PROVE IInv
  OBVIOUS
<1> USE DEF Init, RunInit, PipeInit
<1>1. RunTypeOK
  <2>1. rows \in Seq(Nat)
    OBVIOUS
  <2>2. created \in BOOLEAN /\ dropFailed \in BOOLEAN /\ interrupted \in BOOLEAN
    <3>1. created = FALSE /\ dropFailed = FALSE /\ interrupted = FALSE
      OBVIOUS
    <3>2. QED
      BY ONLY <3>1
  <2>3. QED
    BY <2>1, <2>2 DEF RunTypeOK, RunErrs, NoErr
<1>2. PipeTypeOK
  BY DEF PipeTypeOK, ChanCap, RunErrs, NoErr
<1>3. RunInv
  BY DEF RunInv, Opening, Returned, Succeeded
<1>4. PipeInv
  <2>1. \A n : Run(<<>>, n)
    BY DEF Run
  <2>2. Lossless
    <3>1. Len(rows) = 0 /\ Len(inserting) = 0 /\ Len(batch) = 0 /\ Len(chan) = 0
      OBVIOUS
    <3>2. Chain(chan, 1, 0)
      BY <3>1 DEF Chain
    <3>3. Run(inserting, 1)
      BY <2>1
    <3>4. QED
      BY <3>1, <3>2, <3>3 DEF Lossless
  <2>3. QED
    BY <2>1, <2>2, BatchSizeAssumption DEF PipeInv, Opening, Returned
<1>5. plan \in Plans /\ file \in 0..Len(plan) /\ missing \in Nat
  BY PlanFacts, PlansAssumption
<1>6. ReaderInv /\ (Succeeded => Len(rows) = total /\ missing = 0)
  BY DEF ReaderInv, planned, Succeeded, Returned
<1>7. QED
  BY <1>1, <1>2, <1>3, <1>4, <1>5, <1>6 DEF IInv, TypeOK

\* The part of the invariant that is upload-fies's own.
OwnInv ==
  /\ plan \in Plans
  /\ file \in 0..Len(plan)
  /\ missing \in Nat
  /\ ReaderInv
  /\ Succeeded => Len(rows) = total /\ missing = 0

(***************************************************************************)
(* The invariant, cut into the common part and the command's own.          *)
(***************************************************************************)
LEMMA IInvParts == IInv <=> CommonInv /\ OwnInv
  BY DEF IInv, TypeOK, CommonInv, OwnInv

(***************************************************************************)
(* The reader's steps.                                                     *)
(***************************************************************************)
LEMMA ReaderStepInv ==
  ASSUME CommonInv, OwnInv, ReaderStep
  PROVE  CommonInv' /\ OwnInv'
<1>1. /\ Len(plan) \in Nat
      /\ \A i \in 1..Len(plan) : plan[i] \in Nat
      /\ \A i, j \in 1..Len(plan) : i < j => plan[i] < plan[j]
      /\ planned \in Nat
      /\ file \in 0..Len(plan)
  BY PlanFacts DEF OwnInv
<1>2. read \in Nat /\ missing \in Nat /\ read + missing <= planned
  BY DEF OwnInv, ReaderInv, CommonInv, PipeTypeOK
<1>3. Filling /\ UNCHANGED <<runVars, plan>> /\ phase' = phase /\ ~Succeeded /\ ~Succeeded'
  BY DEF ReaderStep, StartRead, ReadRow, EndRead, ReadFails, EndReads, Filling, runVars,
     Succeeded, Returned
<1>4. CASE StartRead
  <2>1. Len(batch) < BatchSize
    BY <1>4, BatchSizeAssumption, LenProperties DEF StartRead, CommonInv, PipeInv, PipeTypeOK
  <2>2. CommonInv'
    BY <1>4, <2>1, ReaderMovesCommon DEF StartRead
  <2>3. file' \in 1..Len(plan) /\ file' = file + 1 /\ plan' = plan /\ missing' = missing /\ read' = read
    BY <1>1, <1>4 DEF StartRead
  <2>4. planned' = plan[file + 1]
    BY <1>1, <2>3 DEF planned
  <2>5. read' + missing' <= planned'
    BY <1>1, <1>2, <2>3, <2>4 DEF planned
  <2>6. QED
    BY <1>1, <1>3, <1>4, <2>2, <2>3, <2>5 DEF OwnInv, ReaderInv, StartRead
<1>5. CASE ReadRow
  <2>1. CommonInv'
    BY <1>5, AppendRowCommon DEF ReadRow
  <2>2. file # 0 /\ planned = plan[file]
    BY <1>5 DEF ReadRow, OwnInv, ReaderInv, planned
  <2>3. /\ read' = read + 1 /\ missing' = missing /\ planned' = planned
        /\ file' = file /\ plan' = plan
        /\ reader' \in {"reading", "sending"} /\ groupErr' = groupErr
    BY <1>5 DEF ReadRow, AppendRow, planned
  <2>4. read' + missing' <= planned'
    BY <1>1, <1>2, <1>5, <2>2, <2>3 DEF ReadRow
  <2>5. QED
    BY <1>2, <1>3, <2>1, <2>2, <2>3, <2>4 DEF OwnInv, ReaderInv
<1>6. CASE EndRead
  <2>1. Len(batch) < BatchSize
    BY <1>6, BatchSizeAssumption, LenProperties DEF EndRead, CommonInv, PipeInv, PipeTypeOK
  <2>2. CommonInv'
    BY <1>6, <2>1, ReaderMovesCommon DEF EndRead
  <2>3. file # 0 /\ planned = plan[file]
    BY <1>6 DEF EndRead, OwnInv, ReaderInv, planned
  <2>4. /\ missing' = planned - read /\ read' = read /\ planned' = planned
        /\ file' = file /\ plan' = plan /\ reader' = "between"
    BY <1>6, <2>3 DEF EndRead, planned
  <2>5. missing' \in Nat /\ read' + missing' = planned'
    BY <1>1, <1>2, <2>4
  <2>6. QED
    BY <1>1, <1>3, <2>2, <2>3, <2>4, <2>5 DEF OwnInv, ReaderInv
<1>7. CASE ReadFails
  <2>1. PICK e \in {"read", Canceled} : ReaderReturns(e)
    BY <1>7 DEF ReadFails, CallErrs
  <2>2. e \in RunErrs /\ e # NoErr
    BY <2>1 DEF RunErrs, NoErr, Canceled
  <2>3. CommonInv'
    BY <1>7, <2>1, <2>2, ReaderReturnsCommon DEF ReadFails
  <2>4. groupErr' # NoErr /\ reader' = "done"
    BY <2>1, <2>2 DEF ReaderReturns, Report
  <2>5. QED
    BY <1>3, <1>7, <2>3, <2>4 DEF OwnInv, ReaderInv, ReadFails, planned
<1>8. CASE EndReads
  <2>1. read + missing = planned /\ file = Len(plan) /\ reader = "between"
    BY <1>8 DEF EndReads, OwnInv, ReaderInv
  <2>2. CommonInv'
    <3>1. CASE batch # <<>>
      BY <1>8, <3>1, ReaderMovesCommon DEF EndReads, LastBatch
    <3>2. CASE batch = <<>>
      BY <1>8, <3>2, ReaderReturnsCommon DEF EndReads, LastBatch, RunErrs
    <3>3. QED
      BY <3>1, <3>2
  <2>3. reader' \in {"flushing", "done"}
    BY <1>8 DEF EndReads, LastBatch, ReaderReturns
  <2>4. UNCHANGED <<read, missing, file, plan>> /\ planned' = planned
    BY <1>8 DEF EndReads, planned
  <2>5. QED
    BY <1>1, <1>2, <1>3, <2>1, <2>2, <2>3, <2>4 DEF OwnInv, ReaderInv
<1>9. QED
  BY <1>4, <1>5, <1>6, <1>7, <1>8 DEF ReaderStep

(***************************************************************************)
(* The steps of the pipeline behind the reader: what was read stays read.  *)
(***************************************************************************)
LEMMA PipeStepOwn ==
  ASSUME CommonInv, OwnInv, PipeStep, UNCHANGED <<plan, file, missing>>
  PROVE  OwnInv'
<1>1. /\ phase' = phase /\ ~Succeeded' /\ read' = read /\ planned' = planned
  BY DEF PipeStep, SendBatch, SendCanceled, ReceiveBatch, InserterReturns, InsertBatch,
     InsertFails, runVars, Filling, Succeeded, Returned, planned
<1>2. \/ reader' = reader
      \/ reader = "sending" /\ reader' = "reading"
      \/ reader = "flushing" /\ reader' = "done"
      \/ reader' = "done" /\ groupErr' # NoErr
  BY DEF PipeStep, SendBatch, SendCanceled, ReceiveBatch, InserterReturns, InsertBatch,
     InsertFails, ReaderReturns, Report, NoErr, Canceled
<1>3. groupErr' = NoErr => groupErr = NoErr
  BY DEF PipeStep, SendBatch, SendCanceled, ReceiveBatch, InserterReturns, InsertBatch,
     InsertFails, ReaderReturns, Report
<1>4. ReaderInv'
  BY <1>1, <1>2, <1>3 DEF OwnInv, ReaderInv
<1>5. QED
  BY <1>1, <1>4 DEF OwnInv

(***************************************************************************)
(* The steps of the command around the pipeline.                           *)
(***************************************************************************)
LEMMA MainStepInv ==
  ASSUME CommonInv, OwnInv, MainStep
  PROVE  CommonInv' /\ OwnInv'
<1>1. /\ UNCHANGED <<pipeVars, plan, file, missing>>
      /\ planned' = planned /\ total' = total
  BY DEF MainStep, TransferReturns, Verify, VerifyFails, planned, total
<1>2. ReaderInv'
  BY <1>1 DEF OwnInv, ReaderInv, pipeVars
<1>3. CASE RunStep /\ UNCHANGED <<pipeVars, plan, file, missing>>
  <2>1. CommonInv'
    BY <1>3, RunStepCommon
  <2>2. Succeeded' => Succeeded /\ rows' = rows
    BY <1>3 DEF RunStep, Prepare, Connect, TableExists, CreateTable, CreateTableFails,
       DropTable, DropTableFails, KeepTable, LogOperation, Appended, Return, KeepsTable, CallErrs,
       Succeeded, Returned, NoErr, Canceled
  <2>3. QED
    BY <1>1, <1>2, <2>1, <2>2 DEF OwnInv
<1>4. CASE TransferReturns
  <2>1. groupErr \in RunErrs /\ phase = "fill"
    BY <1>4 DEF CommonInv, PipeTypeOK, TransferReturns, Waited, Filling
  <2>2. CommonInv'
    BY <1>4, <2>1, FillReturnsCommon DEF TransferReturns
  <2>3. ~Succeeded'
    BY <1>4, <2>1 DEF TransferReturns, FillReturns, Return, Succeeded, Returned, CommonInv, RunInv
  <2>4. QED
    BY <1>1, <1>2, <2>2, <2>3 DEF OwnInv
<1>5. CASE Verify
  <2>1. (IF Len(rows) = total THEN NoErr ELSE "mismatch") \in RunErrs
    BY DEF RunErrs
  <2>2. CommonInv'
    BY <1>5, <2>1, VerifyCommon DEF Verify
  <2>3. err' = NoErr => Len(rows) = total
    BY <1>5 DEF Verify, Return, NoErr
  <2>4. rows' = rows /\ phase = "verify"
    BY <1>5 DEF Verify
  <2>5. Len(rows) = total => missing = 0
    <3>1. reader = "done" /\ inserter = "done" /\ groupErr = NoErr /\ Len(rows) <= read
      BY <2>4 DEF CommonInv, PipeInv
    <3>2. read + missing = planned /\ planned = total /\ total \in Nat
      BY <3>1, PlanFacts DEF OwnInv, ReaderInv
    <3>3. Len(rows) \in Nat /\ read \in Nat /\ missing \in Nat
      BY LenProperties DEF CommonInv, RunTypeOK, PipeTypeOK, OwnInv
    <3>4. QED
      BY <3>1, <3>2, <3>3
  <2>6. QED
    BY <1>1, <1>2, <2>2, <2>3, <2>4, <2>5 DEF OwnInv, Succeeded
<1>6. CASE VerifyFails
  <2>1. PICK e \in {"summarize", Canceled} : Return(e)
    BY <1>6 DEF VerifyFails, CallErrs
  <2>2. e \in RunErrs /\ e # NoErr
    BY <2>1 DEF RunErrs, NoErr, Canceled
  <2>3. CommonInv'
    BY <1>6, <2>1, <2>2, VerifyCommon DEF VerifyFails
  <2>4. ~Succeeded'
    BY <2>1, <2>2 DEF Return, Succeeded
  <2>5. QED
    BY <1>1, <1>2, <2>3, <2>4 DEF OwnInv
<1>7. QED
  BY <1>3, <1>4, <1>5, <1>6 DEF MainStep

(***************************************************************************)
(* What the command does not do itself.                                    *)
(***************************************************************************)
LEMMA EnvironmentInv ==
  ASSUME CommonInv, OwnInv, Environment
  PROVE  CommonInv' /\ OwnInv'
<1>1. CommonInv'
  BY EnvironmentCommon DEF Environment
<1>2. /\ UNCHANGED <<pipeVars, plan, file, missing>>
      /\ planned' = planned /\ total' = total
      /\ Succeeded' => Succeeded
  BY DEF Environment, Interrupt, OtherCreates, Kill, planned, total, Succeeded, Returned
<1>3. Succeeded' => rows' = rows
  BY DEF Environment, Interrupt, OtherCreates, Kill, Succeeded, Returned
<1>4. QED
  BY <1>1, <1>2, <1>3 DEF OwnInv, ReaderInv, pipeVars

(***************************************************************************)
(* A step that changes nothing.                                            *)
(***************************************************************************)
LEMMA StutterInv ==
  ASSUME CommonInv, OwnInv, UNCHANGED vars
  PROVE  CommonInv' /\ OwnInv'
<1>1. CommonInv'
  BY StutterCommon DEF vars
<1>2. OwnInv'
  BY DEF OwnInv, ReaderInv, planned, total, Succeeded, Returned, vars, runVars, pipeVars
<1>3. QED
  BY <1>1, <1>2

(***************************************************************************)
(* The invariant is inductive.                                             *)
(***************************************************************************)
LEMMA StepInv == IInv /\ [Next]_vars => IInv'
<1> SUFFICES ASSUME IInv, [Next]_vars PROVE CommonInv' /\ OwnInv'
  BY IInvParts DEF IInv, TypeOK, CommonInv, OwnInv
<1>1. CommonInv /\ OwnInv
  BY IInvParts
<1>2. CASE MainStep
  BY <1>1, <1>2, MainStepInv
<1>3. CASE ReaderStep
  BY <1>1, <1>3, ReaderStepInv
<1>4. CASE PipeStep /\ UNCHANGED <<plan, file, missing>>
  BY <1>1, <1>4, PipeStepCommon, PipeStepOwn
<1>5. CASE Environment
  BY <1>1, <1>5, EnvironmentInv
<1>6. CASE UNCHANGED vars
  BY <1>1, <1>6, StutterInv
<1>7. QED
  BY <1>2, <1>3, <1>4, <1>5, <1>6 DEF Next, Step, Ended

(***************************************************************************)
(* Every reachable state of upload-fies satisfies the invariant.           *)
(***************************************************************************)
THEOREM Invariance == Spec => []IInv
  BY InitInv, StepInv, PTL DEF Spec

(***************************************************************************)
(* The variables keep their types.                                         *)
(***************************************************************************)
THEOREM TypeCorrect == Spec => []TypeOK
<1>1. IInv => TypeOK
  BY DEF IInv
<1>2. QED
  BY <1>1, Invariance, PTL

(***************************************************************************)
(* What ClickHouse holds of the input is its first rows, in order, each    *)
(* once: for every batch size, every plan, and however the run ends.       *)
(***************************************************************************)
THEOREM PrefixAlways == Spec => []TableIsPrefix
<1>1. IInv => TableIsPrefix
  BY DEF IInv, PipeInv, TableIsPrefix
<1>2. QED
  BY <1>1, Invariance, PTL

(***************************************************************************)
(* Success means that every planned row is in the run's own table.         *)
(***************************************************************************)
THEOREM SuccessMeansComplete == Spec => []SuccessIsComplete
<1>1. IInv => SuccessIsComplete
  BY DEF IInv, PipeInv, RunInv, SuccessIsComplete
<1>2. QED
  BY <1>1, Invariance, PTL

(***************************************************************************)
(* A run that failed after creating its table leaves none behind, unless   *)
(* told to keep it or the DROP failed.                                     *)
(***************************************************************************)
THEOREM FailureCleansUp == Spec => []FailureIsClean
<1>1. IInv => FailureIsClean
  BY DEF IInv, RunInv, FailureIsClean
<1>2. QED
  BY <1>1, Invariance, PTL

(***************************************************************************)
(* At most one batch is being read, ChanCap are in the channel and one is  *)
(* being inserted, and none has more than --batch-size rows.               *)
(***************************************************************************)
THEOREM MemoryIsBounded == Spec => []BoundedMemory
<1>1. IInv => BoundedMemory
  BY DEF IInv, TypeOK, PipeTypeOK, PipeInv, BoundedMemory
<1>2. QED
  BY <1>1, Invariance, PTL

(***************************************************************************)
(* "context canceled" is reported only when a signal arrived.              *)
(***************************************************************************)
THEOREM CauseAlways == Spec => []CauseIsReported
<1> USE DEF CauseIsReported, NoErr, Canceled
<1>1. Init => CauseIsReported
  BY DEF Init, RunInit, PipeInit
<1>2. ASSUME CauseIsReported, [Next]_vars PROVE CauseIsReported'
  <2>1. CASE MainStep
    <3>1. groupErr' = groupErr /\ interrupted' = interrupted
      BY <2>1 DEF MainStep, RunStep, Prepare, Connect, TableExists, CreateTable,
         CreateTableFails, DropTable, DropTableFails, KeepTable, LogOperation, Appended,
         TransferReturns, Verify, VerifyFails, pipeVars
    <3>2. err' = Canceled => err = Canceled \/ groupErr = Canceled \/ interrupted
      BY <2>1 DEF MainStep, RunStep, Prepare, Connect, TableExists, CreateTable,
         CreateTableFails, DropTable, DropTableFails, KeepTable, LogOperation, Appended,
         TransferReturns, FillReturns, Verify, VerifyFails, Return, CallErrs
    <3>3. QED
      BY <1>2, <3>1, <3>2
  <2>2. CASE ReaderStep
    BY <1>2, <2>2 DEF ReaderStep, StartRead, ReadRow, EndRead, ReadFails, EndReads, LastBatch,
       ReaderReturns, Report, CallErrs, CtxDone, runVars
  <2>3. CASE PipeStep
    BY <1>2, <2>3 DEF PipeStep, SendBatch, SendCanceled, ReceiveBatch, InserterReturns,
       InsertBatch, InsertFails, ReaderReturns, Report, CallErrs, CtxDone, runVars
  <2>4. CASE Environment
    BY <1>2, <2>4 DEF Environment, Interrupt, OtherCreates, Kill, pipeVars
  <2>5. CASE UNCHANGED vars
    BY <1>2, <2>5 DEF vars, runVars, pipeVars
  <2>6. QED
    BY <1>2, <2>1, <2>2, <2>3, <2>4, <2>5 DEF Next, Step, Ended
<1>3. QED
  BY <1>1, <1>2, PTL DEF Spec

(***************************************************************************)
(* Once a run succeeded it takes nothing back.                             *)
(***************************************************************************)
THEOREM VerifiedStays == Spec => VerifiedIsKept
<1>1. ASSUME IInv, [Next]_vars, Succeeded
      PROVE  server' = server /\ rows' = rows /\ err' = err
  <2>1. /\ phase \in {"cleanup", "log", "done"} /\ err = NoErr /\ server = "ours"
        /\ inserter # "inserting"
    BY <1>1 DEF IInv, RunInv, PipeInv, Succeeded, Returned
  <2>2. CASE MainStep
    BY <2>1, <2>2 DEF MainStep, RunStep, Prepare, Connect, TableExists, CreateTable,
       CreateTableFails, DropTable, DropTableFails, KeepTable, LogOperation, Appended, KeepsTable,
       TransferReturns, Verify, VerifyFails, Waited, Filling
  <2>3. CASE ReaderStep
    BY <2>1, <2>3 DEF ReaderStep, StartRead, ReadRow, EndRead, ReadFails, EndReads, Filling
  <2>4. CASE PipeStep
    BY <2>1, <2>4 DEF PipeStep, SendBatch, SendCanceled, ReceiveBatch, InserterReturns,
       InsertBatch, InsertFails, Filling
  <2>5. CASE Environment
    BY <2>1, <2>5 DEF Environment, Interrupt, OtherCreates, Kill
  <2>6. CASE UNCHANGED vars
    BY <2>6 DEF vars, runVars
  <2>7. QED
    BY <1>1, <2>2, <2>3, <2>4, <2>5, <2>6 DEF Next, Step, Ended
<1>2. QED
  BY <1>1, Invariance, PTL DEF Spec, VerifiedIsKept

(***************************************************************************)
(* Another client's table is left alone.                                   *)
(***************************************************************************)
THEOREM ForeignStays == Spec => ForeignIsUntouched
<1>1. ASSUME IInv, [Next]_vars, server = "foreign"
      PROVE  server' = "foreign" /\ rows' = rows
  <2>1. /\ phase \notin {"fill", "verify", "cleanup"}
        /\ Running => inserter # "inserting"
    BY <1>1 DEF IInv, RunInv, PipeInv, TypeOK, RunTypeOK, Opening, Returned, Running
  <2>2. CASE MainStep
    BY <1>1, <2>1, <2>2 DEF MainStep, RunStep, Prepare, Connect, TableExists, CreateTable,
       CreateTableFails, DropTable, DropTableFails, KeepTable, LogOperation, Appended,
       TransferReturns, Verify, VerifyFails, Waited, Filling
  <2>3. CASE ReaderStep
    BY <2>1, <2>3 DEF ReaderStep, StartRead, ReadRow, EndRead, ReadFails, EndReads, Filling
  <2>4. CASE PipeStep
    BY <2>1, <2>4 DEF PipeStep, SendBatch, SendCanceled, ReceiveBatch, InserterReturns,
       InsertBatch, InsertFails, Filling
  <2>5. CASE Environment
    BY <1>1, <2>1, <2>5 DEF Environment, Interrupt, OtherCreates, Kill
  <2>6. CASE UNCHANGED vars
    BY <1>1, <2>6 DEF vars, runVars
  <2>7. QED
    BY <1>1, <2>2, <2>3, <2>4, <2>5, <2>6 DEF Next, Step, Ended
<1>2. QED
  BY <1>1, Invariance, PTL DEF Spec, ForeignIsUntouched

-----------------------------------------------------------------------------
(***************************************************************************)
(* Every step of the pipeline and of the command around it is a step of    *)
(* the sequential upload, or changes nothing of it.                        *)
(***************************************************************************)
THEOREM Refinement == Spec => ImplementsSequential
<1>1. Init => Sequential!Init
  <2> SUFFICES ASSUME Init PROVE Sequential!Init
    OBVIOUS
  <2>1. total \in Nat
    BY PlanFacts, PlansAssumption DEF Init
  <2>2. QED
    BY <2>1 DEF Init, RunInit, Sequential!Init
<1>2. ASSUME IInv, IInv', [Next]_vars PROVE [Sequential!Next]_(Sequential!vars)
  <2>1. rows \in Seq(Nat) /\ rows' \in Seq(Nat) /\ Len(rows) \in Nat /\ Len(rows') \in Nat
    BY <1>2, LenProperties DEF IInv, TypeOK, RunTypeOK
  <2>2. rows' = [i \in 1..Len(rows') |-> i]
    BY <1>2, <2>1, RunIsExtended DEF IInv, PipeInv, Run
  <2>3. total' = total
    BY <1>2 DEF Next, Step, MainStep, ReaderStep, Environment, Ended, TransferReturns,
       Verify, VerifyFails, StartRead, ReadRow, EndRead, ReadFails, EndReads, total, vars
  <2> USE DEF Sequential!vars, Sequential!Next
  <2>4. CASE MainStep
    <3>1. CASE Prepare \/ Connect \/ TableExists
      BY <1>2, <2>3, <3>1 DEF Prepare, Connect, TableExists, Return, CallErrs, NoErr, Canceled,
         IInv, RunInv, Opening, Sequential!Abort
    <3>2. CASE CreateTable
      BY <2>3, <3>2 DEF CreateTable, Sequential!Create
    <3>3. CASE CreateTableFails
      <4>1. /\ phase = "create" /\ ~created /\ phase' = "log" /\ err' # NoErr /\ rows' = rows
            /\ server' \in {server} \cup (IF server = "absent" THEN {"ours"} ELSE {})
        BY <1>2, <3>3 DEF CreateTableFails, Return, CallErrs, NoErr, Canceled, IInv, RunInv, Opening
      <4>2. QED
        BY <2>3, <4>1 DEF Sequential!Abort
    <3>4. CASE DropTable \/ DropTableFails
      <4>1. /\ phase = "cleanup" /\ phase' = "log" /\ err # NoErr /\ err' = err /\ server = "ours"
            /\ \/ rows' = rows /\ server' = server
               \/ rows' = <<>> /\ server' = "absent"
        BY <1>2, <3>4 DEF DropTable, DropTableFails, KeepsTable, IInv, RunInv
      <4>2. QED
        BY <2>3, <4>1 DEF Sequential!Abort
    <3>5. CASE KeepTable
      <4>1. /\ phase = "cleanup" /\ phase' = "log" /\ err' = err /\ rows' = rows
            /\ server' = server /\ server = "ours"
        BY <1>2, <3>5 DEF KeepTable, IInv, RunInv
      <4>2. CASE err = NoErr
        <5>1. Len(rows) = total
          BY <1>2, <4>1, <4>2 DEF IInv, Succeeded, Returned
        <5>2. QED
          BY <2>3, <4>1, <4>2, <5>1 DEF Sequential!Commit
      <4>3. CASE err # NoErr
        BY <2>3, <4>1, <4>3 DEF Sequential!Abort
      <4>4. QED
        BY <4>2, <4>3
    <3>6. CASE LogOperation
      BY <2>3, <3>6 DEF LogOperation, Appended
    <3>7. CASE TransferReturns \/ Verify \/ VerifyFails
      <4>1. /\ phase \in {"fill", "verify"} /\ phase' \in {"verify", "cleanup"}
            /\ rows' = rows /\ server' = server
        BY <1>2, <3>7 DEF TransferReturns, FillReturns, Verify, VerifyFails, Return, Waited,
           Filling, IInv, RunInv
      <4>2. QED
        BY <2>3, <4>1
    <3>8. QED
      BY <2>4, <3>1, <3>2, <3>3, <3>4, <3>5, <3>6, <3>7 DEF MainStep, RunStep
  <2>5. CASE ReaderStep
    BY <2>3, <2>5 DEF ReaderStep, StartRead, ReadRow, EndRead, ReadFails, EndReads, runVars
  <2>6. CASE PipeStep
    <3>1. CASE SendBatch \/ SendCanceled \/ ReceiveBatch \/ InserterReturns
      BY <2>3, <3>1 DEF SendBatch, SendCanceled, ReceiveBatch, InserterReturns, runVars
    <3>2. CASE InsertBatch \/ InsertFails
      <4>1. /\ phase = "fill" /\ phase' = phase /\ server = "ours" /\ server' = server
            /\ err' = err
            /\ rows' \in {rows, rows \o inserting}
        BY <1>2, <3>2 DEF InsertBatch, InsertFails, Filling, IInv, RunInv
      <4>2. Len(rows') >= Len(rows)
        <5>1. rows \in Seq(Nat) /\ inserting \in Seq(Nat)
          BY <1>2 DEF IInv, TypeOK, RunTypeOK, PipeTypeOK
        <5>2. Len(rows) \in Nat /\ Len(inserting) \in Nat
              /\ Len(rows \o inserting) = Len(rows) + Len(inserting)
          BY ONLY <5>1, ConcatProperties, LenProperties
        <5>3. QED
          BY ONLY <4>1, <5>2
      <4>3. QED
        BY <2>2, <2>3, <4>1, <4>2 DEF Sequential!Insert, Sequential!Extended
    <3>3. QED
      BY <2>6, <3>1, <3>2 DEF PipeStep
  <2>7. CASE Environment
    <3>1. CASE Interrupt
      BY <2>3, <3>1 DEF Interrupt
    <3>2. CASE OtherCreates
      BY <2>3, <3>2 DEF OtherCreates, Sequential!OtherCreates
    <3>3. CASE Kill
      <4>1. /\ phase' = "killed" /\ phase \notin {"done", "killed"} /\ server' = server
            /\ \/ rows' = rows
               \/ inserter = "inserting" /\ rows' = rows \o inserting
        BY <3>3 DEF Kill, Running
      <4>2. CASE rows' = rows
        BY <2>3, <4>1, <4>2 DEF Sequential!Kill
      <4>3. CASE inserter = "inserting" /\ rows' = rows \o inserting
        <5>1. phase = "fill" /\ server = "ours"
          BY <1>2, <4>1, <4>3 DEF IInv, PipeInv, RunInv, TypeOK, RunTypeOK, Opening, Returned
        <5>2. Len(rows') >= Len(rows)
          BY <1>2, <2>1, <4>3, ConcatProperties DEF IInv, TypeOK, PipeTypeOK
        <5>3. QED
          BY <2>2, <2>3, <4>1, <5>1, <5>2 DEF Sequential!Kill, Sequential!Extended
      <4>4. QED
        BY <4>1, <4>2, <4>3
    <3>4. QED
      BY <2>7, <3>1, <3>2, <3>3 DEF Environment
  <2>8. CASE UNCHANGED vars
    BY <2>3, <2>8 DEF vars, runVars
  <2>9. QED
    BY <1>2, <2>4, <2>5, <2>6, <2>7, <2>8 DEF Next, Step, Ended
<1>3. QED
  BY <1>1, <1>2, Invariance, PTL DEF Spec, ImplementsSequential, Sequential!Spec
=============================================================================
