--------------------------- MODULE PipelineProofs ---------------------------
(***************************************************************************)
(* The steps that upload-fies and upload-pds share preserve the invariant  *)
(* the two have in common, for every batch size and every input.           *)
(***************************************************************************)
EXTENDS Pipeline, SequenceTheorems, TLAPS

CommonInv == RunTypeOK /\ PipeTypeOK /\ RunInv /\ PipeInv

(***************************************************************************)
(* Two runs of consecutive rows, the second starting where the first ends, *)
(* make one: what InsertBatch does to the table.                           *)
(***************************************************************************)
LEMMA RunConcat ==
  ASSUME NEW s \in Seq(Nat), NEW t \in Seq(Nat), NEW lo \in Int,
         Run(s, lo), Run(t, lo + Len(s))
  PROVE  /\ s \o t \in Seq(Nat)
         /\ Len(s \o t) = Len(s) + Len(t)
         /\ Run(s \o t, lo)
<1>1. s \o t \in Seq(Nat) /\ Len(s \o t) = Len(s) + Len(t)
  OBVIOUS
<1>2. ASSUME NEW i \in 1..Len(s \o t) PROVE (s \o t)[i] = lo + i - 1
  <2>1. CASE i <= Len(s)
    BY <2>1, <1>1 DEF Run
  <2>2. CASE i > Len(s)
    <3>1. i - Len(s) \in 1..Len(t) /\ (s \o t)[i] = t[i - Len(s)]
      BY <2>2, <1>1
    <3>2. QED
      BY <3>1 DEF Run
  <2>3. QED
    BY <2>1, <2>2, <1>1
<1>3. QED
  BY <1>1, <1>2 DEF Run

(***************************************************************************)
(* Appending the next row to a run: what the reader does to its batch.     *)
(***************************************************************************)
LEMMA RunAppend ==
  ASSUME NEW s \in Seq(Nat), NEW lo \in Int, NEW n \in Nat,
         Run(s, lo), n = lo + Len(s)
  PROVE  /\ Append(s, n) \in Seq(Nat)
         /\ Len(Append(s, n)) = Len(s) + 1
         /\ Run(Append(s, n), lo)
  BY DEF Run

(***************************************************************************)
(* A table that is a run of rows from the first is what the sequential     *)
(* upload writes.                                                          *)
(***************************************************************************)
LEMMA RunIsExtended ==
  ASSUME NEW s \in Seq(Nat), Run(s, 1)
  PROVE  s = [i \in 1..Len(s) |-> i]
<1>1. s \in [1..Len(s) -> Nat] /\ Len(s) \in Nat
  BY LenProperties
<1>2. \A i \in 1..Len(s) : s[i] = i
  BY <1>1 DEF Run
<1>3. QED
  BY <1>1, <1>2

(***************************************************************************)
(* A chain of batches grows by a batch that starts where it ends: what     *)
(* sending does to the channel.                                            *)
(***************************************************************************)
LEMMA ChainAppend ==
  ASSUME NEW c \in Seq(Seq(Nat)), NEW lo \in Int, NEW hi \in Int,
         NEW b \in Seq(Nat), b # <<>>,
         Chain(c, lo, hi), Run(b, hi + 1)
  PROVE  Chain(Append(c, b), lo, hi + Len(b))
<1> DEFINE d == Append(c, b)
<1>1. /\ d \in Seq(Seq(Nat)) /\ Len(d) = Len(c) + 1 /\ d # <<>>
      /\ d[Len(c) + 1] = b
      /\ \A i \in 1..Len(c) : d[i] = c[i]
  <2>1. /\ d \in Seq(Seq(Nat)) /\ Len(d) = Len(c) + 1 /\ Len(c) \in Nat
        /\ d[Len(c) + 1] = b
        /\ \A i \in 1..Len(c) : d[i] = c[i]
    BY AppendProperties, LenProperties
  <2> HIDE DEF d
  <2>2. d # <<>>
    BY <2>1
  <2>3. QED
    BY <2>1, <2>2
<1>2. b[1] = hi + 1 /\ Len(b) \in Nat
  BY DEF Run
<1> HIDE DEF d
<1>3. ASSUME NEW i \in 1..Len(d)
      PROVE  d[i] # <<>> /\ Run(d[i], d[i][1]) /\ d[i][1] + Len(d[i]) <= hi + Len(b) + 1
  <2>1. CASE i \in 1..Len(c)
    <3>1. c[i] # <<>> /\ Run(c[i], c[i][1]) /\ c[i][1] + Len(c[i]) <= hi + 1
      BY <2>1 DEF Chain
    <3>2. c[i] \in Seq(Nat) /\ c[i] # <<>>
      BY <2>1, <3>1, ElementOfSeq
    <3>3. Len(c[i]) \in Nat \ {0}
      BY <3>2, EmptySeq
    <3>4. c[i][1] \in Nat
      <4>1. 1 \in 1..Len(c[i])
        BY <3>3
      <4>2. QED
        BY <3>2, <4>1, ElementOfSeq
    <3>5. c[i][1] + Len(c[i]) <= hi + Len(b) + 1
      <4>1. c[i][1] + Len(c[i]) \in Int
        BY ONLY <3>3, <3>4
      <4>2. Len(b) \in Nat
        BY <1>2
      <4>3. c[i][1] + Len(c[i]) <= hi + 1
        BY <3>1
      <4>4. hi \in Int
        OBVIOUS
      <4>5. QED
        BY ONLY <4>1, <4>2, <4>3, <4>4
    <3>6. d[i] = c[i]
      BY <2>1, <1>1
    <3>7. QED
      BY <3>1, <3>5, <3>6
  <2>2. CASE i \notin 1..Len(c)
    <3>1. d[i] = b
      BY <2>2, <1>1
    <3>2. QED
      BY <3>1, <1>2
  <2>3. QED
    BY <2>1, <2>2
<1>4. ASSUME c # <<>>
      PROVE  /\ Len(c) \in 1..Len(c)
             /\ 1 \in 1..Len(c)
             /\ d[Len(c)] = c[Len(c)]
             /\ d[1] = c[1]
             /\ c[1][1] = lo
             /\ c[Len(c)][1] + Len(c[Len(c)]) = hi + 1
  <2>1. Len(c) \in Nat \ {0}
    BY <1>4, EmptySeq, LenProperties
  <2>2. Len(c) \in 1..Len(c) /\ 1 \in 1..Len(c)
    BY ONLY <2>1
  <2>3. d[Len(c)] = c[Len(c)] /\ d[1] = c[1]
    BY <1>1, <2>2
  <2>4. c[1][1] = lo /\ c[Len(c)][1] + Len(c[Len(c)]) = hi + 1
    BY <1>4 DEF Chain
  <2>5. QED
    BY <2>2, <2>3, <2>4
<1>5. ASSUME NEW i \in 1..Len(d) - 1 PROVE d[i + 1][1] = d[i][1] + Len(d[i])
  <2>1. CASE i = Len(c)
    <3>1. c # <<>>
      BY <2>1
    <3>2. d[i] = c[Len(c)] /\ d[i + 1] = b
      BY <2>1, <3>1, <1>1, <1>4
    <3>3. QED
      BY <3>1, <3>2, <1>2, <1>4
  <2>2. CASE i # Len(c)
    <3>1. i \in 1..Len(c) - 1 /\ i + 1 \in 1..Len(c) /\ i \in 1..Len(c)
      BY <2>2, <1>1
    <3>2. d[i] = c[i] /\ d[i + 1] = c[i + 1]
      BY <3>1, <1>1
    <3>3. QED
      BY <3>1, <3>2 DEF Chain
  <2>3. QED
    BY <2>1, <2>2
<1>6. d[1][1] = lo
  <2>1. CASE c = <<>>
    BY <2>1, <1>1, <1>2 DEF Chain
  <2>2. CASE c # <<>>
    BY <2>2, <1>4
  <2>3. QED
    BY <2>1, <2>2
<1>7. d[Len(d)][1] + Len(d[Len(d)]) = hi + Len(b) + 1
  BY <1>1, <1>2
<1>8. lo <= hi + Len(b) + 1
  BY <1>2 DEF Chain
<1>9. Chain(d, lo, hi + Len(b))
  BY <1>1, <1>3, <1>5, <1>6, <1>7, <1>8 DEF Chain
<1>10. QED
  BY <1>9 DEF d

(***************************************************************************)
(* The first batch of a chain, and the chain of the others: what receiving *)
(* does to the channel.                                                    *)
(***************************************************************************)
LEMMA ChainTail ==
  ASSUME NEW c \in Seq(Seq(Nat)), NEW lo \in Int, NEW hi \in Int,
         c # <<>>, Chain(c, lo, hi)
  PROVE  /\ Head(c) \in Seq(Nat)
         /\ Run(Head(c), lo)
         /\ Tail(c) \in Seq(Seq(Nat))
         /\ Len(Tail(c)) = Len(c) - 1
         /\ Head(c) = c[1]
         /\ \A i \in 1..Len(Tail(c)) : Tail(c)[i] = c[i + 1]
         /\ Chain(Tail(c), lo + Len(Head(c)), hi)
<1> DEFINE d == Tail(c)
<1>1. /\ d \in Seq(Seq(Nat)) /\ Len(d) = Len(c) - 1
      /\ \A i \in 1..Len(d) : d[i] = c[i + 1]
      /\ Head(c) = c[1] /\ Head(c) \in Seq(Nat) /\ Len(c) \in Nat \ {0}
      /\ (d = <<>> <=> Len(c) = 1)
      /\ \A i \in 1..Len(c) : c[i] \in Seq(Nat) /\ Len(c[i]) \in Nat
  <2>1. /\ d \in Seq(Seq(Nat)) /\ Len(d) = Len(c) - 1
        /\ \A i \in 1..Len(d) : d[i] = c[i + 1]
        /\ Head(c) \in Seq(Nat)
    BY HeadTailProperties
  <2>2. \A i \in 1..Len(c) : c[i] \in Seq(Nat) /\ Len(c[i]) \in Nat
    BY ElementOfSeq, LenProperties
  <2>3. Len(c) \in Nat \ {0} /\ Head(c) = c[1]
    BY EmptySeq
  <2> HIDE DEF d
  <2>4. d = <<>> <=> Len(c) = 1
    <3>1. CASE d = <<>>
      BY <3>1, <2>1, <2>3, EmptySeq
    <3>2. CASE d # <<>>
      <4>1. Len(d) \in Nat \ {0}
        BY <3>2, <2>1, EmptySeq
      <4>2. QED
        BY <4>1, <2>1, <2>3
    <3>3. QED
      BY <3>1, <3>2
  <2>5. QED
    BY <2>1, <2>2, <2>3, <2>4
<1>2. c[1][1] = lo /\ c[Len(c)][1] + Len(c[Len(c)]) = hi + 1
  BY DEF Chain
<1>3. Run(Head(c), lo) /\ lo + Len(Head(c)) <= hi + 1
  <2>1. 1 \in 1..Len(c)
    BY <1>1
  <2>2. Run(c[1], c[1][1]) /\ c[1][1] + Len(c[1]) <= hi + 1
    BY <2>1 DEF Chain
  <2>3. QED
    BY <2>2, <1>1, <1>2
<1> HIDE DEF d
<1>4. ASSUME NEW i \in 1..Len(d)
      PROVE  d[i] # <<>> /\ Run(d[i], d[i][1]) /\ d[i][1] + Len(d[i]) <= hi + 1
  <2>1. d[i] = c[i + 1] /\ i + 1 \in 1..Len(c)
    BY <1>1
  <2>2. QED
    BY <2>1 DEF Chain
<1>5. ASSUME NEW i \in 1..Len(d) - 1 PROVE d[i + 1][1] = d[i][1] + Len(d[i])
  <2>1. d[i] = c[i + 1] /\ d[i + 1] = c[(i + 1) + 1] /\ i + 1 \in 1..Len(c) - 1
    <3>1. i \in 1..Len(d) /\ i + 1 \in 1..Len(d)
      BY <1>1
    <3>2. QED
      BY <3>1, <1>1
  <2>2. c[(i + 1) + 1][1] = c[i + 1][1] + Len(c[i + 1])
    BY <2>1 DEF Chain
  <2>3. QED
    BY <2>1, <2>2
<1>6. CASE d = <<>>
  <2>1. Len(c) = 1 /\ c[1] = Head(c)
    BY <1>1, <1>6
  <2>2. lo + Len(Head(c)) = hi + 1 /\ Len(Head(c)) \in Nat
    BY <2>1, <1>1, <1>2
  <2>3. Chain(d, lo + Len(Head(c)), hi)
    BY <2>2, <1>3, <1>4, <1>5, <1>6 DEF Chain
  <2>4. QED
    BY <2>3, <1>1, <1>3 DEF d
<1>7. CASE d # <<>>
  <2>1. 1 \in 1..Len(c) - 1 /\ d[1] = c[2] /\ d[Len(d)] = c[Len(c)]
    BY <1>1, <1>7
  <2>2. c[1 + 1][1] = c[1][1] + Len(c[1])
    BY <2>1 DEF Chain
  <2>3. Chain(d, lo + Len(Head(c)), hi)
    BY <2>1, <2>2, <1>1, <1>2, <1>3, <1>4, <1>5, <1>7 DEF Chain
  <2>4. QED
    BY <2>3, <1>1, <1>3 DEF d
<1>8. QED
  BY <1>6, <1>7

-----------------------------------------------------------------------------
(***************************************************************************)
(* The steps of the command outside the pipeline keep the invariant.       *)
(***************************************************************************)
LEMMA RunStepCommon ==
  ASSUME CommonInv, RunStep, UNCHANGED pipeVars
  PROVE  CommonInv'
<1> USE DEF CommonInv, RunTypeOK, RunInv, Opening, Returned, Succeeded, Return,
            CallErrs, RunErrs, NoErr, Canceled
<1>1. PipeTypeOK'
  BY DEF PipeTypeOK, pipeVars
<1>2. CASE Prepare
  BY <1>1, <1>2 DEF Prepare, PipeInv, Intact, Lossless, pipeVars
<1>3. CASE Connect
  BY <1>1, <1>3 DEF Connect, PipeInv, Intact, Lossless, pipeVars
<1>4. CASE TableExists
  BY <1>1, <1>4 DEF TableExists, PipeInv, Intact, Lossless, pipeVars
<1>5. CASE CreateTable
  BY <1>1, <1>5 DEF CreateTable, PipeInv, Intact, Lossless, pipeVars
<1>6. CASE CreateTableFails
  BY <1>1, <1>6 DEF CreateTableFails, PipeInv, Intact, Lossless, pipeVars
<1>7. CASE DropTable
  BY <1>1, <1>7 DEF DropTable, KeepsTable, PipeInv, Intact, Lossless, Run, pipeVars, PipeTypeOK
<1>8. CASE DropTableFails
  <2>1. CASE UNCHANGED <<server, rows>>
    BY <1>1, <1>8, <2>1 DEF DropTableFails, KeepsTable, PipeInv, Intact, pipeVars
  <2>2. CASE server' = "absent" /\ rows' = <<>>
    BY <1>1, <1>8, <2>2 DEF DropTableFails, KeepsTable, PipeInv, Intact, Run, pipeVars, PipeTypeOK
  <2>3. QED
    BY <1>8, <2>1, <2>2 DEF DropTableFails
<1>9. CASE KeepTable
  BY <1>1, <1>9 DEF KeepTable, KeepsTable, PipeInv, Intact, Lossless, pipeVars
<1>10. CASE LogOperation
  BY <1>1, <1>10 DEF LogOperation, Appended, PipeInv, Intact, Lossless, pipeVars
<1>11. QED
  BY <1>2, <1>3, <1>4, <1>5, <1>6, <1>7, <1>8, <1>9, <1>10 DEF RunStep

-----------------------------------------------------------------------------
(***************************************************************************)
(* The reader takes the next row into its batch.                           *)
(***************************************************************************)
LEMMA AppendRowCommon ==
  ASSUME CommonInv, Filling, reader = "reading", AppendRow,
         UNCHANGED <<runVars, chan, inserter, inserting, sent, groupErr>>
  PROVE  CommonInv'
<1> USE DEF CommonInv
<1>1. RunTypeOK' /\ RunInv'
  BY DEF RunTypeOK, RunInv, runVars, Opening, Returned, Succeeded
<1>2. /\ batch' \in Seq(Nat)
      /\ Len(batch') = Len(batch) + 1
      /\ Run(batch', read' - Len(batch') + 1)
  BY RunAppend DEF AppendRow, PipeTypeOK, PipeInv
<1>3. Len(batch) + 1 <= BatchSize
  BY BatchSizeAssumption DEF PipeInv, PipeTypeOK
<1>4. PipeTypeOK'
  BY <1>2 DEF AppendRow, PipeTypeOK
<1>5. Lossless => Lossless'
  BY <1>2 DEF Lossless, AppendRow, PipeTypeOK, Run, runVars
<1>6. PipeInv'
  BY <1>2, <1>3, <1>5, BatchSizeAssumption DEF PipeInv, AppendRow, PipeTypeOK, Intact, Opening, Returned, Run,
     runVars, Filling
<1>7. QED
  BY <1>1, <1>4, <1>6

(***************************************************************************)
(* The reader moves on without touching its batch: to the next read, or to *)
(* send what it has.                                                       *)
(***************************************************************************)
LEMMA ReaderMovesCommon ==
  ASSUME CommonInv, Filling, reader \in {"between", "reading"},
         \/ reader' \in {"between", "reading"} /\ Len(batch) < BatchSize
         \/ reader' = "flushing" /\ batch # <<>>,
         UNCHANGED <<runVars, batch, read, chan, inserter, inserting, sent, groupErr>>
  PROVE  CommonInv'
<1> USE DEF CommonInv
<1>1. RunTypeOK' /\ RunInv'
  BY DEF RunTypeOK, RunInv, runVars, Opening, Returned, Succeeded
<1>2. PipeTypeOK'
  BY DEF PipeTypeOK
<1>3. PipeInv'
  BY DEF PipeInv, PipeTypeOK, Intact, Lossless, Run, Opening, Returned, runVars, Filling
<1>4. QED
  BY <1>1, <1>2, <1>3

(***************************************************************************)
(* The reader returns, with an error or with nothing left to send.         *)
(***************************************************************************)
LEMMA ReaderReturnsCommon ==
  ASSUME CommonInv, Filling, reader # "done", NEW e \in RunErrs, ReaderReturns(e),
         e # NoErr \/ batch = <<>>,
         UNCHANGED <<runVars, batch, read, chan, inserter, inserting, sent>>
  PROVE  CommonInv'
<1> USE DEF CommonInv
<1>1. RunTypeOK' /\ RunInv'
  BY DEF RunTypeOK, RunInv, runVars, Opening, Returned, Succeeded
<1>2. PipeTypeOK'
  BY DEF PipeTypeOK, ReaderReturns, Report
<1>3. Lossless => Lossless'
  BY DEF Lossless, Run, runVars
<1>4. groupErr' = NoErr => groupErr = NoErr /\ batch = <<>>
  BY DEF ReaderReturns, Report
<1>5. Intact' => Intact
  BY <1>4 DEF Intact, Opening, Filling, runVars
<1>6. PipeInv'
  BY <1>3, <1>4, <1>5 DEF PipeInv, Run, Opening, Returned, runVars, Filling, ReaderReturns
<1>7. QED
  BY <1>1, <1>2, <1>6

-----------------------------------------------------------------------------
(***************************************************************************)
(* A batch goes into the channel.                                          *)
(***************************************************************************)
LEMMA SendBatchCommon ==
  ASSUME CommonInv, SendBatch
  PROVE  CommonInv'
<1> USE DEF CommonInv
<1>1. RunTypeOK' /\ RunInv'
  BY DEF SendBatch, RunTypeOK, RunInv, runVars, Opening, Returned, Succeeded
<1>2. /\ chan \in Seq(Seq(Nat)) /\ batch \in Seq(Nat) /\ Len(batch) \in 1..BatchSize
      /\ Len(chan) < ChanCap /\ chan' = Append(chan, batch) /\ batch' = <<>>
      /\ read \in Nat /\ read' = read /\ rows' = rows /\ rows \in Seq(Nat)
      /\ inserting' = inserting /\ inserting \in Seq(Nat)
      /\ inserter' = inserter /\ groupErr' = groupErr /\ phase' = phase /\ sent' = sent
      /\ reader' \in {"reading", "done"}
  BY BatchSizeAssumption DEF SendBatch, PipeTypeOK, PipeInv, RunTypeOK, runVars
<1>3. /\ chan' \in Seq(Seq(Nat)) /\ Len(chan') = Len(chan) + 1 /\ Len(chan) \in Nat
      /\ chan'[Len(chan')] = batch
      /\ \A i \in 1..Len(chan) : chan'[i] = chan[i]
  BY <1>2
<1>4. PipeTypeOK'
  BY <1>2, <1>3 DEF SendBatch, PipeTypeOK, ChanCap
<1>5. Run(batch, read - Len(batch) + 1) /\ batch # <<>>
  BY <1>2 DEF PipeInv
<1>6. ASSUME Lossless PROVE Lossless'
  <2> DEFINE lo == Len(rows) + Len(inserting) + 1
             hi == read - Len(batch)
  <2>1. lo \in Int /\ hi \in Int /\ read = hi + Len(batch)
    BY <1>2
  <2>2. Chain(chan, lo, hi)
    BY <1>6 DEF Lossless
  <2>3. Run(batch, hi + 1)
    BY <1>5
  <2> HIDE DEF lo, hi
  <2>4. Chain(chan', lo, hi + Len(batch))
    BY <2>1, <2>2, <2>3, <1>2, <1>5, ChainAppend
  <2>5. Chain(chan', lo, read' - Len(batch'))
    <3>1. read' - Len(batch') = hi + Len(batch)
      BY <2>1, <1>2
    <3>2. QED
      BY <2>4, <3>1
  <2>6. lo = Len(rows') + Len(inserting') + 1
    BY <1>2 DEF lo
  <2>7. QED
    BY <2>5, <2>6, <1>2, <1>6 DEF Lossless, Run
<1>7. \A i \in 1..Len(chan') : Len(chan'[i]) \in 1..BatchSize
  <2>1. TAKE i \in 1..Len(chan')
  <2>2. CASE i = Len(chan')
    BY <2>2, <1>2, <1>3
  <2>3. CASE i # Len(chan')
    <3>1. i \in 1..Len(chan)
      BY <2>3, <1>3
    <3>2. chan'[i] = chan[i] /\ Len(chan[i]) \in 1..BatchSize
      BY <3>1, <1>3 DEF PipeInv
    <3>3. QED
      BY <3>2
  <2>4. QED
    BY <2>2, <2>3
<1>8. inserter = "done" => groupErr # NoErr
  BY DEF PipeInv, SendBatch
<1>9. PipeInv'
  <2>1. Intact' => Intact
    BY <1>2 DEF Intact, Opening
  <2>2. QED
    BY <1>2, <1>6, <1>7, <1>8, <2>1, BatchSizeAssumption
       DEF PipeInv, Run, Opening, Returned, SendBatch, Filling
<1>10. QED
  BY <1>1, <1>4, <1>9

(***************************************************************************)
(* The reader gives up a batch because its context is done.                *)
(***************************************************************************)
LEMMA SendCanceledCommon ==
  ASSUME CommonInv, SendCanceled
  PROVE  CommonInv'
<1>1. Canceled \in RunErrs /\ Canceled # NoErr
  BY DEF RunErrs, Canceled, NoErr
<1>2. QED
  BY <1>1, ReaderReturnsCommon DEF SendCanceled

(***************************************************************************)
(* The inserter takes the oldest batch out of the channel.                 *)
(***************************************************************************)
LEMMA ReceiveBatchCommon ==
  ASSUME CommonInv, ReceiveBatch
  PROVE  CommonInv'
<1> USE DEF CommonInv
<1>1. RunTypeOK' /\ RunInv'
  BY DEF ReceiveBatch, RunTypeOK, RunInv, runVars, Opening, Returned, Succeeded
<1>2. /\ chan \in Seq(Seq(Nat)) /\ chan # <<>> /\ chan' = Tail(chan)
      /\ inserting' = Head(chan) /\ inserting = <<>> /\ inserter = "waiting"
      /\ inserter' = "inserting" /\ phase' = phase /\ groupErr' = groupErr
      /\ rows' = rows /\ rows \in Seq(Nat) /\ read' = read /\ batch' = batch
      /\ reader' = reader /\ sent' = sent /\ phase = "fill"
      /\ read \in Nat /\ batch \in Seq(Nat) /\ Len(chan) <= ChanCap
  BY DEF ReceiveBatch, PipeTypeOK, PipeInv, RunTypeOK, runVars, Filling
<1>3. Lossless
  BY <1>2 DEF PipeInv, Intact
<1>4. Chain(chan, Len(rows) + 1, read - Len(batch)) /\ sent = Len(rows)
  BY <1>2, <1>3 DEF Lossless
<1>5. /\ inserting' \in Seq(Nat)
      /\ chan' \in Seq(Seq(Nat))
      /\ Len(chan') = Len(chan) - 1
      /\ inserting' = chan[1]
      /\ \A i \in 1..Len(chan') : chan'[i] = chan[i + 1]
      /\ Run(inserting', Len(rows) + 1)
      /\ Chain(chan', (Len(rows) + 1) + Len(inserting'), read - Len(batch))
  <2>1. Len(rows) + 1 \in Int /\ read - Len(batch) \in Int
    BY <1>2
  <2>2. QED
    BY <1>2, <1>4, <2>1, ChainTail
<1>6. Len(chan) \in Nat \ {0}
  BY <1>2, EmptySeq
<1>7. PipeTypeOK'
  BY <1>2, <1>5, <1>6 DEF PipeTypeOK, ChanCap
<1>8. Lossless'
  <2>1. (Len(rows) + 1) + Len(inserting') = Len(rows') + Len(inserting') + 1
    <3>1. Len(rows) \in Nat /\ Len(inserting') \in Nat /\ rows' = rows
      BY <1>2, <1>5, LenProperties
    <3>2. QED
      BY <3>1
  <2>2. Run(inserting', Len(rows') + 1) /\ sent' = Len(rows') /\ read' - Len(batch') = read - Len(batch)
    BY <1>2, <1>4, <1>5
  <2>3. QED
    BY <2>1, <2>2, <1>5 DEF Lossless
<1>9. \A i \in 1..Len(chan) : Len(chan[i]) \in 1..BatchSize
  BY DEF PipeInv
<1>10. /\ Len(inserting') <= BatchSize
       /\ \A i \in 1..Len(chan') : Len(chan'[i]) \in 1..BatchSize
  <2>1. Len(inserting') \in 1..BatchSize
    BY <1>5, <1>6, <1>9
  <2>2. ASSUME NEW i \in 1..Len(chan') PROVE Len(chan'[i]) \in 1..BatchSize
    <3>1. i + 1 \in 1..Len(chan) /\ chan'[i] = chan[i + 1]
      BY <1>5, <1>6
    <3>2. QED
      BY <3>1, <1>9
  <2>3. QED
    BY <2>1, <2>2
<1>11. PipeInv'
  BY <1>2, <1>8, <1>10 DEF PipeInv, Run, Opening, Returned
<1>12. QED
  BY <1>1, <1>7, <1>11

(***************************************************************************)
(* The inserter finds the channel closed and drained.                      *)
(***************************************************************************)
LEMMA InserterReturnsCommon ==
  ASSUME CommonInv, InserterReturns
  PROVE  CommonInv'
<1> USE DEF CommonInv
<1>1. RunTypeOK' /\ RunInv'
  BY DEF InserterReturns, RunTypeOK, RunInv, runVars, Opening, Returned, Succeeded
<1>2. PipeTypeOK'
  BY DEF PipeTypeOK, InserterReturns
<1>3. Lossless'
  BY DEF PipeInv, Intact, InserterReturns, Filling, Lossless, Run, runVars
<1>4. PipeInv'
  BY <1>3 DEF PipeInv, InserterReturns, Run, Opening, Returned, runVars, Filling
<1>5. QED
  BY <1>1, <1>2, <1>4

(***************************************************************************)
(* A batch reaches the table: the table stays the input's first rows.      *)
(***************************************************************************)
LEMMA LandedBatch ==
  ASSUME CommonInv, Filling, inserter = "inserting"
  PROVE  /\ rows \o inserting \in Seq(Nat)
         /\ Len(rows \o inserting) = Len(rows) + Len(inserting)
         /\ Run(rows \o inserting, 1)
         /\ Len(rows) + Len(inserting) <= read
<1> USE DEF CommonInv
<1>1. Lossless /\ rows \in Seq(Nat) /\ inserting \in Seq(Nat) /\ Run(rows, 1)
  BY DEF PipeInv, Intact, Filling, RunTypeOK, PipeTypeOK
<1>2. Run(inserting, 1 + Len(rows))
  BY <1>1 DEF Lossless
<1>3. /\ rows \o inserting \in Seq(Nat)
      /\ Len(rows \o inserting) = Len(rows) + Len(inserting)
      /\ Run(rows \o inserting, 1)
  BY <1>1, <1>2, RunConcat
<1>4. Len(rows) + Len(inserting) + 1 <= (read - Len(batch)) + 1
  BY <1>1 DEF Lossless, Chain
<1>5. Len(rows) + Len(inserting) <= read
  BY <1>1, <1>4 DEF PipeTypeOK
<1>6. QED
  BY <1>3, <1>5

(***************************************************************************)
(* An acknowledged insert.                                                 *)
(***************************************************************************)
LEMMA InsertBatchCommon ==
  ASSUME CommonInv, InsertBatch
  PROVE  CommonInv'
<1> USE DEF CommonInv
<1>1. /\ phase = "fill" /\ phase' = phase /\ server' = server /\ created' = created
      /\ err' = err /\ inserter = "inserting" /\ inserter' = "waiting"
      /\ rows' = rows \o inserting /\ inserting' = <<>>
      /\ sent' = sent + Len(inserting) /\ reader' = reader /\ batch' = batch
      /\ read' = read /\ chan' = chan /\ groupErr' = groupErr
  BY DEF InsertBatch, Filling
<1>2. /\ rows' \in Seq(Nat)
      /\ Len(rows') = Len(rows) + Len(inserting)
      /\ Run(rows', 1)
      /\ Len(rows') <= read
  BY <1>1, LandedBatch DEF Filling
<1>3. Len(rows) \in Nat /\ Len(inserting) \in Nat /\ sent \in Nat
  BY LenProperties DEF RunTypeOK, PipeTypeOK
<1>4. RunTypeOK'
  BY <1>2 DEF InsertBatch, RunTypeOK
<1>5. RunInv'
  BY <1>1 DEF RunInv, Opening, Returned, Succeeded
<1>6. PipeTypeOK'
  BY <1>1, <1>3 DEF PipeTypeOK
<1>7. Lossless
  BY <1>1 DEF PipeInv, Intact
<1>8. Lossless'
  <2>1. Len(rows') + Len(inserting') + 1 = Len(rows) + Len(inserting) + 1
    BY <1>1, <1>2, <1>3
  <2>2. sent' = Len(rows')
    BY <1>1, <1>2, <1>3, <1>7 DEF Lossless
  <2>3. Run(inserting', Len(rows') + 1)
    BY <1>1 DEF Run
  <2>4. QED
    BY <1>1, <1>7, <2>1, <2>2, <2>3 DEF Lossless
<1>9. Len(inserting') <= BatchSize
  BY <1>1, <1>3, BatchSizeAssumption DEF PipeInv
<1>10. PipeInv'
  BY <1>1, <1>2, <1>8, <1>9 DEF PipeInv, Run, Opening, Returned
<1>11. QED
  BY <1>4, <1>5, <1>6, <1>10

(***************************************************************************)
(* A failed insert, whose rows reached the table or did not.               *)
(***************************************************************************)
LEMMA InsertFailsCommon ==
  ASSUME CommonInv, InsertFails
  PROVE  CommonInv'
<1> USE DEF CommonInv
<1>1. /\ phase = "fill" /\ phase' = phase /\ server' = server /\ created' = created
      /\ err' = err /\ inserter = "inserting" /\ inserter' = "done"
      /\ inserting' = <<>> /\ sent' = sent /\ reader' = reader /\ batch' = batch
      /\ read' = read /\ chan' = chan
  BY DEF InsertFails, Filling
<1>2. groupErr' \in RunErrs /\ groupErr' # NoErr
  BY DEF InsertFails, Report, CallErrs, RunErrs, NoErr, Canceled, PipeTypeOK
<1>3. Len(rows) \in Nat /\ Len(inserting) \in Nat
  BY LenProperties DEF RunTypeOK, PipeTypeOK
<1>4. rows' \in Seq(Nat) /\ Run(rows', 1) /\ Len(rows') <= read
  <2>1. CASE rows' = rows
    BY <2>1 DEF RunTypeOK, PipeInv
  <2>2. CASE rows' = rows \o inserting
    BY <1>1, <2>2, LandedBatch DEF Filling
  <2>3. QED
    BY <2>1, <2>2 DEF InsertFails
<1>5. RunTypeOK'
  BY <1>4 DEF InsertFails, RunTypeOK
<1>6. RunInv'
  BY <1>1 DEF RunInv, Opening, Returned, Succeeded
<1>7. PipeTypeOK'
  BY <1>1, <1>2 DEF PipeTypeOK
<1>8. Len(inserting') <= BatchSize
  BY <1>1, <1>3, BatchSizeAssumption DEF PipeInv
<1>9. PipeInv'
  BY <1>1, <1>2, <1>4, <1>8 DEF PipeInv, Run, Intact, Opening, Returned
<1>10. QED
  BY <1>5, <1>6, <1>7, <1>9

-----------------------------------------------------------------------------
(***************************************************************************)
(* Wait returns: with the group's error, or with one of the command's own. *)
(***************************************************************************)
LEMMA FillReturnsCommon ==
  ASSUME CommonInv, Waited, NEW e \in RunErrs, FillReturns(e),
         groupErr # NoErr => e # NoErr,
         UNCHANGED <<server, rows, created, dropFailed, record, interrupted,
                     dropOnFail, pipeVars>>
  PROVE  CommonInv'
<1> USE DEF CommonInv
<1>1. /\ phase = "fill" /\ reader = "done" /\ inserter = "done" /\ created
      /\ server = "ours" /\ err = NoErr
  BY DEF Waited, Filling, RunInv
<1>2. \/ e = NoErr /\ phase' = "verify" /\ err' = err
      \/ e # NoErr /\ phase' = "cleanup" /\ err' = e
  BY <1>1 DEF FillReturns, Return
<1>3. RunTypeOK' /\ RunInv'
  BY <1>1, <1>2 DEF RunTypeOK, RunInv, Opening, Returned, Succeeded
<1>4. PipeTypeOK'
  BY DEF PipeTypeOK, pipeVars
<1>5. PipeInv'
  BY <1>1, <1>2 DEF PipeInv, Intact, Lossless, Run, Opening, Returned, pipeVars
<1>6. QED
  BY <1>3, <1>4, <1>5

(***************************************************************************)
(* The verification returns, with or without an error.                     *)
(***************************************************************************)
LEMMA VerifyCommon ==
  ASSUME CommonInv, phase = "verify", NEW e \in RunErrs, Return(e),
         UNCHANGED <<server, rows, created, dropFailed, record, interrupted,
                     dropOnFail, pipeVars>>
  PROVE  CommonInv'
<1> USE DEF CommonInv
<1>1. created /\ server = "ours" /\ phase' = "cleanup" /\ err' = e
  BY DEF RunInv, Return
<1>2. RunTypeOK' /\ RunInv'
  BY <1>1 DEF RunTypeOK, RunInv, Opening, Returned, Succeeded
<1>3. PipeTypeOK'
  BY DEF PipeTypeOK, pipeVars
<1>4. PipeInv'
  BY <1>1 DEF PipeInv, Intact, Lossless, Run, Opening, Returned, pipeVars
<1>5. QED
  BY <1>2, <1>3, <1>4

(***************************************************************************)
(* Signals, other clients and the end of the process.                      *)
(***************************************************************************)
LEMMA EnvironmentCommon ==
  ASSUME CommonInv,
         \/ Interrupt /\ UNCHANGED pipeVars
         \/ OtherCreates /\ UNCHANGED pipeVars
         \/ Kill
  PROVE  CommonInv'
<1> USE DEF CommonInv
<1>1. PipeTypeOK'
  BY DEF PipeTypeOK, pipeVars, Kill
<1>2. CASE Interrupt /\ UNCHANGED pipeVars
  BY <1>1, <1>2 DEF Interrupt, RunTypeOK, RunInv, PipeInv, Intact, Lossless, Run,
     Opening, Returned, Succeeded, pipeVars
<1>3. CASE OtherCreates /\ UNCHANGED pipeVars
  BY <1>1, <1>3 DEF OtherCreates, RunTypeOK, RunInv, PipeInv, Intact, Lossless, Run,
     Opening, Returned, Succeeded, pipeVars
<1>4. CASE Kill
  <2>1. /\ phase' = "killed" /\ server' = server /\ created' = created /\ err' = err
        /\ UNCHANGED pipeVars
        /\ \/ rows' = rows
           \/ inserter = "inserting" /\ rows' = rows \o inserting
    BY <1>4 DEF Kill
  <2>2. inserter = "inserting" => phase = "fill"
    BY <1>4 DEF Kill, Running, PipeInv, RunTypeOK, Opening, Returned
  <2>3. rows' \in Seq(Nat) /\ Run(rows', 1) /\ Len(rows') <= read
    <3>1. CASE rows' = rows
      BY <3>1 DEF RunTypeOK, PipeInv
    <3>2. CASE inserter = "inserting" /\ rows' = rows \o inserting
      BY <2>2, <3>2, LandedBatch DEF Filling
    <3>3. QED
      BY <2>1, <3>1, <3>2
  <2>4. RunTypeOK'
    BY <1>4, <2>3 DEF Kill, RunTypeOK
  <2>5. RunInv'
    <3>1. (server' # "ours" \/ ~created') => rows' = <<>>
      BY <2>1, <2>2 DEF RunInv
    <3>2. QED
      BY <2>1, <3>1 DEF RunInv, Opening, Returned, Succeeded
  <2>6. PipeInv'
    BY <2>1, <2>3 DEF PipeInv, Intact, Run, Opening, Returned, pipeVars
  <2>7. QED
    BY <1>1, <2>4, <2>5, <2>6
<1>5. QED
  BY <1>2, <1>3, <1>4

(***************************************************************************)
(* Every step of the pipeline that is not the reader's reading.            *)
(***************************************************************************)
LEMMA PipeStepCommon ==
  ASSUME CommonInv, PipeStep
  PROVE  CommonInv'
  BY SendBatchCommon, SendCanceledCommon, ReceiveBatchCommon, InserterReturnsCommon,
     InsertBatchCommon, InsertFailsCommon DEF PipeStep

(***************************************************************************)
(* A step that changes nothing.                                            *)
(***************************************************************************)
LEMMA StutterCommon ==
  ASSUME CommonInv, UNCHANGED <<runVars, pipeVars>>
  PROVE  CommonInv'
<1> USE DEF CommonInv
<1>1. RunTypeOK' /\ RunInv'
  BY DEF RunTypeOK, RunInv, runVars, Opening, Returned, Succeeded
<1>2. PipeTypeOK' /\ PipeInv'
  BY DEF PipeTypeOK, PipeInv, Intact, Lossless, Run, Opening, Returned, runVars, pipeVars
<1>3. QED
  BY <1>1, <1>2
=============================================================================
