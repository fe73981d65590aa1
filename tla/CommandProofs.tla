---------------------------- MODULE CommandProofs ----------------------------
(***************************************************************************)
(* Proofs about ComputeFDHs, for every set of FIEs and PDs, any number of  *)
(* copies and any growth of the input tables: a table that passed has      *)
(* exactly the counted FIEs, and a query that outlives its table is one    *)
(* that KILL QUERY could not end.                                          *)
(*                                                                         *)
(* And about DisplayedRun, for input files of any number and size, each of *)
(* at least a row, and every command: what the terminal and a frame of the *)
(* display show.                                                           *)
(***************************************************************************)
EXTENDS ComputeFDHs, DisplayedRun, FlattenProofs, FunctionTheorems

(***************************************************************************)
(* Where insertFDHs is in each phase of the command.                       *)
(***************************************************************************)
ClientInv ==
  /\ phase \in {"prepare", "connect", "lookup"} => client = "checking"
  /\ phase = "create" => client \in {"checking", "counted"}
  /\ phase = "fill" => client \in {"insert", "waiting", "kill"}
  /\ phase = "verify" => client = "returned" /\ query = "complete"
  /\ Returned /\ created => client = "returned"
  /\ client \in {"insert", "waiting", "kill", "returned"} => created
  /\ client \in {"checking", "counted", "insert"} => query = "none" /\ rows = <<>>

(***************************************************************************)
(* What was counted is in the input tables from then on.                   *)
(***************************************************************************)
CountInv ==
  /\ counted \subseteq {i \in fies : Found(i)}
  /\ client # "checking" => want = Cardinality(counted)

(***************************************************************************)
(* The query has, for every counted FIE, a row in the table or one still   *)
(* to insert there.                                                        *)
(***************************************************************************)
RowsInv ==
  /\ query \in {"running", "complete"} /\ server = "ours"
       => \A i \in counted : (\E k \in DOMAIN rows : rows[k] = i) \/ todo[i] > 0
  /\ query = "complete" => \A i \in FIEs : todo[i] = 0

(***************************************************************************)
(* Whose table the query fills, and who killed it: a query that is there   *)
(* after its table is one whose run failed, and whose KILL did not end it. *)
(***************************************************************************)
QueryInv ==
  /\ query \in {"none", "sent"} => into = "none"
  /\ query \in {"running", "complete"} => into # "none"
  /\ into = "foreign" => server = "foreign"
  /\ client = "returned" /\ query \in {"sent", "running"} => kill \in {"failed", "missed"}
  /\ query # "none" /\ server # "ours" =>
       client = "returned" /\ dropOnFail /\ err # NoErr
  /\ StrayQueryWasMissed

(***************************************************************************)
(* What SummarizeFDHs was told when the command succeeds.                  *)
(***************************************************************************)
SuccessInv == Succeeded => query = "complete" /\ Len(rows) = want

IInv ==
  /\ TypeOK /\ RunInv
  /\ ClientInv /\ CountInv /\ RowsInv /\ QueryInv /\ SuccessInv
-----------------------------------------------------------------------------
(***************************************************************************)
(* What CountFDHSource counts is finite.                                   *)
(***************************************************************************)
LEMMA Countable ==
  ASSUME TypeOK
  PROVE  /\ CountFDHSource \in [nearFIEs : Nat, missingPD : Nat]
         /\ CountFDHSource.nearFIEs - CountFDHSource.missingPD
              = Cardinality({i \in fies : Found(i)})
<1> DEFINE Missing == {i \in fies : ~Found(i)}
           With == {i \in fies : Found(i)}
<1>1. IsFiniteSet(fies) BY InputAssumption, FS_Subset DEF TypeOK
<1>2. IsFiniteSet(Missing) /\ IsFiniteSet(With) BY <1>1, FS_Subset
<1>3. /\ Cardinality(fies) \in Nat /\ Cardinality(Missing) \in Nat
      /\ Cardinality(With) \in Nat
  BY <1>1, <1>2, FS_CardinalityType
<1>4. fies = Missing \cup With /\ Missing \cap With = {} OBVIOUS
<1>5. Cardinality(fies) = Cardinality(Missing) + Cardinality(With) - Cardinality({})
  BY <1>2, <1>4, FS_Union
<1>6. Cardinality({}) = 0 BY FS_EmptySet
<1> QED BY <1>3, <1>5, <1>6 DEF CountFDHSource

(***************************************************************************)
(* Every step keeps the types.                                             *)
(***************************************************************************)
LEMMA StepTypes ==
  ASSUME TypeOK, [Next]_vars
  PROVE  TypeOK'
<1> USE InputAssumption DEF TypeOK, RunTypeOK, RunErrs, vars, runVars, inputVars, queryVars,
        CallErrs, Return, FillReturns, NoErr, Canceled
<1>1. CASE Prepare /\ UNCHANGED <<inputVars, queryVars>>
  BY <1>1 DEF Prepare
<1>2. CASE Connect /\ UNCHANGED <<inputVars, queryVars>>
  BY <1>2 DEF Connect
<1>3. CASE TableExists /\ UNCHANGED <<inputVars, queryVars>>
  BY <1>3 DEF TableExists
<1>4. CASE DropTable /\ UNCHANGED <<inputVars, queryVars>>
  BY <1>4 DEF DropTable, KeepsTable
<1>5. CASE DropTableFails /\ UNCHANGED <<inputVars, queryVars>>
  <2>1. rows' = rows \/ rows' = <<>> BY <1>5 DEF DropTableFails
  <2>2. server' \in {"absent", "ours", "foreign"} BY <1>5 DEF DropTableFails
  <2>3. rows' \in Seq(Nat) BY <2>1, EmptySeq
  <2> QED BY <1>5, <2>2, <2>3 DEF DropTableFails
<1>6. CASE KeepTable /\ UNCHANGED <<inputVars, queryVars>>
  BY <1>6 DEF KeepTable, KeepsTable
<1>7. CASE LogOperation /\ UNCHANGED <<inputVars, queryVars>>
  BY <1>7 DEF LogOperation, Appended
<1>8. CASE Interrupt /\ UNCHANGED <<inputVars, queryVars>>
  BY <1>8 DEF Interrupt
<1>9. CASE OtherCreates /\ UNCHANGED <<inputVars, queryVars>>
  BY <1>9 DEF OtherCreates
<1>10. CASE CheckInputFails BY <1>10 DEF CheckInputFails
<1>11. CASE Count
  <2>1. CountFDHSource \in [nearFIEs : Nat, missingPD : Nat] BY Countable
  <2>2. src' \in {src, CountFDHSource} BY <1>11 DEF Count
  <2>3. counted' \subseteq FIEs BY <1>11 DEF Count
  <2>4. phase' \in {phase, "cleanup", "log"} /\ err' \in {err, "empty"}
    BY <1>11 DEF Count
  <2>5. client' \in {client, "counted"} BY <1>11 DEF Count
  <2> QED BY <1>11, <2>1, <2>2, <2>3, <2>4, <2>5 DEF Count
<1>12. CASE CountFails BY <1>12 DEF CountFails
<1>13. CASE CreateFDHTable BY <1>13 DEF CreateFDHTable, CreateTable
<1>14. CASE CreateFDHTableFails BY <1>14 DEF CreateFDHTableFails, CreateTableFails
<1>15. CASE InsertFDHs BY <1>15 DEF InsertFDHs
<1>16. CASE NewQueryIDFails BY <1>16 DEF NewQueryIDFails
<1>17. CASE InsertSucceeds BY <1>17 DEF InsertSucceeds
<1>18. CASE InsertFails BY <1>18 DEF InsertFails
<1>19. CASE KillQuery BY <1>19 DEF KillQuery, Killed
<1>20. CASE KillQueryFails BY <1>20 DEF KillQueryFails
<1>21. CASE Verify BY <1>21 DEF Verify
<1>22. CASE VerifyFails BY <1>22 DEF VerifyFails
<1>23. CASE QueryStarts
  <2>1. FDHInsertSQL \in [FIEs -> Nat] BY DEF FDHInsertSQL
  <2> QED BY <1>23, <2>1 DEF QueryStarts
<1>24. CASE QueryInserts BY <1>24 DEF QueryInserts
<1>25. CASE QueryEnds BY <1>25 DEF QueryEnds
<1>26. CASE QueryFails BY <1>26 DEF QueryFails
<1>27. CASE InputGrows
  <2>1. growth' \in 0..MaxGrowth BY <1>27 DEF InputGrows
  <2>3. fies' = fies \/ \E i \in FIEs : fies' = fies \cup {i} BY <1>27 DEF InputGrows
  <2>4. fies' \subseteq FIEs BY <2>3
  <2>2. pds' \in [PDs -> 0..MaxCopies] BY <1>27 DEF InputGrows
  <2> QED BY <1>27, <2>1, <2>2, <2>4 DEF InputGrows
<1>28. CASE Kill BY <1>28 DEF Kill
<1>29. CASE UNCHANGED vars BY <1>29
<1> QED BY <1>1, <1>2, <1>3, <1>4, <1>5, <1>6, <1>7, <1>8, <1>9, <1>10, <1>11, <1>12, <1>13,
   <1>14, <1>15, <1>16, <1>17, <1>18, <1>19, <1>20, <1>21, <1>22, <1>23, <1>24, <1>25, <1>26,
      <1>27, <1>28, <1>29
  DEF Next, CommandStep, QueryStep, Environment, Ended

(***************************************************************************)
(* Every step keeps how the phases of the command, the client and the      *)
(* query go together.                                                      *)
(***************************************************************************)
LEMMA StepControl ==
  ASSUME TypeOK, RunInv, ClientInv, QueryInv, [Next]_vars
  PROVE  RunInv' /\ ClientInv' /\ QueryInv'
<1> USE DEF TypeOK, RunTypeOK, RunInv, ClientInv, QueryInv, StrayQueryWasMissed, Opening, Returned,
        Succeeded, Running, vars, runVars, inputVars, queryVars,
        CallErrs, Return, FillReturns, NoErr, Canceled
<1>1. CASE Prepare /\ UNCHANGED <<inputVars, queryVars>>
  BY <1>1 DEF Prepare
<1>2. CASE Connect /\ UNCHANGED <<inputVars, queryVars>>
  BY <1>2 DEF Connect
<1>3. CASE TableExists /\ UNCHANGED <<inputVars, queryVars>>
  BY <1>3 DEF TableExists
<1>4. CASE DropTable /\ UNCHANGED <<inputVars, queryVars>>
  BY <1>4 DEF DropTable, KeepsTable
<1>5. CASE DropTableFails /\ UNCHANGED <<inputVars, queryVars>>
  BY <1>5 DEF DropTableFails, KeepsTable
<1>6. CASE KeepTable /\ UNCHANGED <<inputVars, queryVars>>
  BY <1>6 DEF KeepTable, KeepsTable
<1>7. CASE LogOperation /\ UNCHANGED <<inputVars, queryVars>>
  BY <1>7 DEF LogOperation, Appended
<1>8. CASE Interrupt /\ UNCHANGED <<inputVars, queryVars>>
  BY <1>8 DEF Interrupt
<1>9. CASE OtherCreates /\ UNCHANGED <<inputVars, queryVars>>
  BY <1>9 DEF OtherCreates
<1>10. CASE CheckInputFails BY <1>10 DEF CheckInputFails
<1>11. CASE Count BY <1>11 DEF Count
<1>12. CASE CountFails BY <1>12 DEF CountFails
<1>13. CASE CreateFDHTable BY <1>13 DEF CreateFDHTable, CreateTable
<1>14. CASE CreateFDHTableFails BY <1>14 DEF CreateFDHTableFails, CreateTableFails
<1>15. CASE InsertFDHs BY <1>15 DEF InsertFDHs
<1>16. CASE NewQueryIDFails BY <1>16 DEF NewQueryIDFails
<1>17. CASE InsertSucceeds BY <1>17 DEF InsertSucceeds
<1>18. CASE InsertFails BY <1>18 DEF InsertFails
<1>19. CASE KillQuery BY <1>19 DEF KillQuery, Killed
<1>20. CASE KillQueryFails BY <1>20 DEF KillQueryFails
<1>21. CASE Verify BY <1>21 DEF Verify
<1>22. CASE VerifyFails BY <1>22 DEF VerifyFails
<1>23. CASE QueryStarts BY <1>23 DEF QueryStarts
<1>24. CASE QueryInserts BY <1>24 DEF QueryInserts
<1>25. CASE QueryEnds BY <1>25 DEF QueryEnds
<1>26. CASE QueryFails BY <1>26 DEF QueryFails
<1>27. CASE InputGrows BY <1>27 DEF InputGrows
<1>28. CASE Kill BY <1>28 DEF Kill
<1>29. CASE UNCHANGED vars BY <1>29
<1> QED BY <1>1, <1>2, <1>3, <1>4, <1>5, <1>6, <1>7, <1>8, <1>9, <1>10, <1>11, <1>12, <1>13,
   <1>14, <1>15, <1>16, <1>17, <1>18, <1>19, <1>20, <1>21, <1>22, <1>23, <1>24, <1>25, <1>26,
      <1>27, <1>28, <1>29
  DEF Next, CommandStep, QueryStep, Environment, Ended
(***************************************************************************)
(* Every step keeps what was counted, for the input tables only grow.      *)
(***************************************************************************)
LEMMA StepCount ==
  ASSUME TypeOK, RunInv, ClientInv, CountInv, [Next]_vars
  PROVE  CountInv'
<1> USE DEF TypeOK, ClientInv, CountInv, RunInv, Opening, vars, runVars, inputVars, queryVars,
   want, Found
<1>1. CASE Prepare /\ UNCHANGED <<inputVars, queryVars>>
  BY <1>1 DEF Prepare
<1>2. CASE Connect /\ UNCHANGED <<inputVars, queryVars>>
  BY <1>2 DEF Connect
<1>3. CASE TableExists /\ UNCHANGED <<inputVars, queryVars>>
  BY <1>3 DEF TableExists
<1>4. CASE DropTable /\ UNCHANGED <<inputVars, queryVars>>
  BY <1>4 DEF DropTable, KeepsTable
<1>5. CASE DropTableFails /\ UNCHANGED <<inputVars, queryVars>>
  BY <1>5 DEF DropTableFails, KeepsTable
<1>6. CASE KeepTable /\ UNCHANGED <<inputVars, queryVars>>
  BY <1>6 DEF KeepTable, KeepsTable
<1>7. CASE LogOperation /\ UNCHANGED <<inputVars, queryVars>>
  BY <1>7 DEF LogOperation, Appended
<1>8. CASE Interrupt /\ UNCHANGED <<inputVars, queryVars>>
  BY <1>8 DEF Interrupt
<1>9. CASE OtherCreates /\ UNCHANGED <<inputVars, queryVars>>
  BY <1>9 DEF OtherCreates
<1>10. CASE CheckInputFails BY <1>10 DEF CheckInputFails
<1>11. CASE Count
  <2>1. CASE client' = "counted"
    <3>1. src' = CountFDHSource /\ counted' = {i \in fies : Found(i)}
      BY <1>11, <2>1 DEF Count
    <3>2. fies' = fies /\ pds' = pds BY <1>11 DEF Count
    <3> QED BY <3>1, <3>2, Countable
  <2>2. CASE client' # "counted" BY <1>11, <2>2 DEF Count
  <2> QED BY <2>1, <2>2
<1>12. CASE CountFails BY <1>12 DEF CountFails
<1>13. CASE CreateFDHTable BY <1>13 DEF CreateFDHTable, CreateTable
<1>14. CASE CreateFDHTableFails BY <1>14 DEF CreateFDHTableFails, CreateTableFails
<1>15. CASE InsertFDHs BY <1>15 DEF InsertFDHs
<1>16. CASE NewQueryIDFails BY <1>16 DEF NewQueryIDFails
<1>17. CASE InsertSucceeds BY <1>17 DEF InsertSucceeds
<1>18. CASE InsertFails BY <1>18 DEF InsertFails
<1>19. CASE KillQuery BY <1>19 DEF KillQuery, Killed
<1>20. CASE KillQueryFails BY <1>20 DEF KillQueryFails
<1>21. CASE Verify BY <1>21 DEF Verify
<1>22. CASE VerifyFails BY <1>22 DEF VerifyFails
<1>23. CASE QueryStarts BY <1>23 DEF QueryStarts
<1>24. CASE QueryInserts BY <1>24 DEF QueryInserts
<1>25. CASE QueryEnds BY <1>25 DEF QueryEnds
<1>26. CASE QueryFails BY <1>26 DEF QueryFails
<1>27. CASE InputGrows
  <2>1. fies \subseteq fies' BY <1>27 DEF InputGrows
  <2>2. \A i \in fies : Found(i) => Found(i)' BY <1>27, InputAssumption DEF InputGrows
  <2> QED BY <1>27, <2>1, <2>2 DEF InputGrows
<1>28. CASE Kill BY <1>28 DEF Kill
<1>29. CASE UNCHANGED vars BY <1>29
<1> QED
  BY <1>1, <1>2, <1>3, <1>4, <1>5, <1>6, <1>7, <1>8, <1>9, <1>10, <1>11, <1>12, <1>13, <1>14, <1>15,
     <1>16, <1>17, <1>18, <1>19, <1>20, <1>21, <1>22, <1>23, <1>24, <1>25, <1>26, <1>27, <1>28,
        <1>29
  DEF Next, CommandStep, QueryStep, Environment, Ended

(***************************************************************************)
(* Every step keeps the rows of the counted FIEs: inserted or to come.     *)
(***************************************************************************)
LEMMA StepRows ==
  ASSUME TypeOK, RunInv, ClientInv, CountInv, RowsInv, QueryInv, [Next]_vars
  PROVE  RowsInv'
<1> USE DEF TypeOK, RunTypeOK, ClientInv, RunInv, RowsInv, Opening, vars, runVars, inputVars,
   queryVars
<1>1. CASE Prepare /\ UNCHANGED <<inputVars, queryVars>>
  BY <1>1 DEF Prepare
<1>2. CASE Connect /\ UNCHANGED <<inputVars, queryVars>>
  BY <1>2 DEF Connect
<1>3. CASE TableExists /\ UNCHANGED <<inputVars, queryVars>>
  BY <1>3 DEF TableExists
<1>4. CASE DropTable /\ UNCHANGED <<inputVars, queryVars>>
  BY <1>4 DEF DropTable, KeepsTable
<1>5. CASE DropTableFails /\ UNCHANGED <<inputVars, queryVars>>
  BY <1>5 DEF DropTableFails, KeepsTable
<1>6. CASE KeepTable /\ UNCHANGED <<inputVars, queryVars>>
  BY <1>6 DEF KeepTable, KeepsTable
<1>7. CASE LogOperation /\ UNCHANGED <<inputVars, queryVars>>
  BY <1>7 DEF LogOperation, Appended
<1>8. CASE Interrupt /\ UNCHANGED <<inputVars, queryVars>>
  BY <1>8 DEF Interrupt
<1>9. CASE OtherCreates /\ UNCHANGED <<inputVars, queryVars>>
  BY <1>9 DEF OtherCreates
<1>10. CASE CheckInputFails BY <1>10 DEF CheckInputFails
<1>11. CASE Count BY <1>11 DEF Count
<1>12. CASE CountFails BY <1>12 DEF CountFails
<1>13. CASE CreateFDHTable BY <1>13 DEF CreateFDHTable, CreateTable
<1>14. CASE CreateFDHTableFails BY <1>14 DEF CreateFDHTableFails, CreateTableFails
<1>15. CASE InsertFDHs BY <1>15 DEF InsertFDHs
<1>16. CASE NewQueryIDFails BY <1>16 DEF NewQueryIDFails
<1>17. CASE InsertSucceeds BY <1>17 DEF InsertSucceeds
<1>18. CASE InsertFails BY <1>18 DEF InsertFails
<1>19. CASE KillQuery BY <1>19 DEF KillQuery, Killed
<1>20. CASE KillQueryFails BY <1>20 DEF KillQueryFails
<1>21. CASE Verify BY <1>21 DEF Verify
<1>22. CASE VerifyFails BY <1>22 DEF VerifyFails
<1>23. CASE QueryStarts
  <2>1. counted' = counted /\ query' \in {"running", "failed"} BY <1>23 DEF QueryStarts
  <2>2. query' = "running" => \A i \in counted : todo'[i] > 0
    <3> SUFFICES ASSUME query' = "running", NEW i \in counted
                 PROVE  todo'[i] > 0
      OBVIOUS
    <3>1. todo' = FDHInsertSQL BY <1>23 DEF QueryStarts
    <3>2. i \in FIEs BY DEF TypeOK
    <3>3. i \in fies /\ pds[PDOf[i]] > 0 BY DEF CountInv, Found
    <3>4. todo'[i] = pds[PDOf[i]] BY <3>1, <3>2, <3>3 DEF FDHInsertSQL
    <3> QED BY <3>3, <3>4
  <2> QED BY <2>1, <2>2 DEF RowsInv
<1>24. CASE QueryInserts
  <2>1. /\ UNCHANGED <<query, server, counted, into>>
        /\ query = "running"
    BY <1>24 DEF QueryInserts
  <2>2. server = "ours" =>
          \A i \in counted : (\E k \in DOMAIN rows' : rows'[k] = i) \/ todo'[i] > 0
    <3> SUFFICES ASSUME server = "ours", NEW i \in counted
                 PROVE  (\E k \in DOMAIN rows' : rows'[k] = i) \/ todo'[i] > 0
      OBVIOUS
    <3>1. into = "ours" BY <2>1 DEF QueryInv, TypeOK
    <3>2. PICK j \in FIEs : /\ todo[j] > 0
                            /\ todo' = [todo EXCEPT ![j] = @ - 1]
                            /\ rows' = Append(rows, j)
      BY <1>24, <3>1 DEF QueryInserts
    <3>3. j \in Nat /\ rows \in Seq(Nat) BY InputAssumption DEF TypeOK, RunTypeOK
    <3>4. /\ rows'[Len(rows) + 1] = j /\ Len(rows) + 1 \in DOMAIN rows'
          /\ \A k \in DOMAIN rows : k \in DOMAIN rows' /\ rows'[k] = rows[k]
      BY <3>2, <3>3
    <3>5. i \in FIEs /\ todo \in [FIEs -> Nat] BY DEF TypeOK
    <3>6. CASE i = j BY <3>4, <3>6
    <3>7. CASE i # j
      <4>1. todo'[i] = todo[i] BY <3>2, <3>5, <3>7
      <4>2. (\E k \in DOMAIN rows : rows[k] = i) \/ todo[i] > 0 BY <2>1 DEF RowsInv
      <4> QED BY <3>4, <4>1, <4>2
    <3> QED BY <3>6, <3>7
  <2> QED BY <2>1, <2>2 DEF RowsInv
<1>25. CASE QueryEnds BY <1>25 DEF QueryEnds
<1>26. CASE QueryFails BY <1>26 DEF QueryFails
<1>27. CASE InputGrows BY <1>27 DEF InputGrows
<1>28. CASE Kill BY <1>28 DEF Kill
<1>29. CASE UNCHANGED vars BY <1>29
<1> QED
  BY <1>1, <1>2, <1>3, <1>4, <1>5, <1>6, <1>7, <1>8, <1>9, <1>10, <1>11, <1>12, <1>13, <1>14, <1>15,
     <1>16, <1>17, <1>18, <1>19, <1>20, <1>21, <1>22, <1>23, <1>24, <1>25, <1>26, <1>27, <1>28,
        <1>29
  DEF Next, CommandStep, QueryStep, Environment, Ended

(***************************************************************************)
(* A command that succeeded saw as many rows as it had counted, and no     *)
(* step changes either number.                                             *)
(***************************************************************************)
LEMMA StepSuccess ==
  ASSUME TypeOK, RunInv, ClientInv, SuccessInv, [Next]_vars
  PROVE  SuccessInv'
<1> USE DEF RunInv, ClientInv, SuccessInv, Succeeded, Returned, Opening, Running, want, vars,
   runVars,
        inputVars, queryVars, CallErrs, Return, FillReturns, NoErr, Canceled
<1>1. CASE Prepare /\ UNCHANGED <<inputVars, queryVars>>
  BY <1>1 DEF Prepare
<1>2. CASE Connect /\ UNCHANGED <<inputVars, queryVars>>
  BY <1>2 DEF Connect
<1>3. CASE TableExists /\ UNCHANGED <<inputVars, queryVars>>
  BY <1>3 DEF TableExists
<1>4. CASE DropTable /\ UNCHANGED <<inputVars, queryVars>>
  BY <1>4 DEF DropTable, KeepsTable
<1>5. CASE DropTableFails /\ UNCHANGED <<inputVars, queryVars>>
  BY <1>5 DEF DropTableFails, KeepsTable
<1>6. CASE KeepTable /\ UNCHANGED <<inputVars, queryVars>>
  BY <1>6 DEF KeepTable, KeepsTable
<1>7. CASE LogOperation /\ UNCHANGED <<inputVars, queryVars>>
  BY <1>7 DEF LogOperation, Appended
<1>8. CASE Interrupt /\ UNCHANGED <<inputVars, queryVars>>
  BY <1>8 DEF Interrupt
<1>9. CASE OtherCreates /\ UNCHANGED <<inputVars, queryVars>>
  BY <1>9 DEF OtherCreates
<1>10. CASE CheckInputFails BY <1>10 DEF CheckInputFails
<1>11. CASE Count BY <1>11 DEF Count
<1>12. CASE CountFails BY <1>12 DEF CountFails
<1>13. CASE CreateFDHTable BY <1>13 DEF CreateFDHTable, CreateTable
<1>14. CASE CreateFDHTableFails BY <1>14 DEF CreateFDHTableFails, CreateTableFails
<1>15. CASE InsertFDHs BY <1>15 DEF InsertFDHs
<1>16. CASE NewQueryIDFails BY <1>16 DEF NewQueryIDFails
<1>17. CASE InsertSucceeds BY <1>17 DEF InsertSucceeds
<1>18. CASE InsertFails BY <1>18 DEF InsertFails
<1>19. CASE KillQuery BY <1>19 DEF KillQuery, Killed
<1>20. CASE KillQueryFails BY <1>20 DEF KillQueryFails
<1>21. CASE Verify BY <1>21 DEF Verify
<1>22. CASE VerifyFails BY <1>22 DEF VerifyFails
<1>23. CASE QueryStarts BY <1>23 DEF QueryStarts
<1>24. CASE QueryInserts BY <1>24 DEF QueryInserts
<1>25. CASE QueryEnds BY <1>25 DEF QueryEnds
<1>26. CASE QueryFails BY <1>26 DEF QueryFails
<1>27. CASE InputGrows BY <1>27 DEF InputGrows
<1>28. CASE Kill BY <1>28 DEF Kill
<1>29. CASE UNCHANGED vars BY <1>29
<1> QED
  BY <1>1, <1>2, <1>3, <1>4, <1>5, <1>6, <1>7, <1>8, <1>9, <1>10, <1>11, <1>12, <1>13, <1>14, <1>15,
     <1>16, <1>17, <1>18, <1>19, <1>20, <1>21, <1>22, <1>23, <1>24, <1>25, <1>26, <1>27, <1>28,
        <1>29
  DEF Next, CommandStep, QueryStep, Environment, Ended
-----------------------------------------------------------------------------
(***************************************************************************)
(* The invariant holds in every reachable state.                           *)
(***************************************************************************)
THEOREM Invariance == Spec => []IInv
<1>1. Init => IInv
  <2> SUFFICES ASSUME Init PROVE IInv OBVIOUS
  <2> USE DEF Init, RunInit
  <2>1. TypeOK
    <3>1. fies \subseteq FIEs /\ pds \in [PDs -> 0..MaxCopies] BY InputAssumption
    <3>2. rows \in Seq(Nat) BY EmptySeq
    <3>3. MaxGrowth \in Nat /\ NotCounted \in [nearFIEs : Nat, missingPD : Nat]
      BY InputAssumption DEF NotCounted
    <3>4. src \in [nearFIEs : Nat, missingPD : Nat] /\ growth \in 0..MaxGrowth
          /\ todo \in [FIEs -> Nat]
      BY <3>3
    <3> QED BY <3>1, <3>2, <3>4 DEF TypeOK, RunTypeOK, RunErrs, NoErr, Canceled
  <2>2. RunInv BY DEF RunInv, Opening, Succeeded, Returned
  <2>3. ClientInv /\ CountInv BY DEF ClientInv, CountInv, Returned
  <2>4. RowsInv /\ QueryInv BY DEF RowsInv, QueryInv, StrayQueryWasMissed
  <2>5. SuccessInv BY DEF SuccessInv, Succeeded, Returned
  <2> QED BY <2>1, <2>2, <2>3, <2>4, <2>5 DEF IInv
<1>2. IInv /\ [Next]_vars => IInv'
  BY StepTypes, StepControl, StepCount, StepRows, StepSuccess DEF IInv
<1> QED BY <1>1, <1>2, PTL DEF Spec

(***************************************************************************)
(* A sequence that has each member of a set, and as many places as the set *)
(* has members, has each of them once and nothing else.                    *)
(***************************************************************************)
LEMMA EachOnce ==
  ASSUME NEW s \in Seq(Nat), NEW S, IsFiniteSet(S), Len(s) = Cardinality(S),
         \A i \in S : \E k \in DOMAIN s : s[k] = i
  PROVE  \A i \in Nat : Cardinality({k \in DOMAIN s : s[k] = i}) = IF i \in S THEN 1 ELSE 0
<1> DEFINE At == [i \in S |-> CHOOSE k \in DOMAIN s : s[k] = i]
           Places == {At[i] : i \in S}
<1>1. \A i \in S : At[i] \in DOMAIN s /\ s[At[i]] = i OBVIOUS
<1>10. At \in [S -> Places] OBVIOUS
<1>11. \A p \in Places : \E i \in S : p = At[i] OBVIOUS
<1> HIDE DEF At, Places
<1>2. DOMAIN s = 1..Len(s) /\ Len(s) \in Nat OBVIOUS
<1>3. IsFiniteSet(DOMAIN s) /\ Cardinality(DOMAIN s) = Len(s) BY <1>2, FS_Interval
<1>4. Places \subseteq DOMAIN s BY <1>1, <1>11
<1>5. At \in Bijection(S, Places)
  <2>1. \A i, j \in S : At[i] = At[j] => i = j BY <1>1
  <2> QED BY <1>10, <1>11, <2>1, Fun_IsBij
<1>6. Cardinality(Places) = Cardinality(S) BY <1>5, FS_Bijection DEF ExistsBijection
<1>7. Places = DOMAIN s BY <1>3, <1>4, <1>6, FS_Subset
<1> SUFFICES ASSUME NEW i \in Nat
             PROVE  Cardinality({k \in DOMAIN s : s[k] = i}) = IF i \in S THEN 1 ELSE 0
  OBVIOUS
<1>8. CASE i \in S
  <2>1. At[i] \in DOMAIN s /\ s[At[i]] = i BY <1>1, <1>8
  <2>2. \A k \in DOMAIN s : s[k] = i => k = At[i] BY <1>1, <1>7, <1>11
  <2>3. {k \in DOMAIN s : s[k] = i} = {At[i]} BY <2>1, <2>2
  <2> QED BY <1>8, <2>3, FS_Singleton
<1>9. CASE i \notin S
  <2>1. {k \in DOMAIN s : s[k] = i} = {} BY <1>1, <1>7, <1>9, <1>11
  <2> QED BY <1>9, <2>1, FS_EmptySet
<1> QED BY <1>8, <1>9

(***************************************************************************)
(* A table that passed holds exactly the counted FIEs, each once, however  *)
(* the input tables grew and in whatever order the rows came.              *)
(***************************************************************************)
THEOREM SuccessIsExactAlways == Spec => []SuccessIsExact
<1>1. IInv => SuccessIsExact
  <2> SUFFICES ASSUME IInv, Succeeded
               PROVE  /\ server = "ours" /\ query = "complete"
                      /\ \A i \in FIEs : Times(i) = IF i \in counted THEN 1 ELSE 0
    BY DEF SuccessIsExact
  <2>1. server = "ours" /\ query = "complete" /\ Len(rows) = want
    BY DEF IInv, RunInv, SuccessInv
  <2>2. client # "checking" BY DEF IInv, RunInv, ClientInv, Succeeded
  <2>3. Len(rows) = Cardinality(counted) BY <2>1, <2>2 DEF IInv, CountInv
  <2>4. counted \subseteq FIEs /\ IsFiniteSet(counted)
    BY InputAssumption, FS_Subset DEF IInv, TypeOK
  <2>5. \A i \in counted : \E k \in DOMAIN rows : rows[k] = i
    BY <2>1, <2>4 DEF IInv, RowsInv
  <2>6. rows \in Seq(Nat) BY DEF IInv, TypeOK, RunTypeOK
  <2>7. \A i \in Nat : Times(i) = IF i \in counted THEN 1 ELSE 0
    BY <2>3, <2>4, <2>5, <2>6, EachOnce DEF Times
  <2> QED BY <2>1, <2>7, InputAssumption
<1> QED BY <1>1, Invariance, PTL

(***************************************************************************)
(* A late query fills another run's table only when KILL QUERY missed it.  *)
(***************************************************************************)
THEOREM StrayQueryAlwaysMissed == Spec => []StrayQueryWasMissed
<1>1. IInv => StrayQueryWasMissed BY DEF IInv, QueryInv
<1> QED BY <1>1, Invariance, PTL

(***************************************************************************)
(* The table is never dropped from under a query that a KILL could have    *)
(* found and ended.                                                        *)
(***************************************************************************)
THEOREM DropAlwaysAwaitsKill == Spec => DropAwaitsKill
<1> DEFINE Waits == server = "ours" /\ server' = "absent" /\ query \in {"sent", "running"}
                      => kill \in {"failed", "missed"}
<1>1. IInv /\ [Next]_vars => [Waits]_vars
  <2> SUFFICES ASSUME IInv, Next, server = "ours", server' = "absent",
                      query \in {"sent", "running"}
               PROVE  kill \in {"failed", "missed"}
    OBVIOUS
  <2>1. phase = "cleanup"
    BY DEF Next, CommandStep, QueryStep, Environment, Ended, vars, runVars, Prepare, Connect,
       TableExists,
           DropTable, DropTableFails, KeepTable, LogOperation, CheckInputFails, Count, CountFails,
           CreateFDHTable, CreateTable, CreateFDHTableFails, CreateTableFails, InsertFDHs,
           NewQueryIDFails, InsertSucceeds, InsertFails, KillQuery, KillQueryFails, Verify,
              VerifyFails,
           QueryStarts, QueryInserts, QueryEnds, QueryFails, Interrupt, OtherCreates,
              InputGrows, Kill
  <2>2. created /\ client = "returned" BY <2>1 DEF IInv, RunInv, ClientInv, Returned
  <2> QED BY <2>2 DEF IInv, QueryInv
<1> QED BY <1>1, Invariance, PTL DEF Spec, DropAwaitsKill
-----------------------------------------------------------------------------
BeforeWork == {"header", "run", "phases", "total", "start", "clear"}
AfterWork == {"stop", "stopping", "say", "deferred", "ended"}

(***************************************************************************)
(* Where the display's goroutine is while the command goes on.             *)
(***************************************************************************)
DrawerInv ==
  /\ main \in {"header", "run"} => drawer = "off" /\ stop = "nil"
  /\ main \in {"phases", "total", "start", "clear", "work", "result", "stop"}
       => drawer \in {"select", "drawing"} /\ stop = "open"
  /\ main = "stopping" => drawer # "off" /\ stop = "closed"
  /\ main \in {"say", "deferred", "ended"} => drawer = "done" /\ stop = "nil"
  /\ drawer \in {"off", "select"} => frame = NoFrame
  /\ drawer = "drawing" /\ frame.final => stop = "closed"
  /\ drawer = "done" => frame.final /\ frame.load = <<>>

(***************************************************************************)
(* Which goroutines report, and where they can be.                         *)
(***************************************************************************)
ReporterInv ==
  /\ main \in BeforeWork
       => worker.pc = "off" /\ worker.file = 0 /\ inserter = "off" /\ ~failed
  /\ main = "work" /\ command \in {"merge-fies", "compute-fdhs"} => ~failed
  /\ main = "result" => command = "merge-fies"
  /\ command \notin {"upload-fies", "upload-pds"} => inserter = "off"
  /\ command \in {"upload-pds", "upload-agents"} => worker.pc = "off"
  /\ command = "upload-agents" => main \notin {"total", "start", "clear", "work", "result"}
  /\ command = "upload-fies" => worker.pc \notin {"select", "total"}
  /\ command = "merge-fies" => worker.pc # "total" /\ (worker.pc # "off" => Files # <<>>)
  /\ command = "merge-fies" /\ main \in {"total", "start", "clear"} => Files # <<>>
  /\ command = "compute-fdhs" => worker.pc \in {"off", "select", "total", "ended"}
  /\ main \in AfterWork /\ command # "compute-fdhs"
       => worker.pc \in {"off", "ended"} /\ inserter # "on"

(***************************************************************************)
(* What watchSize keeps of the size it saw.                                *)
(***************************************************************************)
WatchInv ==
  /\ worker.n <= Total
  /\ command = "merge-fies" /\ worker.pc \in {"name", "rows", "zero", "read"}
       => worker.file > 0 /\ Before[worker.file] <= worker.n

(***************************************************************************)
(* What is in the fields before a frame can be made of them.               *)
(***************************************************************************)
StartInv ==
  /\ field.start => main \notin {"header", "run", "phases", "total", "start"}
  /\ main \in {"clear", "work", "result"} => field.start
  /\ main \in {"total", "start"} \/ field.start => field.kind = KindOf
  /\ main = "start" => field.total = Planned
  /\ field.start /\ KindOf = "rows" => field.total = Total
  /\ main \in BeforeWork => field.sent = 0
  /\ command = "upload-agents" => ~field.start

(***************************************************************************)
(* The fields of the current file of upload-fies, store by store.          *)
(***************************************************************************)
FileInv ==
  LET k == worker.file IN
  command = "upload-fies" =>
       /\ worker.pc \in {"name", "rows", "zero", "read"} => k > 0
       /\ field.idx = k
       /\ field.name = IF worker.pc = "name" THEN k - 1 ELSE k
       /\ field.rows = IF worker.pc \in {"name", "rows"} THEN k - 1 ELSE k
       /\ field.read.of = IF worker.pc \in {"name", "rows", "zero"} THEN k - 1 ELSE k
       /\ field.read.n <= IF field.read.of = 0 THEN 0 ELSE Files[field.read.of]

(***************************************************************************)
(* No more rows are counted than there are, and all of them when the       *)
(* command succeeds.                                                       *)
(***************************************************************************)
SentInv ==
  /\ field.sent <= Total
  /\ inserter = "ended" /\ ~failed => field.sent = Total
  /\ main \in AfterWork /\ field.start /\ KindOf # "query" /\ ~failed => field.sent = Total

(***************************************************************************)
(* What the goroutine has loaded, of which kind, and from which files.     *)
(***************************************************************************)
StillToLoad ==
  { <<"total", "sent", "rows", "read", "idx", "name">>, <<"sent", "rows", "read", "idx", "name">>,
    <<"rows", "read", "idx", "name">>, <<"read", "idx", "name">>, <<"idx", "name">>, <<"name">>,
    <<"total", "sent">>, <<"sent">>, <<>> }
Loaded(f, load) == \A i \in 1..Len(load) : load[i] # f

FrameInv ==
  LET s == frame.seen IN
  /\ frame.load \in StillToLoad
  /\ frame.kind \notin Kinds => frame.load = <<>>
  /\ frame.kind \in Kinds => frame.kind = KindOf /\ field.start
  /\ frame.kind = "rows" /\ Loaded("total", frame.load) => s.total = Total
  /\ s.sent <= Total
  /\ frame.final /\ ~failed /\ frame.kind \in {"rows", "stream"} /\ Loaded("sent", frame.load)
       => s.sent = Total

(***************************************************************************)
(* A frame's files: what is in the fields is of no file before the one     *)
(* whose row count was loaded.                                             *)
(***************************************************************************)
TearInv ==
  LET s == frame.seen IN
  command = "upload-fies" =>
    /\ field.idx >= s.rows /\ field.name >= s.rows /\ field.read.of >= s.rows - 1
    /\ s.read.of <= Len(Files)
    /\ s.read.n <= IF s.read.of = 0 THEN 0 ELSE Files[s.read.of]
    /\ frame.kind = "rows" /\ ~frame.final =>
         /\ Loaded("read", frame.load) => s.read.of >= s.rows - 1
         /\ Loaded("idx", frame.load) => s.idx >= s.rows
         /\ Loaded("name", frame.load) => s.name >= s.rows

\* Terminal s, with its cursor at line c, shows these lines and nothing else.
Shows(s, c, lines) ==
  /\ c = Len(lines) + 1 /\ Len(lines) <= Len(s)
  /\ \A i \in 1..Len(lines) : s[i] = lines[i]
  /\ \A i \in (Len(lines) + 1)..Len(s) : s[i] = "blank"

\* What the terminal shows when the function is at m and l the last frame.
Text(m, l) ==
  (IF m = "header" THEN <<>> ELSE <<"header">>) \o l
     \o (IF m \in {"deferred", "ended"} THEN <<"result">> ELSE <<>>)

(***************************************************************************)
(* The terminal, and what is remembered of it.                             *)
(***************************************************************************)
ScreenInv ==
  /\ screen \in Seq(LineNames) /\ last \in Seq(LineNames)
  /\ Shows(screen, cursor, Text(main, last))
  /\ drawn = IF tty THEN Len(last) ELSE 0
  /\ tty \/ last \in {<<>>, <<"plain">>}
  /\ main \in {"header", "run"} => last = <<>>

\* The types, those of the terminal apart.
CallTypes ==
  /\ tty \in BOOLEAN
  /\ field \in Fields
  /\ stop \in {"nil", "open", "closed"}
  /\ drawer \in {"off", "select", "drawing", "done"}
  /\ frame \in Frames
  /\ command \in Commands
  /\ main \in {"header", "run", "phases", "total", "start", "clear", "work",
               "result", "stop", "stopping", "say", "deferred", "ended"}
  /\ failed \in BOOLEAN /\ doneClosed \in BOOLEAN
  /\ worker \in Workers
  /\ inserter \in {"off", "on", "ended"}

\* All of it.
ShownInv ==
  /\ ShownTypeOK /\ DrawerInv /\ ReporterInv /\ WatchInv /\ StartInv /\ FileInv /\ SentInv
  /\ FrameInv /\ TearInv /\ ScreenInv
-----------------------------------------------------------------------------
\* The function of the rows before each of the first n files.
Sums(f, n) == f = [k \in 0..n |-> IF k < 2 THEN 0 ELSE f[k - 1] + Files[k - 1]]

\* There is such a function.
LEMMA SumsExist ==
  ASSUME NEW n \in Nat
  PROVE  \E f : Sums(f, n)
<1> DEFINE S == {k \in Nat : \E f : Sums(f, k)}
<1>1. 0 \in S
  <2>1. Sums([k \in 0..0 |-> 0], 0)
    BY DEF Sums
  <2> QED BY <2>1
<1>2. ASSUME NEW m \in Nat, m \in S PROVE m + 1 \in S
  <2>1. PICK f : Sums(f, m)
    BY <1>2
  <2> DEFINE g == [k \in 0..(m + 1) |-> IF k < 2 THEN 0 ELSE f[k - 1] + Files[k - 1]]
  <2>2. ASSUME NEW k \in 0..m PROVE g[k] = f[k]
    <3>1. k \in 0..(m + 1)
      OBVIOUS
    <3>2. g[k] = IF k < 2 THEN 0 ELSE f[k - 1] + Files[k - 1]
      BY <3>1
    <3>3. f[k] = IF k < 2 THEN 0 ELSE f[k - 1] + Files[k - 1]
      BY <2>1, Zenon DEF Sums
    <3> QED BY <3>2, <3>3
  <2>3. \A k \in 0..(m + 1) : ~(k < 2) => k - 1 \in 0..m
    OBVIOUS
  <2>4. \A k \in 0..(m + 1) : IF k < 2 THEN TRUE ELSE g[k - 1] = f[k - 1]
    BY <2>2, <2>3
  <2> HIDE DEF g
  <2>5. [k \in 0..(m + 1) |-> IF k < 2 THEN 0 ELSE f[k - 1] + Files[k - 1]]
         = [k \in 0..(m + 1) |-> IF k < 2 THEN 0 ELSE g[k - 1] + Files[k - 1]]
    BY <2>4
  <2>6. Sums(g, m + 1)
    BY <2>5 DEF Sums, g
  <2> QED BY <2>6
<1> HIDE DEF S
<1>3. n \in S
  BY <1>1, <1>2, SetInduction
<1> QED BY <1>3 DEF S

\* So Before is what its definition says.
LEMMA BeforeIs ==
  ASSUME NEW k \in 0..(Len(Files) + 1)
  PROVE  Before[k] = IF k < 2 THEN 0 ELSE Before[k - 1] + Files[k - 1]
<1> DEFINE n == Len(Files) + 1
<1>1. n \in Nat
  BY FilesAssumption
<1>2. \E f : f = [i \in 0..n |-> IF i < 2 THEN 0 ELSE f[i - 1] + Files[i - 1]]
  BY <1>1, SumsExist DEF Sums
<1>3. Before = [i \in 0..n |-> IF i < 2 THEN 0 ELSE Before[i - 1] + Files[i - 1]]
  BY <1>2 DEF Before
<1> HIDE DEF n
<1>4. k \in 0..n
  BY DEF n
<1> QED BY <1>3, <1>4, Zenon

\* The rows before the files add up to the total.
LEMMA BeforeType ==
  /\ Before \in [0..(Len(Files) + 1) -> Nat] /\ Before[0] = 0 /\ Total \in Nat
  /\ \A k \in 1..Len(Files) :
       Files[k] \in Nat /\ Files[k] > 0 /\ Before[k + 1] = Before[k] + Files[k]
                        /\ Before[k + 1] <= Total
<1> DEFINE n == Len(Files)
           S == {k \in Nat : k <= n + 1 => Before[k] \in Nat}
<1>1. n \in Nat /\ \A k \in 1..n : Files[k] \in Nat /\ Files[k] > 0
  BY FilesAssumption
<1>2. \A k \in 0..(n + 1) : Before[k] = IF k < 2 THEN 0 ELSE Before[k - 1] + Files[k - 1]
  BY BeforeIs
<1> HIDE DEF n
<1>3. 0 \in S
  BY <1>1, <1>2
<1>4. ASSUME NEW k \in Nat, k \in S PROVE k + 1 \in S
  <2> SUFFICES ASSUME k + 1 <= n + 1 PROVE Before[k + 1] \in Nat
    OBVIOUS
  <2>1. Before[k + 1] = IF k + 1 < 2 THEN 0 ELSE Before[k] + Files[k]
    <3>1. Before[k + 1] = IF k + 1 < 2 THEN 0 ELSE Before[(k + 1) - 1] + Files[(k + 1) - 1]
      BY <1>1, <1>2
    <3> QED BY <3>1
  <2>2. Before[k] \in Nat
    BY <1>1, <1>4
  <2> QED BY <1>1, <2>1, <2>2
<1> HIDE DEF S
<1>5. \A k \in 0..(n + 1) : Before[k] \in Nat
  <2>1. Nat \subseteq S
    BY <1>3, <1>4, SetInduction
  <2> QED BY <1>1, <2>1 DEF S
<1>6. Before \in [0..(n + 1) -> Nat]
  <2>1. Before = [i \in 0..(n + 1) |-> IF i < 2 THEN 0 ELSE Before[i - 1] + Files[i - 1]]
    <3>1. n + 1 \in Nat
      BY <1>1
    <3>2. \E f : Sums(f, n + 1)
      BY <3>1, SumsExist
    <3>3. \E f : f = [i \in 0..(n + 1) |-> IF i < 2 THEN 0 ELSE f[i - 1] + Files[i - 1]]
      BY <3>2, Zenon DEF Sums
    <3> QED BY <3>3 DEF Before, n
  <2>2. Before = [i \in 0..(n + 1) |-> Before[i]]
    BY <2>1, Zenon
  <2> QED BY <1>5, <2>2
<1>7. ASSUME NEW k \in 1..n PROVE Before[k + 1] = Before[k] + Files[k]
  <2>1. k + 1 \in 0..(n + 1) /\ ~(k + 1 < 2) /\ (k + 1) - 1 = k
    BY <1>1
  <2>2. Before[k + 1] = IF k + 1 < 2 THEN 0 ELSE Before[(k + 1) - 1] + Files[(k + 1) - 1]
    BY <1>2, <2>1, Zenon
  <2> QED BY <2>1, <2>2
<1> DEFINE T == {j \in Nat : j <= n => Before[n + 1 - j] <= Before[n + 1]}
<1>8. 0 \in T
  BY <1>1, <1>5
<1>9. ASSUME NEW j \in Nat, j \in T PROVE j + 1 \in T
  <2> SUFFICES ASSUME j + 1 <= n PROVE Before[n + 1 - (j + 1)] <= Before[n + 1]
    OBVIOUS
  <2> DEFINE k == n - j
  <2>1. k \in 1..n /\ n + 1 - (j + 1) = k /\ n + 1 - j = k + 1
    BY <1>1
  <2>2. Before[k + 1] <= Before[n + 1]
    BY <1>1, <1>9, <2>1
  <2> HIDE DEF k
  <2>3. Before[k + 1] = Before[k] + Files[k] /\ Files[k] \in Nat
    BY <1>1, <1>7, <2>1
  <2>4. Before[k] \in Nat /\ Before[n + 1] \in Nat
    BY <1>1, <1>5, <2>1
  <2>5. Before[k] <= Before[n + 1]
    BY <2>2, <2>3, <2>4
  <2> QED BY <2>1, <2>5
<1> HIDE DEF T
<1>10. Nat \subseteq T
  BY <1>8, <1>9, SetInduction
<1>11. ASSUME NEW k \in 1..n PROVE Before[k + 1] <= Before[n + 1]
  <2>1. n - k \in Nat /\ n - k <= n /\ n + 1 - (n - k) = k + 1
    BY <1>1
  <2>2. Before[n + 1 - (n - k)] <= Before[n + 1]
    BY <1>10, <2>1 DEF T
  <2> QED BY <2>1, <2>2
<1>12. Before[0] = 0 /\ Before[n + 1] \in Nat
  BY <1>1, <1>2, <1>5
<1>13. Total = Before[n + 1]
  BY DEF Total, n
<1>14. \A k \in 1..n : Files[k] \in Nat /\ Files[k] > 0 /\ Before[k + 1] = Before[k] + Files[k]
                          /\ Before[k + 1] <= Before[n + 1]
  BY <1>1, <1>7, <1>11
<1> QED BY <1>6, <1>12, <1>13, <1>14 DEF n

\* Sequence o is a, l and b in one.
InOne(R, o, a, l, b) ==
  /\ o \in Seq(R) /\ Len(o) = Len(a) + Len(l) + Len(b)
  /\ \A i \in 1..Len(a) : o[i] = a[i]
  /\ \A i \in 1..Len(l) : o[Len(a) + i] = l[i]
  /\ \A i \in 1..Len(b) : o[Len(a) + Len(l) + i] = b[i]

\* The elements of three sequences in one.
LEMMA ThreeParts ==
  ASSUME NEW R, NEW a \in Seq(R), NEW l \in Seq(R), NEW b \in Seq(R),
         NEW o, o = (a \o l) \o b
  PROVE  InOne(R, o, a, l, b)
<1> DEFINE p == Len(a)
           q == Len(l)
           k == Len(b)
           c == a \o l
<1>1. p \in Nat /\ q \in Nat /\ k \in Nat
  BY LenProperties
<1>2. c \in Seq(R) /\ Len(c) = p + q
  BY ConcatProperties
<1>3. \A i \in 1..(p + q) : c[i] = IF i <= p THEN a[i] ELSE l[i - p]
  BY ConcatProperties
<1> HIDE DEF c
<1>4. o = c \o b
  BY DEF c
<1>5. o \in Seq(R) /\ Len(o) = Len(c) + k
  BY <1>2, <1>4, ConcatProperties
<1>6. \A i \in 1..(Len(c) + k) : o[i] = IF i <= Len(c) THEN c[i] ELSE b[i - Len(c)]
  BY <1>2, <1>4, ConcatProperties
<1> HIDE DEF p, q, k
<1>7. \A i \in 1..(p + q + k) : o[i] = IF i <= p + q THEN c[i] ELSE b[i - (p + q)]
  BY <1>2, <1>6
<1>8. ASSUME NEW i \in 1..p PROVE o[i] = a[i]
  <2>1. i \in 1..(p + q + k) /\ i \in 1..(p + q) /\ i <= p /\ i <= p + q
    BY <1>1
  <2> QED BY <1>3, <1>7, <2>1
<1>9. ASSUME NEW i \in 1..q PROVE o[p + i] = l[i]
  <2>1. p + i \in 1..(p + q + k) /\ p + i \in 1..(p + q) /\ ~(p + i <= p) /\ p + i <= p + q
        /\ (p + i) - p = i
    BY <1>1
  <2>2. o[p + i] = c[p + i]
    BY <1>7, <2>1
  <2>3. c[p + i] = l[(p + i) - p]
    BY <1>3, <2>1
  <2> QED BY <2>1, <2>2, <2>3
<1>10. ASSUME NEW i \in 1..k PROVE o[p + q + i] = b[i]
  <2>1. p + q + i \in 1..(p + q + k) /\ ~(p + q + i <= p + q) /\ (p + q + i) - (p + q) = i
    BY <1>1
  <2>2. o[p + q + i] = b[(p + q + i) - (p + q)]
    BY <1>7, <2>1
  <2> QED BY <2>1, <2>2
<1>11. Len(o) = p + q + k
  BY <1>2, <1>5
<1> QED BY <1>5, <1>8, <1>9, <1>10, <1>11 DEF p, q, k, InOne

\* Screen o is s with some lines in the place of those after line h.
WrittenAt(R, o, s, h, lines) ==
  /\ o \in Seq(R) /\ Len(o) >= h + Len(lines) /\ Len(o) >= Len(s)
  /\ \A i \in 1..h : o[i] = s[i]
  /\ \A i \in 1..Len(lines) : o[h + i] = lines[i]
  /\ \A i \in (h + Len(lines) + 1)..Len(o) : i <= Len(s) /\ o[i] = s[i]

\* The screen after some lines were written over it.
LEMMA OverwrittenIs ==
  ASSUME NEW R, NEW s \in Seq(R), s = screen, NEW h \in 0..Len(s), NEW lines \in Seq(R)
  PROVE  WrittenAt(R, Overwritten(h + 1, lines), s, h, lines)
<1> DEFINE m == Len(lines)
           n == Len(s)
           a == SubSeq(s, 1, h)
           b == SubSeq(s, h + 1 + m, n)
           k == Len(b)
           o == Overwritten(h + 1, lines)
           r == Len(o)
<1>1. m \in Nat /\ n \in Nat /\ h \in Nat /\ h <= n
  BY LenProperties
<1>2. a \in Seq(R) /\ Len(a) = h /\ \A i \in 1..h : a[i] = s[i]
  <2>1. \A i \in 1..h : i \in 1..n
    <3> HIDE DEF n
    <3> QED BY <1>1
  <2>2. \A i \in 1..h : s[i] \in R
    BY <2>1, ElementOfSeq
  <2>3. a \in Seq(R) /\ Len(a) = (IF 1 <= h THEN h - 1 + 1 ELSE 0)
        /\ \A i \in 1..(h - 1 + 1) : a[i] = s[1 + i - 1]
    BY <1>1, <2>2, SubSeqProperties
  <2> HIDE DEF a
  <2>4. h - 1 + 1 = h /\ \A i \in 1..h : 1 + i - 1 = i
    BY <1>1
  <2> QED BY <1>1, <2>3, <2>4
<1>3. /\ b \in Seq(R) /\ k \in Nat
      /\ k = IF h + m + 1 <= n THEN n - (h + m) ELSE 0
      /\ \A i \in 1..k : b[i] = s[h + m + i]
  <2>1. CASE h + m + 1 <= n
    <3> DEFINE f == h + 1 + m
    <3>1. f \in Int /\ n \in Int /\ \A i \in f..n : i \in 1..n
      <4> HIDE DEF m, n
      <4> QED BY <1>1
    <3>2. \A i \in f..n : s[i] \in R
      BY <3>1, ElementOfSeq
    <3> HIDE DEF f
    <3>3. SubSeq(s, f, n) \in Seq(R) /\ Len(SubSeq(s, f, n)) = (IF f <= n THEN n - f + 1 ELSE 0)
          /\ \A i \in 1..(n - f + 1) : SubSeq(s, f, n)[i] = s[f + i - 1]
      BY <3>1, <3>2, SubSeqProperties
    <3>4. b = SubSeq(s, f, n)
      BY DEF f
    <3> HIDE DEF b, m, n
    <3>5. n - f + 1 = n - (h + m) /\ f <= n /\ n - (h + m) \in Nat
      BY <1>1, <2>1 DEF f
    <3>6. k = n - (h + m)
      BY <3>3, <3>4, <3>5
    <3> HIDE DEF k
    <3>7. ASSUME NEW i \in 1..k PROVE b[i] = s[h + m + i]
      <4>1. i \in 1..(n - f + 1) /\ f + i - 1 = h + m + i
        BY <1>1, <3>5, <3>6 DEF f
      <4>2. b[i] = s[f + i - 1]
        BY <3>3, <3>4, <4>1
      <4> QED BY <4>1, <4>2
    <3> QED BY <2>1, <3>3, <3>4, <3>5, <3>6, <3>7
  <2>2. CASE ~(h + m + 1 <= n)
    <3>1. h + 1 + m \in Int /\ n \in Int /\ n < h + 1 + m
      <4> HIDE DEF m, n
      <4> QED BY <1>1, <2>2
    <3>2. b = <<>>
      BY <3>1, SubSeqEmpty
    <3> QED BY <2>2, <3>2
  <2> QED BY <2>1, <2>2
<1>4. o = (a \o lines) \o b
  <2>1. (h + 1) - 1 = h
    BY <1>1
  <2> QED BY <2>1 DEF Overwritten
<1> HIDE DEF a, b, o
<1>5. /\ o \in Seq(R) /\ r = h + m + k
      /\ \A i \in 1..h : o[i] = a[i]
      /\ \A i \in 1..m : o[h + i] = lines[i]
      /\ \A i \in 1..k : o[h + m + i] = b[i]
  <2>1. InOne(R, o, a, lines, b)
    BY <1>2, <1>3, <1>4, ThreeParts
  <2>2. Len(a) = h
    BY <1>2
  <2> QED BY <2>1, <2>2, Zenon DEF InOne
<1> HIDE DEF m, n, k, r
<1>6. k \in Nat /\ k = IF h + m + 1 <= n THEN n - (h + m) ELSE 0
  BY <1>3
<1>7. /\ r = h + m + k
      /\ \A i \in 1..h : o[i] = s[i]
      /\ \A i \in 1..m : o[h + i] = lines[i]
      /\ \A i \in 1..k : o[h + m + i] = s[h + m + i]
  <2>1. \A i \in 1..h : o[i] = s[i]
    BY <1>2, <1>5
  <2>2. \A i \in 1..k : o[h + m + i] = s[h + m + i]
    BY <1>3, <1>5
  <2> QED BY <1>5, <2>1, <2>2
<1>8. r = h + m + k
  BY <1>7
<1>9. r >= h + m /\ r >= n
  BY <1>1, <1>6, <1>8
<1>10. ASSUME NEW i \in (h + m + 1)..r PROVE i <= n /\ o[i] = s[i]
  <2> DEFINE j == i - (h + m)
  <2>1. j \in 1..k /\ h + m + j = i /\ i <= n
    BY <1>1, <1>6, <1>8
  <2> HIDE DEF j
  <2>2. o[h + m + j] = s[h + m + j]
    BY <1>7, <2>1
  <2> QED BY <2>1, <2>2
<1>11. WrittenAt(R, o, s, h, lines)
  BY <1>5, <1>7, <1>9, <1>10 DEF m, n, r, WrittenAt
<1> QED BY <1>11 DEF o

\* A terminal shows lines when they are visible there.
LEMMA ShowsIsVisible ==
  ASSUME NEW R, NEW s \in Seq(R), s = screen, NEW lines \in Seq(R),
         cursor = Len(lines) + 1, Len(lines) <= Len(s)
  PROVE  Visible(lines) <=> Shows(s, cursor, lines)
<1> DEFINE n == Len(lines)
           k == Len(s)
           a == SubSeq(s, 1, n)
<1>1. n \in Nat /\ k \in Nat /\ n <= k
  BY LenProperties
<1>2. \A i \in 1..n : i \in 1..k
  <2> HIDE DEF n, k
  <2> QED BY <1>1
<1>3. \A i \in 1..n : s[i] \in R
  BY <1>2, ElementOfSeq
<1>4. a \in Seq(R) /\ Len(a) = (IF 1 <= n THEN n - 1 + 1 ELSE 0)
      /\ \A i \in 1..(n - 1 + 1) : a[i] = s[1 + i - 1]
  BY <1>1, <1>3, SubSeqProperties
<1> HIDE DEF a, n, k
<1>5. n - 1 + 1 = n /\ (IF 1 <= n THEN n ELSE 0) = n /\ \A i \in 1..n : 1 + i - 1 = i
  BY <1>1
<1>6. Len(a) = n /\ \A i \in 1..n : a[i] = s[i]
  BY <1>4, <1>5
<1>7. a = lines <=> \A i \in 1..n : a[i] = lines[i]
  <2>1. Len(lines) = n
    BY DEF n
  <2>2. (\A i \in 1..n : a[i] = lines[i]) => a = lines
    BY <1>4, <1>6, <2>1, SeqEqual, Zenon
  <2> QED BY <2>2
<1>8. cursor - 1 = n /\ cursor = n + 1
  BY <1>1 DEF n
<1>9. Visible(lines) <=> a = lines /\ \A i \in (n + 1)..k : s[i] = "blank"
  BY <1>8 DEF Visible, a, k
<1>10. Shows(s, cursor, lines) <=> /\ \A i \in 1..n : s[i] = lines[i]
                                   /\ \A i \in (n + 1)..k : s[i] = "blank"
  BY DEF Shows, n, k
<1> QED BY <1>6, <1>7, <1>9, <1>10

\* A line that is written is shown below the others.
LEMMA WrittenShows ==
  ASSUME NEW R, NEW s \in Seq(R), s = screen, NEW lines \in Seq(R), Shows(s, cursor, lines),
         NEW line \in R, line = "plain" => lines = <<>> \/ lines[Len(lines)] # "plain",
         WriteLine(line)
  PROVE  screen' \in Seq(R) /\ Shows(screen', cursor', lines \o <<line>>)
<1> DEFINE n == Len(lines)
           k == Len(s)
           one == <<line>>
           new == lines \o one
           o == Overwritten(n + 1, one)
           r == Len(o)
<1>1. n \in Nat /\ k \in Nat
  BY LenProperties
<1>2. /\ cursor = n + 1 /\ n <= k
      /\ \A i \in 1..n : s[i] = lines[i]
      /\ \A i \in (n + 1)..k : s[i] = "blank"
  BY DEF Shows
<1>3. one \in Seq(R) /\ Len(one) = 1 /\ one[1] = line
  OBVIOUS
<1> HIDE DEF one
<1>4. /\ new \in Seq(R) /\ Len(new) = n + 1
      /\ \A i \in 1..(n + 1) : new[i] = IF i <= n THEN lines[i] ELSE one[i - n]
  <2>1. Len(new) = n + Len(one) /\ new \in Seq(R)
        /\ \A i \in 1..(n + Len(one)) : new[i] = IF i <= n THEN lines[i] ELSE one[i - n]
    BY <1>3, ConcatProperties
  <2> QED BY <1>3, <2>1, Zenon
<1>5. ~(line = "plain" /\ cursor > 1 /\ screen[cursor - 1] = "plain")
  <2> SUFFICES ASSUME line = "plain", cursor > 1 PROVE screen[n] # "plain"
    <3>1. cursor - 1 = n
      <4> HIDE DEF n
      <4> QED BY <1>1, <1>2
    <3> QED BY <3>1
  <2>1. n # 0
    <3> HIDE DEF n
    <3> QED BY <1>1, <1>2
  <2>2. lines[n] # "plain"
    <3>1. lines # <<>>
      BY <2>1
    <3> QED BY <3>1
  <2>3. n \in 1..n
    <3> HIDE DEF n
    <3> QED BY <1>1, <2>1
  <2> QED BY <1>2, <2>2, <2>3
<1>6. screen' = o /\ cursor' = cursor + 1
  BY <1>2, <1>5 DEF WriteLine, one
<1> HIDE DEF o
<1>7. /\ o \in Seq(R) /\ r >= n + Len(one) /\ r >= k
      /\ \A i \in 1..n : o[i] = s[i]
      /\ \A i \in 1..Len(one) : o[n + i] = one[i]
      /\ \A i \in (n + Len(one) + 1)..r : i <= k /\ o[i] = s[i]
  <2>1. n \in 0..k
    <3> HIDE DEF n, k
    <3> QED BY <1>1, <1>2
  <2>2. WrittenAt(R, o, s, n, one)
    BY <1>3, <2>1, OverwrittenIs DEF o
  <2> QED BY <2>2 DEF WrittenAt
<1>8. r \in Nat
  BY <1>7, LenProperties
<1> HIDE DEF new, n, k, r
<1>9. r >= n + 1 /\ o[n + 1] = line
  BY <1>3, <1>7
<1>10. ASSUME NEW i \in 1..(n + 1) PROVE o[i] = new[i]
  <2>1. CASE i = n + 1
    <3>1. ~(i <= n) /\ i - n = 1
      BY <1>1, <2>1
    <3> QED BY <1>3, <1>4, <1>9, <2>1, <3>1
  <2>2. CASE i # n + 1
    <3>1. i \in 1..n /\ i <= n
      BY <1>1, <2>2
    <3> QED BY <1>2, <1>4, <1>7, <3>1
  <2> QED BY <2>1, <2>2
<1>11. ASSUME NEW i \in (n + 2)..r PROVE o[i] = "blank"
  <2>1. i \in (n + Len(one) + 1)..r
    BY <1>1, <1>3
  <2>2. i <= k /\ o[i] = s[i]
    BY <1>7, <2>1
  <2>3. i \in (n + 1)..k
    BY <1>1, <2>2
  <2> QED BY <1>2, <2>2, <2>3
<1>12. n + 1 <= r /\ (n + 1) + 1 = n + 2 /\ cursor + 1 = (n + 1) + 1
  BY <1>1, <1>2, <1>9
<1>13. Shows(o, cursor + 1, new)
  BY <1>4, <1>10, <1>11, <1>12 DEF Shows, r
<1> QED BY <1>6, <1>7, <1>13 DEF new, one

\* A frame that is redrawn takes the place of the last one, and nothing of it
\* is left.
LEMMA RedrawnShows ==
  ASSUME NEW R, NEW s \in Seq(R), s = screen, NEW above \in Seq(R), NEW old \in Seq(R),
         Shows(s, cursor, above \o old), drawn = Len(old), "blank" \in R,
         NEW lines \in Seq(R), Redraw(lines)
  PROVE  screen' \in Seq(R) /\ Shows(screen', cursor', above \o lines)
<1> DEFINE h == Len(above)
           d == Len(old)
           m == Len(lines)
           k == Len(s)
           blank == [i \in 1..(d - m) |-> "blank"]
           e == Len(blank)
           out == lines \o blank
           was == above \o old
           new == above \o lines
           o == Overwritten(h + 1, out)
           r == Len(o)
<1>1. h \in Nat /\ d \in Nat /\ m \in Nat /\ k \in Nat
  BY LenProperties
<1>2. /\ Len(was) = h + d /\ was \in Seq(R)
      /\ \A i \in 1..(h + d) : was[i] = IF i <= h THEN above[i] ELSE old[i - h]
  BY ConcatProperties
<1>3. /\ Len(new) = h + m /\ new \in Seq(R)
      /\ \A i \in 1..(h + m) : new[i] = IF i <= h THEN above[i] ELSE lines[i - h]
  BY ConcatProperties
<1>4. /\ cursor = Len(was) + 1 /\ Len(was) <= k
      /\ \A i \in 1..Len(was) : s[i] = was[i]
      /\ \A i \in (Len(was) + 1)..k : s[i] = "blank"
  BY DEF Shows
<1> HIDE DEF was, new
<1>5. /\ blank \in Seq(R) /\ e \in Nat
      /\ e = IF m < d THEN d - m ELSE 0
      /\ \A i \in 1..e : blank[i] = "blank"
  <2> DEFINE x == d - m
  <2>1. CASE m < d
    <3>1. x \in Nat
      <4> HIDE DEF d, m
      <4> QED BY <1>1, <2>1
    <3> HIDE DEF x
    <3>2. [i \in 1..x |-> "blank"] \in Seq(R) /\ Len([i \in 1..x |-> "blank"]) = x
      <4>1. [i \in 1..x |-> "blank"] \in [1..x -> R]
        OBVIOUS
      <4> QED BY <3>1, <4>1, SeqDef, LenProperties
    <3> QED BY <2>1, <3>1, <3>2 DEF x
  <2>2. CASE ~(m < d)
    <3>1. 1..x = {}
      <4> HIDE DEF d, m
      <4> QED BY <1>1, <2>2
    <3>2. blank = <<>>
      <4> HIDE DEF x
      <4>1. [i \in 1..x |-> "blank"] = <<>>
        BY <3>1
      <4> QED BY <4>1 DEF x
    <3>3. e = 0 /\ blank \in Seq(R)
      <4>1. <<>> \in Seq(R) /\ Len(<<>>) = 0
        BY EmptySeq
      <4> HIDE DEF blank
      <4> QED BY <3>2, <4>1
    <3> HIDE DEF blank, e, m, d
    <3> QED BY <2>2, <3>3
  <2> QED BY <2>1, <2>2
<1>6. cursor = h + d + 1 /\ cursor - drawn = h + 1 /\ drawn = d /\ h \in 0..k /\ h + d <= k
  <2> HIDE DEF h, d, k
  <2>1. drawn = d
    BY DEF d
  <2> QED BY <1>1, <1>2, <1>4, <2>1
<1>7. screen' = o /\ cursor' = h + 1 + m
  BY <1>6 DEF Redraw
<1> HIDE DEF blank
<1>8. /\ out \in Seq(R) /\ Len(out) = m + e
      /\ \A i \in 1..(m + e) : out[i] = IF i <= m THEN lines[i] ELSE blank[i - m]
  BY <1>5, ConcatProperties
<1> HIDE DEF out
<1>9. /\ o \in Seq(R) /\ r >= h + Len(out) /\ r >= k
      /\ \A i \in 1..h : o[i] = s[i]
      /\ \A i \in 1..Len(out) : o[h + i] = out[i]
      /\ \A i \in (h + Len(out) + 1)..r : i <= k /\ o[i] = s[i]
  <2>1. WrittenAt(R, o, s, h, out)
    BY <1>6, <1>8, OverwrittenIs
  <2> HIDE DEF o
  <2> QED BY <2>1 DEF WrittenAt
<1> HIDE DEF o
<1>10. r \in Nat
  BY <1>9, LenProperties
<1> HIDE DEF h, d, m, k, e, r
<1>11. e \in Nat /\ e = (IF m < d THEN d - m ELSE 0) /\ Len(out) = m + e /\ r >= h + (m + e)
  BY <1>5, <1>8, <1>9
<1>12. ASSUME NEW i \in 1..(h + m) PROVE o[i] = new[i]
  <2>1. CASE i <= h
    <3>1. i \in 1..h /\ i \in 1..(h + d)
      BY <1>1, <2>1
    <3>2. s[i] = was[i]
      BY <1>2, <1>4, <3>1
    <3>3. was[i] = above[i] /\ new[i] = above[i]
      BY <1>2, <1>3, <2>1, <3>1
    <3> QED BY <1>9, <3>1, <3>2, <3>3
  <2>2. CASE ~(i <= h)
    <3> DEFINE j == i - h
    <3>1. j \in 1..(m + e) /\ j <= m /\ h + j = i
      BY <1>1, <1>11, <2>2
    <3>2. new[i] = lines[j]
      BY <1>3, <2>2
    <3> HIDE DEF j
    <3>3. o[h + j] = out[j]
      BY <1>9, <1>11, <3>1
    <3>4. out[j] = lines[j]
      BY <1>8, <3>1
    <3> QED BY <3>1, <3>2, <3>3, <3>4
  <2> QED BY <2>1, <2>2
<1>13. ASSUME NEW i \in (h + m + 1)..r PROVE o[i] = "blank"
  <2>1. CASE i <= h + m + e
    <3> DEFINE j == i - h
    <3>1. j \in 1..(m + e) /\ ~(j <= m) /\ j - m \in 1..e /\ h + j = i
      BY <1>1, <1>11, <2>1
    <3> HIDE DEF j
    <3>2. o[h + j] = out[j]
      BY <1>9, <1>11, <3>1
    <3>3. out[j] = blank[j - m]
      BY <1>8, <3>1
    <3> QED BY <1>5, <3>1, <3>2, <3>3
  <2>2. CASE ~(i <= h + m + e)
    <3>1. i \in (h + Len(out) + 1)..r
      BY <1>1, <1>10, <1>11, <2>2
    <3>2. i <= k /\ o[i] = s[i]
      BY <1>9, <3>1
    <3>3. i \in (h + d + 1)..k
      BY <1>1, <1>11, <2>2, <3>2
    <3>4. s[i] = "blank"
      BY <1>2, <1>4, <3>3
    <3> QED BY <3>2, <3>4
  <2> QED BY <2>1, <2>2
<1>14. h + m <= r /\ h + 1 + m = h + m + 1
  BY <1>1, <1>10, <1>11
<1>15. Shows(o, h + 1 + m, new)
  BY <1>3, <1>12, <1>13, <1>14 DEF Shows, r
<1> QED BY <1>7, <1>9, <1>15 DEF new
-----------------------------------------------------------------------------
\* There is a file that the rows merged so far belong to.
LEMMA FileAtIs ==
  ASSUME NEW merged \in 0..Total, Files # <<>>
  PROVE  FileAt(merged) \in 1..Len(Files) /\ Before[FileAt(merged)] <= merged
<1> DEFINE n == Len(Files)
           Fits(k) == Before[k] <= merged /\ (k = n \/ merged < Before[k + 1])
           S == {k \in Nat : k \in 1..n => Before[k] <= merged}
<1>1. n \in Nat /\ n > 0 /\ merged \in Nat
  BY FilesAssumption, BeforeType
<1>2. Before[1] = 0
  BY <1>1, BeforeIs
<1>3. ASSUME \A k \in 1..n : ~Fits(k) PROVE FALSE
  <2>1. 0 \in S
    OBVIOUS
  <2>2. ASSUME NEW k \in Nat, k \in S PROVE k + 1 \in S
    <3> SUFFICES ASSUME k + 1 \in 1..n PROVE Before[k + 1] <= merged
      OBVIOUS
    <3>1. CASE k = 0
      BY <1>1, <1>2, <3>1
    <3>2. CASE k # 0
      <4>1. k \in 1..n /\ k # n /\ k + 1 \in 0..(n + 1)
        BY <1>1, <3>2
      <4>2. Before[k] <= merged /\ ~(merged < Before[k + 1])
        BY <1>3, <2>2, <4>1
      <4>3. Before[k + 1] \in Nat
        BY <4>1, BeforeType
      <4> QED BY <1>1, <4>2, <4>3
    <3> QED BY <3>1, <3>2
  <2> HIDE DEF S
  <2>3. n \in S
    BY <1>1, <2>1, <2>2, SetInduction
  <2>4. Before[n] <= merged
    BY <1>1, <2>3 DEF S
  <2> QED BY <1>1, <1>3, <2>4
<1>4. \E k \in 1..n : Fits(k)
  BY <1>3
<1>5. FileAt(merged) = CHOOSE k \in 1..n : Fits(k)
  BY DEF FileAt
<1> HIDE DEF Fits
<1>6. FileAt(merged) \in 1..n /\ Fits(FileAt(merged))
  BY <1>4, <1>5
<1> QED BY <1>6 DEF Fits

\* No more rows can be sent than there are.
LEMMA AvailableIs ==
  ASSUME CallTypes
  PROVE  Available \in Nat /\ Available <= Total
<1> DEFINE k == IF worker.pc \in {"name", "rows", "zero"} THEN worker.file ELSE worker.file + 1
<1>1. Total \in Nat /\ Len(Files) \in Nat
  BY BeforeType, FilesAssumption
<1>2. k \in 0..(Len(Files) + 1)
  BY <1>1 DEF CallTypes, Workers
<1>3. Available = IF command = "upload-pds" THEN Total ELSE Before[k]
  BY DEF Available
<1> HIDE DEF k
<1>4. Before[k] \in Nat /\ Before[k] <= Total
  <2>1. CASE k < 2
    BY <1>1, <1>2, <2>1, BeforeIs
  <2>2. CASE k >= 2
    <3> DEFINE j == k - 1
    <3>1. j \in 1..Len(Files) /\ k = j + 1
      BY <1>1, <1>2, <2>2
    <3> HIDE DEF j
    <3> QED BY <3>1, <1>2, BeforeType
  <2> QED BY <1>1, <1>2, <2>1, <2>2
<1> QED BY <1>1, <1>3, <1>4

\* The tuples of what is still to load.
LEMMA ToLoad ==
  ASSUME NEW t \in StillToLoad
  PROVE  /\ t \in Seq(FieldNames)
         /\ t # <<>> =>
              /\ Head(t) \in FieldNames /\ Tail(t) \in StillToLoad
              /\ \A f \in FieldNames : Loaded(f, Tail(t)) <=> Loaded(f, t) \/ f = Head(t)
              /\ Head(t) = "rows" => Tail(t) = <<"read", "idx", "name">>
<1>1. CASE t = <<"total", "sent", "rows", "read", "idx", "name">>
  <2>1. t \in Seq(FieldNames) /\ Head(t) = "total"
        /\ Tail(t) = <<"sent", "rows", "read", "idx", "name">> /\ t # <<>>
    BY <1>1 DEF FieldNames
  <2>2. \A f : Loaded(f, t) <=> f \notin {"total", "sent", "rows", "read", "idx", "name"}
    BY <1>1 DEF Loaded
  <2>3. \A f : Loaded(f, Tail(t)) <=> f \notin {"sent", "rows", "read", "idx", "name"}
    <3>1. \A f : Loaded(f, <<"sent", "rows", "read", "idx", "name">>)
               <=> f \notin {"sent", "rows", "read", "idx", "name"}
      BY DEF Loaded
    <3> QED BY <2>1, <3>1
  <2> QED BY <2>1, <2>2, <2>3 DEF StillToLoad, FieldNames
<1>2. CASE t = <<"sent", "rows", "read", "idx", "name">>
  <2>1. t \in Seq(FieldNames) /\ Head(t) = "sent"
        /\ Tail(t) = <<"rows", "read", "idx", "name">> /\ t # <<>>
    BY <1>2 DEF FieldNames
  <2>2. \A f : Loaded(f, t) <=> f \notin {"sent", "rows", "read", "idx", "name"}
    BY <1>2 DEF Loaded
  <2>3. \A f : Loaded(f, Tail(t)) <=> f \notin {"rows", "read", "idx", "name"}
    <3>1. \A f : Loaded(f, <<"rows", "read", "idx", "name">>)
               <=> f \notin {"rows", "read", "idx", "name"}
      BY DEF Loaded
    <3> QED BY <2>1, <3>1
  <2> QED BY <2>1, <2>2, <2>3 DEF StillToLoad, FieldNames
<1>3. CASE t = <<"rows", "read", "idx", "name">>
  <2>1. t \in Seq(FieldNames) /\ Head(t) = "rows" /\ Tail(t) = <<"read", "idx", "name">> /\ t # <<>>
    BY <1>3 DEF FieldNames
  <2>2. \A f : Loaded(f, t) <=> f \notin {"rows", "read", "idx", "name"}
    BY <1>3 DEF Loaded
  <2>3. \A f : Loaded(f, Tail(t)) <=> f \notin {"read", "idx", "name"}
    <3>1. \A f : Loaded(f, <<"read", "idx", "name">>) <=> f \notin {"read", "idx", "name"}
      BY DEF Loaded
    <3> QED BY <2>1, <3>1
  <2> QED BY <2>1, <2>2, <2>3 DEF StillToLoad, FieldNames
<1>4. CASE t = <<"read", "idx", "name">>
  <2>1. t \in Seq(FieldNames) /\ Head(t) = "read" /\ Tail(t) = <<"idx", "name">> /\ t # <<>>
    BY <1>4 DEF FieldNames
  <2>2. \A f : Loaded(f, t) <=> f \notin {"read", "idx", "name"}
    BY <1>4 DEF Loaded
  <2>3. \A f : Loaded(f, Tail(t)) <=> f \notin {"idx", "name"}
    <3>1. \A f : Loaded(f, <<"idx", "name">>) <=> f \notin {"idx", "name"}
      BY DEF Loaded
    <3> QED BY <2>1, <3>1
  <2> QED BY <2>1, <2>2, <2>3 DEF StillToLoad, FieldNames
<1>5. CASE t = <<"idx", "name">>
  <2>1. t \in Seq(FieldNames) /\ Head(t) = "idx" /\ Tail(t) = <<"name">> /\ t # <<>>
    BY <1>5 DEF FieldNames
  <2>2. \A f : Loaded(f, t) <=> f \notin {"idx", "name"}
    BY <1>5 DEF Loaded
  <2>3. \A f : Loaded(f, Tail(t)) <=> f \notin {"name"}
    <3>1. \A f : Loaded(f, <<"name">>) <=> f \notin {"name"}
      BY DEF Loaded
    <3> QED BY <2>1, <3>1
  <2> QED BY <2>1, <2>2, <2>3 DEF StillToLoad, FieldNames
<1>6. CASE t = <<"name">>
  <2>1. t \in Seq(FieldNames) /\ Head(t) = "name" /\ Tail(t) = <<>> /\ t # <<>>
    BY <1>6 DEF FieldNames
  <2>2. \A f : Loaded(f, t) <=> f \notin {"name"}
    BY <1>6 DEF Loaded
  <2>3. \A f : Loaded(f, Tail(t)) <=> f \notin {}
    <3>1. \A f : Loaded(f, <<>>) <=> f \notin {}
      BY DEF Loaded
    <3> QED BY <2>1, <3>1
  <2> QED BY <2>1, <2>2, <2>3 DEF StillToLoad, FieldNames
<1>7. CASE t = <<"total", "sent">>
  <2>1. t \in Seq(FieldNames) /\ Head(t) = "total" /\ Tail(t) = <<"sent">> /\ t # <<>>
    BY <1>7 DEF FieldNames
  <2>2. \A f : Loaded(f, t) <=> f \notin {"total", "sent"}
    BY <1>7 DEF Loaded
  <2>3. \A f : Loaded(f, Tail(t)) <=> f \notin {"sent"}
    <3>1. \A f : Loaded(f, <<"sent">>) <=> f \notin {"sent"}
      BY DEF Loaded
    <3> QED BY <2>1, <3>1
  <2> QED BY <2>1, <2>2, <2>3 DEF StillToLoad, FieldNames
<1>8. CASE t = <<"sent">>
  <2>1. t \in Seq(FieldNames) /\ Head(t) = "sent" /\ Tail(t) = <<>> /\ t # <<>>
    BY <1>8 DEF FieldNames
  <2>2. \A f : Loaded(f, t) <=> f \notin {"sent"}
    BY <1>8 DEF Loaded
  <2>3. \A f : Loaded(f, Tail(t)) <=> f \notin {}
    <3>1. \A f : Loaded(f, <<>>) <=> f \notin {}
      BY DEF Loaded
    <3> QED BY <2>1, <3>1
  <2> QED BY <2>1, <2>2, <2>3 DEF StillToLoad, FieldNames
<1>9. CASE t = <<>>
  BY <1>9 DEF StillToLoad, FieldNames
<1> QED BY <1>1, <1>2, <1>3, <1>4, <1>5, <1>6, <1>7, <1>8, <1>9 DEF StillToLoad

\* What Load does to a frame.
LEMMA LoadIs ==
  ASSUME CallTypes, frame.load \in StillToLoad, Load,
         NEW next, next = Head(frame.load)
  PROVE  /\ next \in FieldNames
         /\ frame'.load = Tail(frame.load) /\ frame'.load \in StillToLoad
         /\ frame'.load \in Seq(FieldNames)
         /\ frame' = [frame EXCEPT !.load = Tail(frame.load), !.seen[next] = field[next]]
         /\ frame'.kind = frame.kind /\ frame'.final = frame.final
         /\ frame'.seen = [frame.seen EXCEPT ![next] = field[next]]
         /\ frame'.seen \in Fields
         /\ frame' \in Frames
<1>1. frame.load # <<>>
  BY DEF Load
<1>2. next \in FieldNames /\ Tail(frame.load) \in StillToLoad
  BY <1>1, ToLoad
<1>3. Tail(frame.load) \in Seq(FieldNames)
  BY <1>2, ToLoad
<1> USE DEF Frames
<1>4. [frame.seen EXCEPT ![next] = field[next]] \in Fields
  <2>1. field \in Fields /\ frame.seen \in Fields
    BY DEF CallTypes
  <2>2. CASE next = "total" BY <2>1, <2>2 DEF Fields
  <2>3. CASE next = "sent" BY <2>1, <2>3 DEF Fields
  <2>4. CASE next = "rows" BY <2>1, <2>4 DEF Fields
  <2>5. CASE next = "read" BY <2>1, <2>5 DEF Fields
  <2>6. CASE next = "idx" BY <2>1, <2>6 DEF Fields
  <2>7. CASE next = "name" BY <2>1, <2>7 DEF Fields
  <2> QED BY <1>2, <2>2, <2>3, <2>4, <2>5, <2>6, <2>7 DEF FieldNames
<1>5. frame' = [frame EXCEPT !.load = Tail(frame.load), !.seen[next] = field[next]]
  BY DEF Load
<1>6. /\ frame'.kind = frame.kind /\ frame'.final = frame.final
      /\ frame'.load = Tail(frame.load)
      /\ frame'.seen = [frame.seen EXCEPT ![next] = field[next]]
      /\ frame' = [kind |-> frame.kind, final |-> frame.final, load |-> Tail(frame.load),
                   seen |-> [frame.seen EXCEPT ![next] = field[next]]]
  BY <1>5 DEF CallTypes
<1> QED BY <1>2, <1>3, <1>4, <1>5, <1>6 DEF CallTypes

\* What a frame has to load first.
LEMMA LoadsIs ==
  ASSUME NEW kind, NEW final \in BOOLEAN
  PROVE  Loads(kind, final) \in StillToLoad /\ Loads(kind, final) \in Seq(FieldNames)
<1>1. Loads(kind, final) \in StillToLoad
  BY DEF Loads, StillToLoad
<1> QED BY <1>1, ToLoad

\* Every step keeps the types.
LEMMA StepCallTypes ==
  ASSUME CallTypes, ReporterInv, WatchInv, FileInv, frame.load \in StillToLoad,
         [ShownNext]_shownVars
  PROVE  CallTypes'
<1> USE DEF Goto, WorkerAt, Store, shownVars, displayVars, paintVars, callVars
<1>0. /\ Total \in Nat /\ Len(Files) \in Nat /\ Planned \in Nat /\ KindOf \in Kinds
      /\ 0 \in 0..Len(Files)
  BY BeforeType, FilesAssumption DEF Planned, KindOf, Kinds
<1>1. CASE Header
  BY <1>1, <1>0 DEF Header, Say, CallTypes
<1>2. CASE StartRun
  BY <1>2, <1>0 DEF StartRun, Run, CallTypes
<1>3. CASE SetPhase
  BY <1>3, <1>0 DEF SetPhase, CallTypes, Fields
<1>4. CASE PhaseFails
  BY <1>4, <1>0 DEF PhaseFails, CallTypes
<1>5. CASE PhasesEnd
  BY <1>5, <1>0 DEF PhasesEnd, CallTypes, Fields
<1>6. CASE StartKind
  BY <1>6, <1>0 DEF StartKind, Starts, CallTypes, Fields
<1>7. CASE StartTotal
  BY <1>7, <1>0 DEF StartTotal, CallTypes, Fields
<1>8. CASE StartClock
  BY <1>8, <1>0 DEF StartClock, CallTypes, Fields
<1>9. CASE StartEnds
  <2>1. field' \in Fields
    BY <1>9, <1>0 DEF StartEnds, CallTypes, Fields, Workers
  <2>2. worker' \in Workers
    BY <1>9, <1>0 DEF StartEnds, CallTypes, Workers
  <2> QED BY <1>9, <2>1, <2>2 DEF StartEnds, CallTypes
<1>10. CASE TransferReturns
  BY <1>10, <1>0 DEF TransferReturns, CallTypes
<1>11. CASE WorkReturns
  BY <1>11, <1>0 DEF WorkReturns, CallTypes
<1>12. CASE SetResult
  BY <1>12, <1>0 DEF SetResult, CallTypes, Fields
<1>13. CASE Stop
  BY <1>13, <1>0 DEF Stop, CloseStop, CallTypes
<1>14. CASE StopReturns
  BY <1>14, <1>0 DEF StopReturns, Stopped, CallTypes
<1>15. CASE SayResult
  BY <1>15, <1>0 DEF SayResult, Say, CallTypes
<1>16. CASE DeferredStop
  BY <1>16, <1>0 DEF DeferredStop, CallTypes
<1>17. CASE command = "upload-fies" /\ FileIdx
  <2>1. worker.file + 1 \in 0..Len(Files) /\ worker.file + 1 \in Nat
    BY <1>0, <1>17 DEF FileIdx, CallTypes, Workers
  <2>2. field' \in Fields
    BY <1>17, <2>1 DEF FileIdx, CallTypes, Fields
  <2>3. worker' \in Workers
    BY <1>17, <2>1 DEF FileIdx, CallTypes, Workers
  <2> QED BY <1>17, <2>2, <2>3 DEF FileIdx, CallTypes
<1>18. CASE FileRest
  <2>1. field' \in Fields
    <3>1. worker.file \in Nat /\ field \in Fields
      BY <1>0 DEF CallTypes, Workers
    <3>2. CASE \E f \in {"name", "rows"} : field' = [field EXCEPT ![f] = worker.file]
      BY <3>1, <3>2 DEF Fields
    <3>3. CASE field' = [field EXCEPT !.read = [of |-> worker.file, n |-> 0]]
      BY <3>1, <3>3 DEF Fields
    <3> QED BY <1>18, <3>2, <3>3 DEF FileRest
  <2>2. worker' \in Workers
    BY <1>18, <1>0 DEF FileRest, CallTypes, Workers
  <2> QED BY <1>18, <2>1, <2>2 DEF FileRest, CallTypes
<1>19. CASE ReadRows
  <2>1. worker.file \in 1..Len(Files)
    BY <1>0, <1>19 DEF ReadRows, FileInv, CallTypes, Workers
  <2>2. Files[worker.file] \in Nat
    BY <2>1, BeforeType
  <2>5. field \in Fields /\ field.read.n \in Nat
    BY DEF CallTypes, Fields
  <2>6. PICK n \in 1..(Files[worker.file] - field.read.n) :
          field' = [field EXCEPT !["read"] = [of |-> worker.file, n |-> field.read.n + n]]
    BY <1>19 DEF ReadRows
  <2>7. field.read.n + n \in Nat /\ worker.file \in Nat
    BY <2>1, <2>2, <2>5, <2>6
  <2>3. field' \in Fields
    BY <2>5, <2>6, <2>7 DEF Fields
  <2>4. worker' \in Workers
    BY <1>19 DEF ReadRows, CallTypes, Workers
  <2> QED BY <1>19, <2>3, <2>4 DEF ReadRows, CallTypes
<1>20. CASE ReaderEnds
  <2>1. worker' \in Workers
    BY <1>20 DEF ReaderEnds, CallTypes, Workers
  <2>2. failed' \in BOOLEAN
    BY <1>20 DEF ReaderEnds, CallTypes
  <2> QED BY <1>20, <2>1, <2>2 DEF ReaderEnds, CallTypes
<1>21. CASE Sent
  <2>1. command \in {"upload-fies", "upload-pds"}
    BY <1>21 DEF ReporterInv, CallTypes, Sent
  <2>2. Available \in Nat
    BY <2>1, AvailableIs
  <2> QED BY <1>21, <2>2 DEF Sent, CallTypes, Fields
<1>22. CASE InserterEnds
  BY <1>22, <1>0 DEF InserterEnds, CallTypes
<1>23. CASE WatchSize
  <2>1. field' \in Fields
    <3>1. \E sent \in 0..Total : field' = [field EXCEPT !.sent = sent]
      BY <1>23 DEF WatchSize
    <3> QED BY <1>0, <3>1 DEF CallTypes, Fields
  <2>2. worker' \in Workers
    BY <1>23, <1>0 DEF WatchSize, CallTypes, Workers
  <2> QED BY <1>23, <2>1, <2>2 DEF WatchSize, CallTypes
<1>24. CASE WatchFile
  <2>1. worker.n \in 0..Total /\ Files # <<>>
    BY <1>0, <1>24 DEF WatchFile, WatchInv, ReporterInv, CallTypes, Workers
  <2>2. FileAt(worker.n) \in 1..Len(Files)
    BY <2>1, FileAtIs
  <2> HIDE DEF FileAt
  <2>3. FileAt(worker.n) \in 0..Len(Files) /\ FileAt(worker.n) \in Nat
    BY <1>0, <2>2
  <2>4. field' \in Fields
    BY <1>24, <2>3 DEF WatchFile, CallTypes, Fields
  <2>5. worker' \in Workers
    BY <1>24, <2>3 DEF WatchFile, CallTypes, Workers
  <2> QED BY <1>24, <2>4, <2>5 DEF WatchFile, CallTypes
<1>25. CASE SetRead
  <2>1. worker.file \in 0..(Len(Files) + 1) /\ Before[worker.file] <= worker.n
        /\ worker.n \in Nat
    BY <1>0, <1>25 DEF SetRead, WatchInv, CallTypes, Workers
  <2>2. Before[worker.file] \in Nat
    BY <2>1, BeforeType
  <2>3. worker.n - Before[worker.file] \in Nat
    BY <2>1, <2>2
  <2>4. field' \in Fields
    BY <1>25, <2>3 DEF SetRead, CallTypes, Fields, Workers
  <2>5. worker' \in Workers
    BY <1>25 DEF SetRead, CallTypes, Workers
  <2> QED BY <1>25, <2>4, <2>5 DEF SetRead, CallTypes
<1>26. CASE PollQuery
  <2>1. field' \in Fields
    BY <1>26, <1>0 DEF PollQuery, CallTypes, Fields, Workers
  <2>2. worker' \in Workers
    BY <1>26, <1>0 DEF PollQuery, CallTypes, Workers
  <2> QED BY <1>26, <2>1, <2>2 DEF PollQuery, CallTypes
<1>27. CASE WatcherEnds
  BY <1>27, <1>0 DEF WatcherEnds, CallTypes, Workers
<1>28. CASE Tick /\ UNCHANGED callVars
  <2>1. field.kind \in Kinds
    BY DEF CallTypes, Fields
  <2>2. NoFields \in Fields
    BY DEF NoFields, Fields, Kinds
  <2>3. \E kind \in Kinds \cup {"spinner", "nothing"}, final \in BOOLEAN :
          frame' = [kind |-> kind, final |-> final, load |-> Loads(kind, final), seen |-> NoFields]
    BY <1>28, <2>1 DEF Tick, Draw, NoFrame
  <2>4. frame' \in Frames
    BY <2>2, <2>3, LoadsIs DEF Frames
  <2> QED BY <1>28, <2>4 DEF Tick, Draw, CallTypes
<1>29. CASE TakeStop /\ UNCHANGED callVars
  <2>1. field.kind \in Kinds
    BY DEF CallTypes, Fields
  <2>2. NoFields \in Fields
    BY DEF NoFields, Fields, Kinds
  <2>3. \E kind \in Kinds \cup {"spinner", "nothing"}, final \in BOOLEAN :
          frame' = [kind |-> kind, final |-> final, load |-> Loads(kind, final), seen |-> NoFields]
    BY <1>29, <2>1 DEF TakeStop, Draw, NoFrame
  <2>4. frame' \in Frames
    BY <2>2, <2>3, LoadsIs DEF Frames
  <2> QED BY <1>29, <2>4 DEF TakeStop, Draw, CallTypes
<1>30. CASE Load /\ UNCHANGED callVars
  <2>1. frame' \in Frames
    BY <1>30, LoadIs
  <2> QED BY <1>30, <2>1 DEF Load, CallTypes
<1>31. CASE Paint /\ UNCHANGED callVars
  <2>1. NoFrame \in Frames
    BY DEF NoFrame, NoFields, Fields, Kinds, Frames
  <2> QED BY <1>31, <2>1 DEF Paint, CallTypes
<1>32. CASE UNCHANGED shownVars
  BY <1>32, <1>0 DEF shownVars, CallTypes
<1> QED
  BY <1>1, <1>2, <1>3, <1>4, <1>5, <1>6, <1>7, <1>8, <1>9, <1>10, <1>11, <1>12, <1>13,
     <1>14, <1>15, <1>16, <1>17, <1>18, <1>19, <1>20, <1>21, <1>22, <1>23, <1>24,
     <1>25, <1>26, <1>27, <1>28, <1>29, <1>30, <1>31, <1>32
  DEF ShownNext, MainStep, WorkStep, DrawerStep, ShownEnd

\* Every step keeps where the display's goroutine is.
LEMMA StepDrawer ==
  ASSUME CallTypes, DrawerInv, FrameInv, [ShownNext]_shownVars
  PROVE  DrawerInv'
<1> USE DEF Goto, WorkerAt, Store, shownVars, displayVars, paintVars, callVars
<1>1. CASE Header
  BY <1>1 DEF Header, Say, CallTypes, DrawerInv
<1>2. CASE StartRun
  BY <1>2 DEF StartRun, Run, CallTypes, DrawerInv
<1>3. CASE SetPhase
  BY <1>3 DEF SetPhase, CallTypes, DrawerInv
<1>4. CASE PhaseFails
  BY <1>4 DEF PhaseFails, CallTypes, DrawerInv
<1>5. CASE PhasesEnd
  BY <1>5 DEF PhasesEnd, CallTypes, DrawerInv
<1>6. CASE StartKind
  BY <1>6 DEF StartKind, Starts, CallTypes, DrawerInv
<1>7. CASE StartTotal
  BY <1>7 DEF StartTotal, CallTypes, DrawerInv
<1>8. CASE StartClock
  BY <1>8 DEF StartClock, CallTypes, DrawerInv
<1>9. CASE StartEnds
  BY <1>9 DEF StartEnds, CallTypes, DrawerInv
<1>10. CASE TransferReturns
  BY <1>10 DEF TransferReturns, CallTypes, DrawerInv
<1>11. CASE WorkReturns
  BY <1>11 DEF WorkReturns, CallTypes, DrawerInv
<1>12. CASE SetResult
  BY <1>12 DEF SetResult, CallTypes, DrawerInv
<1>13. CASE Stop
  BY <1>13 DEF Stop, CloseStop, CallTypes, DrawerInv
<1>14. CASE StopReturns
  BY <1>14 DEF StopReturns, Stopped, CallTypes, DrawerInv
<1>15. CASE SayResult
  BY <1>15 DEF SayResult, Say, CallTypes, DrawerInv
<1>16. CASE DeferredStop
  BY <1>16 DEF DeferredStop, CallTypes, DrawerInv
<1>17. CASE command = "upload-fies" /\ FileIdx
  BY <1>17 DEF FileIdx, CallTypes, DrawerInv
<1>18. CASE FileRest
  BY <1>18 DEF FileRest, CallTypes, DrawerInv
<1>19. CASE ReadRows
  BY <1>19 DEF ReadRows, CallTypes, DrawerInv
<1>20. CASE ReaderEnds
  BY <1>20 DEF ReaderEnds, CallTypes, DrawerInv
<1>21. CASE Sent
  BY <1>21 DEF Sent, CallTypes, DrawerInv
<1>22. CASE InserterEnds
  BY <1>22 DEF InserterEnds, CallTypes, DrawerInv
<1>23. CASE WatchSize
  BY <1>23 DEF WatchSize, CallTypes, DrawerInv
<1>24. CASE WatchFile
  BY <1>24 DEF WatchFile, CallTypes, DrawerInv
<1>25. CASE SetRead
  BY <1>25 DEF SetRead, CallTypes, DrawerInv
<1>26. CASE PollQuery
  BY <1>26 DEF PollQuery, CallTypes, DrawerInv
<1>27. CASE WatcherEnds
  BY <1>27 DEF WatcherEnds, CallTypes, DrawerInv
<1>28. CASE Tick /\ UNCHANGED callVars
  <2>1. frame'.final = FALSE
    BY <1>28 DEF Tick, Draw, NoFrame
  <2> QED BY <1>28, <2>1 DEF Tick, Draw, CallTypes, DrawerInv
<1>29. CASE TakeStop /\ UNCHANGED callVars
  <2>1. frame'.final = TRUE
    BY <1>29 DEF TakeStop, Draw, NoFrame
  <2> QED BY <1>29, <2>1 DEF TakeStop, Draw, CallTypes, DrawerInv
<1>30. CASE Load /\ UNCHANGED callVars
  <2>1. frame'.final = frame.final
    BY <1>30, LoadIs DEF FrameInv
  <2> QED BY <1>30, <2>1 DEF Load, CallTypes, DrawerInv
<1>31. CASE Paint /\ UNCHANGED callVars
  BY <1>31 DEF Paint, CallTypes, DrawerInv
<1>32. CASE UNCHANGED shownVars
  BY <1>32 DEF shownVars, CallTypes, DrawerInv
<1> QED
  BY <1>1, <1>2, <1>3, <1>4, <1>5, <1>6, <1>7, <1>8, <1>9, <1>10, <1>11, <1>12, <1>13,
     <1>14, <1>15, <1>16, <1>17, <1>18, <1>19, <1>20, <1>21, <1>22, <1>23, <1>24,
     <1>25, <1>26, <1>27, <1>28, <1>29, <1>30, <1>31, <1>32
  DEF ShownNext, MainStep, WorkStep, DrawerStep, ShownEnd

\* Every step keeps which goroutines report.
LEMMA StepReporter ==
  ASSUME CallTypes, DrawerInv, ReporterInv, StartInv, [ShownNext]_shownVars
  PROVE  ReporterInv'
<1> USE DEF Goto, WorkerAt, Store, shownVars, displayVars, paintVars, callVars
<1>1. CASE Header
  BY <1>1 DEF Header, Say, CallTypes, ReporterInv, BeforeWork, AfterWork
<1>2. CASE StartRun
  BY <1>2 DEF StartRun, Run, CallTypes, ReporterInv, BeforeWork, AfterWork
<1>3. CASE SetPhase
  BY <1>3 DEF SetPhase, CallTypes, ReporterInv, BeforeWork, AfterWork
<1>4. CASE PhaseFails
  BY <1>4 DEF PhaseFails, CallTypes, ReporterInv, BeforeWork, AfterWork
<1>5. CASE PhasesEnd
  BY <1>5 DEF PhasesEnd, CallTypes, ReporterInv, BeforeWork, AfterWork
<1>6. CASE StartKind
  BY <1>6 DEF StartKind, Starts, CallTypes, ReporterInv, BeforeWork, AfterWork
<1>7. CASE StartTotal
  BY <1>7 DEF StartTotal, CallTypes, ReporterInv, BeforeWork, AfterWork
<1>8. CASE StartClock
  BY <1>8 DEF StartClock, CallTypes, ReporterInv, BeforeWork, AfterWork
<1>9. CASE StartEnds
  BY <1>9 DEF StartEnds, CallTypes, ReporterInv, BeforeWork, AfterWork, Workers
<1>10. CASE TransferReturns
  BY <1>10 DEF TransferReturns, CallTypes, ReporterInv, BeforeWork, AfterWork
<1>11. CASE WorkReturns
  BY <1>11 DEF WorkReturns, CallTypes, ReporterInv, BeforeWork, AfterWork
<1>12. CASE SetResult
  BY <1>12 DEF SetResult, CallTypes, ReporterInv, BeforeWork, AfterWork
<1>13. CASE Stop
  BY <1>13 DEF Stop, CloseStop, CallTypes, ReporterInv, BeforeWork, AfterWork
<1>14. CASE StopReturns
  BY <1>14 DEF StopReturns, Stopped, CallTypes, ReporterInv, BeforeWork, AfterWork
<1>15. CASE SayResult
  BY <1>15 DEF SayResult, Say, CallTypes, ReporterInv, BeforeWork, AfterWork
<1>16. CASE DeferredStop
  BY <1>16 DEF DeferredStop, CallTypes, ReporterInv, BeforeWork, AfterWork
<1>17. CASE command = "upload-fies" /\ FileIdx
  BY <1>17 DEF FileIdx, CallTypes, ReporterInv, BeforeWork, AfterWork, Workers
<1>18. CASE FileRest
  BY <1>18 DEF FileRest, CallTypes, ReporterInv, BeforeWork, AfterWork, Workers
<1>19. CASE ReadRows
  BY <1>19 DEF ReadRows, CallTypes, ReporterInv, BeforeWork, AfterWork, Workers
<1>20. CASE ReaderEnds
  BY <1>20 DEF ReaderEnds, CallTypes, ReporterInv, BeforeWork, AfterWork, Workers
<1>21. CASE Sent
  BY <1>21 DEF Sent, CallTypes, ReporterInv, BeforeWork, AfterWork
<1>22. CASE InserterEnds
  BY <1>22 DEF InserterEnds, CallTypes, ReporterInv, BeforeWork, AfterWork
<1>23. CASE WatchSize
  BY <1>23 DEF WatchSize, CallTypes, ReporterInv, BeforeWork, AfterWork, Workers
<1>24. CASE WatchFile
  BY <1>24 DEF WatchFile, CallTypes, ReporterInv, BeforeWork, AfterWork, Workers
<1>25. CASE SetRead
  BY <1>25 DEF SetRead, CallTypes, ReporterInv, BeforeWork, AfterWork, Workers
<1>26. CASE PollQuery
  BY <1>26 DEF PollQuery, CallTypes, ReporterInv, BeforeWork, AfterWork, Workers
<1>27. CASE WatcherEnds
  BY <1>27 DEF WatcherEnds, CallTypes, ReporterInv, BeforeWork, AfterWork, Workers
<1>28. CASE Tick /\ UNCHANGED callVars
  BY <1>28 DEF Tick, Draw, CallTypes, ReporterInv, BeforeWork, AfterWork
<1>29. CASE TakeStop /\ UNCHANGED callVars
  BY <1>29 DEF TakeStop, Draw, CallTypes, ReporterInv, BeforeWork, AfterWork
<1>30. CASE Load /\ UNCHANGED callVars
  BY <1>30 DEF Load, CallTypes, ReporterInv, BeforeWork, AfterWork
<1>31. CASE Paint /\ UNCHANGED callVars
  BY <1>31 DEF Paint, CallTypes, ReporterInv, BeforeWork, AfterWork
<1>32. CASE UNCHANGED shownVars
  BY <1>32 DEF shownVars, CallTypes, ReporterInv, BeforeWork, AfterWork
<1> QED
  BY <1>1, <1>2, <1>3, <1>4, <1>5, <1>6, <1>7, <1>8, <1>9, <1>10, <1>11, <1>12, <1>13,
     <1>14, <1>15, <1>16, <1>17, <1>18, <1>19, <1>20, <1>21, <1>22, <1>23, <1>24,
     <1>25, <1>26, <1>27, <1>28, <1>29, <1>30, <1>31, <1>32
  DEF ShownNext, MainStep, WorkStep, DrawerStep, ShownEnd

\* Every step keeps what is in the fields before a frame can be made of them.
LEMMA StepStart ==
  ASSUME CallTypes, DrawerInv, ReporterInv, StartInv, [ShownNext]_shownVars
  PROVE  StartInv'
<1> USE DEF Goto, WorkerAt, Store, shownVars, displayVars, paintVars, callVars
<1>1. CASE Header
  BY <1>1 DEF Header, Say, CallTypes, ReporterInv, StartInv, BeforeWork, KindOf, Planned,
     Fields, Kinds, Commands
<1>2. CASE StartRun
  BY <1>2 DEF StartRun, Run, CallTypes, ReporterInv, StartInv, BeforeWork, KindOf, Planned,
     Fields, Kinds, Commands
<1>3. CASE SetPhase
  BY <1>3 DEF SetPhase, CallTypes, ReporterInv, StartInv, BeforeWork, KindOf, Planned, Fields,
     Kinds, Commands
<1>4. CASE PhaseFails
  BY <1>4 DEF PhaseFails, CallTypes, ReporterInv, StartInv, BeforeWork, KindOf, Planned,
     Fields, Kinds, Commands
<1>5. CASE PhasesEnd
  BY <1>5 DEF PhasesEnd, CallTypes, ReporterInv, StartInv, BeforeWork, KindOf, Planned, Fields,
     Kinds, Commands
<1>6. CASE StartKind
  BY <1>6 DEF StartKind, Starts, CallTypes, ReporterInv, StartInv, BeforeWork, KindOf, Planned,
     Fields, Kinds, Commands
<1>7. CASE StartTotal
  BY <1>7 DEF StartTotal, CallTypes, ReporterInv, StartInv, BeforeWork, KindOf, Planned,
     Fields, Kinds, Commands
<1>8. CASE StartClock
  BY <1>8 DEF StartClock, CallTypes, ReporterInv, StartInv, BeforeWork, KindOf, Planned,
     Fields, Kinds, Commands
<1>9. CASE StartEnds
  BY <1>9 DEF StartEnds, CallTypes, ReporterInv, StartInv, BeforeWork, KindOf, Planned, Fields,
     Kinds, Commands
<1>10. CASE TransferReturns
  BY <1>10 DEF TransferReturns, CallTypes, ReporterInv, StartInv, BeforeWork, KindOf, Planned,
     Fields, Kinds, Commands
<1>11. CASE WorkReturns
  BY <1>11 DEF WorkReturns, CallTypes, ReporterInv, StartInv, BeforeWork, KindOf, Planned,
     Fields, Kinds, Commands
<1>12. CASE SetResult
  BY <1>12 DEF SetResult, CallTypes, ReporterInv, StartInv, BeforeWork, KindOf, Planned,
     Fields, Kinds, Commands
<1>13. CASE Stop
  BY <1>13 DEF Stop, CloseStop, CallTypes, ReporterInv, StartInv, BeforeWork, KindOf, Planned,
     Fields, Kinds, Commands
<1>14. CASE StopReturns
  BY <1>14 DEF StopReturns, Stopped, CallTypes, ReporterInv, StartInv, BeforeWork, KindOf,
     Planned, Fields, Kinds, Commands
<1>15. CASE SayResult
  BY <1>15 DEF SayResult, Say, CallTypes, ReporterInv, StartInv, BeforeWork, KindOf, Planned,
     Fields, Kinds, Commands
<1>16. CASE DeferredStop
  BY <1>16 DEF DeferredStop, CallTypes, ReporterInv, StartInv, BeforeWork, KindOf, Planned,
     Fields, Kinds, Commands
<1>17. CASE command = "upload-fies" /\ FileIdx
  BY <1>17 DEF FileIdx, CallTypes, ReporterInv, StartInv, BeforeWork, KindOf, Planned, Fields,
     Kinds, Commands
<1>18. CASE FileRest
  BY <1>18 DEF FileRest, CallTypes, ReporterInv, StartInv, BeforeWork, KindOf, Planned, Fields,
     Kinds, Commands
<1>19. CASE ReadRows
  BY <1>19 DEF ReadRows, CallTypes, ReporterInv, StartInv, BeforeWork, KindOf, Planned, Fields,
     Kinds, Commands
<1>20. CASE ReaderEnds
  BY <1>20 DEF ReaderEnds, CallTypes, ReporterInv, StartInv, BeforeWork, KindOf, Planned,
     Fields, Kinds, Commands
<1>21. CASE Sent
  BY <1>21 DEF Sent, CallTypes, ReporterInv, StartInv, BeforeWork, KindOf, Planned, Fields,
     Kinds, Commands
<1>22. CASE InserterEnds
  BY <1>22 DEF InserterEnds, CallTypes, ReporterInv, StartInv, BeforeWork, KindOf, Planned,
     Fields, Kinds, Commands
<1>23. CASE WatchSize
  BY <1>23 DEF WatchSize, CallTypes, ReporterInv, StartInv, BeforeWork, KindOf, Planned,
     Fields, Kinds, Commands
<1>24. CASE WatchFile
  BY <1>24 DEF WatchFile, CallTypes, ReporterInv, StartInv, BeforeWork, KindOf, Planned,
     Fields, Kinds, Commands
<1>25. CASE SetRead
  BY <1>25 DEF SetRead, CallTypes, ReporterInv, StartInv, BeforeWork, KindOf, Planned, Fields,
     Kinds, Commands
<1>26. CASE PollQuery
  BY <1>26 DEF PollQuery, CallTypes, ReporterInv, StartInv, BeforeWork, KindOf, Planned,
     Fields, Kinds, Commands
<1>27. CASE WatcherEnds
  BY <1>27 DEF WatcherEnds, CallTypes, ReporterInv, StartInv, BeforeWork, KindOf, Planned,
     Fields, Kinds, Commands
<1>28. CASE Tick /\ UNCHANGED callVars
  BY <1>28 DEF Tick, Draw, CallTypes, ReporterInv, StartInv, BeforeWork, KindOf, Planned,
     Fields, Kinds, Commands
<1>29. CASE TakeStop /\ UNCHANGED callVars
  BY <1>29 DEF TakeStop, Draw, CallTypes, ReporterInv, StartInv, BeforeWork, KindOf, Planned,
     Fields, Kinds, Commands
<1>30. CASE Load /\ UNCHANGED callVars
  BY <1>30 DEF Load, CallTypes, ReporterInv, StartInv, BeforeWork, KindOf, Planned, Fields,
     Kinds, Commands
<1>31. CASE Paint /\ UNCHANGED callVars
  BY <1>31 DEF Paint, CallTypes, ReporterInv, StartInv, BeforeWork, KindOf, Planned, Fields,
     Kinds, Commands
<1>32. CASE UNCHANGED shownVars
  BY <1>32 DEF shownVars, CallTypes, ReporterInv, StartInv, BeforeWork, KindOf, Planned,
     Fields, Kinds, Commands
<1> QED
  BY <1>1, <1>2, <1>3, <1>4, <1>5, <1>6, <1>7, <1>8, <1>9, <1>10, <1>11, <1>12, <1>13,
     <1>14, <1>15, <1>16, <1>17, <1>18, <1>19, <1>20, <1>21, <1>22, <1>23, <1>24,
     <1>25, <1>26, <1>27, <1>28, <1>29, <1>30, <1>31, <1>32
  DEF ShownNext, MainStep, WorkStep, DrawerStep, ShownEnd

\* The command stays the one it is, and so does what it shows.
LEMMA SameCommand ==
  ASSUME [ShownNext]_shownVars
  PROVE  command' = command /\ KindOf' = KindOf
<1> USE DEF Goto, WorkerAt, Store, shownVars, displayVars, paintVars, callVars
<1>0. command' = command
<2>1. CASE Header
  BY <2>1 DEF Header, Say
<2>2. CASE StartRun
  BY <2>2 DEF StartRun, Run
<2>3. CASE SetPhase
  BY <2>3 DEF SetPhase
<2>4. CASE PhaseFails
  BY <2>4 DEF PhaseFails
<2>5. CASE PhasesEnd
  BY <2>5 DEF PhasesEnd
<2>6. CASE StartKind
  BY <2>6 DEF StartKind, Starts
<2>7. CASE StartTotal
  BY <2>7 DEF StartTotal
<2>8. CASE StartClock
  BY <2>8 DEF StartClock
<2>9. CASE StartEnds
  BY <2>9 DEF StartEnds
<2>10. CASE TransferReturns
  BY <2>10 DEF TransferReturns
<2>11. CASE WorkReturns
  BY <2>11 DEF WorkReturns
<2>12. CASE SetResult
  BY <2>12 DEF SetResult
<2>13. CASE Stop
  BY <2>13 DEF Stop, CloseStop
<2>14. CASE StopReturns
  BY <2>14 DEF StopReturns, Stopped
<2>15. CASE SayResult
  BY <2>15 DEF SayResult, Say
<2>16. CASE DeferredStop
  BY <2>16 DEF DeferredStop
<2>17. CASE command = "upload-fies" /\ FileIdx
  BY <2>17 DEF FileIdx
<2>18. CASE FileRest
  BY <2>18 DEF FileRest
<2>19. CASE ReadRows
  BY <2>19 DEF ReadRows
<2>20. CASE ReaderEnds
  BY <2>20 DEF ReaderEnds
<2>21. CASE Sent
  BY <2>21 DEF Sent
<2>22. CASE InserterEnds
  BY <2>22 DEF InserterEnds
<2>23. CASE WatchSize
  BY <2>23 DEF WatchSize
<2>24. CASE WatchFile
  BY <2>24 DEF WatchFile
<2>25. CASE SetRead
  BY <2>25 DEF SetRead
<2>26. CASE PollQuery
  BY <2>26 DEF PollQuery
<2>27. CASE WatcherEnds
  BY <2>27 DEF WatcherEnds
<2>28. CASE Tick /\ UNCHANGED callVars
  BY <2>28 DEF Tick, Draw
<2>29. CASE TakeStop /\ UNCHANGED callVars
  BY <2>29 DEF TakeStop, Draw
<2>30. CASE Load /\ UNCHANGED callVars
  BY <2>30 DEF Load
<2>31. CASE Paint /\ UNCHANGED callVars
  BY <2>31 DEF Paint
<2>32. CASE UNCHANGED shownVars
  BY <2>32 DEF shownVars
  <2> QED
  BY <2>1, <2>2, <2>3, <2>4, <2>5, <2>6, <2>7, <2>8, <2>9, <2>10, <2>11, <2>12, <2>13,
     <2>14, <2>15, <2>16, <2>17, <2>18, <2>19, <2>20, <2>21, <2>22, <2>23, <2>24,
     <2>25, <2>26, <2>27, <2>28, <2>29, <2>30, <2>31, <2>32
  DEF ShownNext, MainStep, WorkStep, DrawerStep, ShownEnd
<1> QED BY <1>0 DEF KindOf

\* Every step keeps what watchSize keeps of the size.
LEMMA StepWatch ==
  ASSUME CallTypes, ReporterInv, WatchInv, [ShownNext]_shownVars
  PROVE  WatchInv'
<1> USE DEF Goto, WorkerAt, Store, shownVars, displayVars, paintVars, callVars
<1>0. Total \in Nat /\ Len(Files) \in Nat
  BY BeforeType, FilesAssumption
<1> HIDE DEF Total, Before
<1>1. CASE Header
  BY <1>1, <1>0 DEF Header, Say, CallTypes, ReporterInv, BeforeWork, WatchInv
<1>2. CASE StartRun
  BY <1>2, <1>0 DEF StartRun, Run, CallTypes, ReporterInv, BeforeWork, WatchInv
<1>3. CASE SetPhase
  BY <1>3, <1>0 DEF SetPhase, CallTypes, ReporterInv, BeforeWork, WatchInv
<1>4. CASE PhaseFails
  BY <1>4, <1>0 DEF PhaseFails, CallTypes, ReporterInv, BeforeWork, WatchInv
<1>5. CASE PhasesEnd
  BY <1>5, <1>0 DEF PhasesEnd, CallTypes, ReporterInv, BeforeWork, WatchInv
<1>6. CASE StartKind
  BY <1>6, <1>0 DEF StartKind, Starts, CallTypes, ReporterInv, BeforeWork, WatchInv
<1>7. CASE StartTotal
  BY <1>7, <1>0 DEF StartTotal, CallTypes, ReporterInv, BeforeWork, WatchInv
<1>8. CASE StartClock
  BY <1>8, <1>0 DEF StartClock, CallTypes, ReporterInv, BeforeWork, WatchInv
<1>9. CASE StartEnds
  BY <1>9, <1>0 DEF StartEnds, CallTypes, ReporterInv, BeforeWork, WatchInv, Workers
<1>10. CASE TransferReturns
  BY <1>10, <1>0 DEF TransferReturns, CallTypes, ReporterInv, BeforeWork, WatchInv
<1>11. CASE WorkReturns
  BY <1>11, <1>0 DEF WorkReturns, CallTypes, ReporterInv, BeforeWork, WatchInv
<1>12. CASE SetResult
  BY <1>12, <1>0 DEF SetResult, CallTypes, ReporterInv, BeforeWork, WatchInv
<1>13. CASE Stop
  BY <1>13, <1>0 DEF Stop, CloseStop, CallTypes, ReporterInv, BeforeWork, WatchInv
<1>14. CASE StopReturns
  BY <1>14, <1>0 DEF StopReturns, Stopped, CallTypes, ReporterInv, BeforeWork, WatchInv
<1>15. CASE SayResult
  BY <1>15, <1>0 DEF SayResult, Say, CallTypes, ReporterInv, BeforeWork, WatchInv
<1>16. CASE DeferredStop
  BY <1>16, <1>0 DEF DeferredStop, CallTypes, ReporterInv, BeforeWork, WatchInv
<1>17. CASE command = "upload-fies" /\ FileIdx
  BY <1>17, <1>0 DEF FileIdx, CallTypes, ReporterInv, BeforeWork, WatchInv, Workers
<1>18. CASE FileRest
  BY <1>18, <1>0 DEF FileRest, CallTypes, ReporterInv, BeforeWork, WatchInv, Workers
<1>19. CASE ReadRows
  BY <1>19, <1>0 DEF ReadRows, CallTypes, ReporterInv, BeforeWork, WatchInv, Workers
<1>20. CASE ReaderEnds
  BY <1>20, <1>0 DEF ReaderEnds, CallTypes, ReporterInv, BeforeWork, WatchInv, Workers
<1>21. CASE Sent
  BY <1>21, <1>0 DEF Sent, CallTypes, ReporterInv, BeforeWork, WatchInv
<1>22. CASE InserterEnds
  BY <1>22, <1>0 DEF InserterEnds, CallTypes, ReporterInv, BeforeWork, WatchInv
<1>23. CASE WatchSize
  <2>1. PICK merged \in 0..Total :
          worker' = [pc |-> IF FileAt(merged) # worker.file THEN "idx" ELSE "read",
                     file |-> worker.file, n |-> merged]
    BY <1>23 DEF WatchSize
  <2>2. Files # <<>>
    BY <1>23 DEF WatchSize, ReporterInv
  <2>3. FileAt(merged) \in 1..Len(Files) /\ Before[FileAt(merged)] <= merged
    BY <2>2, FileAtIs
  <2> HIDE DEF FileAt
  <2> QED BY <1>0, <2>1, <2>3 DEF WatchInv
<1>24. CASE WatchFile
  <2>1. worker.n \in 0..Total /\ Files # <<>>
    BY <1>0, <1>24 DEF WatchFile, ReporterInv, CallTypes, WatchInv, Workers
  <2>2. FileAt(worker.n) \in 1..Len(Files) /\ Before[FileAt(worker.n)] <= worker.n
    BY <2>1, FileAtIs
  <2> HIDE DEF FileAt
  <2>3. worker'.n = worker.n /\ worker'.file = FileAt(worker.n)
    BY <1>24 DEF WatchFile, CallTypes, Workers
  <2> QED BY <1>0, <2>1, <2>2, <2>3 DEF WatchInv
<1>25. CASE SetRead
  BY <1>25, <1>0 DEF SetRead, CallTypes, ReporterInv, BeforeWork, WatchInv, Workers
<1>26. CASE PollQuery
  BY <1>26, <1>0 DEF PollQuery, CallTypes, ReporterInv, BeforeWork, WatchInv, Workers
<1>27. CASE WatcherEnds
  BY <1>27, <1>0 DEF WatcherEnds, CallTypes, ReporterInv, BeforeWork, WatchInv, Workers
<1>28. CASE Tick /\ UNCHANGED callVars
  BY <1>28, <1>0 DEF Tick, Draw, CallTypes, ReporterInv, BeforeWork, WatchInv
<1>29. CASE TakeStop /\ UNCHANGED callVars
  BY <1>29, <1>0 DEF TakeStop, Draw, CallTypes, ReporterInv, BeforeWork, WatchInv
<1>30. CASE Load /\ UNCHANGED callVars
  BY <1>30, <1>0 DEF Load, CallTypes, ReporterInv, BeforeWork, WatchInv
<1>31. CASE Paint /\ UNCHANGED callVars
  BY <1>31, <1>0 DEF Paint, CallTypes, ReporterInv, BeforeWork, WatchInv
<1>32. CASE UNCHANGED shownVars
  BY <1>32, <1>0 DEF shownVars, CallTypes, ReporterInv, BeforeWork, WatchInv
<1> QED
  BY <1>1, <1>2, <1>3, <1>4, <1>5, <1>6, <1>7, <1>8, <1>9, <1>10, <1>11, <1>12, <1>13,
     <1>14, <1>15, <1>16, <1>17, <1>18, <1>19, <1>20, <1>21, <1>22, <1>23, <1>24,
     <1>25, <1>26, <1>27, <1>28, <1>29, <1>30, <1>31, <1>32
  DEF ShownNext, MainStep, WorkStep, DrawerStep, ShownEnd

\* Every step keeps what the fields of the current file are.
LEMMA StepFile ==
  ASSUME CallTypes, ReporterInv, FileInv, [ShownNext]_shownVars
  PROVE  FileInv'
<1> USE DEF Goto, WorkerAt, Store, shownVars, displayVars, paintVars, callVars
<1>0. Len(Files) \in Nat /\ \A k \in 1..Len(Files) : Files[k] \in Nat
  BY FilesAssumption
<1>1. CASE Header
  BY <1>1, <1>0 DEF Header, Say, CallTypes, ReporterInv, BeforeWork, FileInv
<1>2. CASE StartRun
  BY <1>2, <1>0 DEF StartRun, Run, CallTypes, ReporterInv, BeforeWork, FileInv
<1>3. CASE SetPhase
  BY <1>3, <1>0 DEF SetPhase, CallTypes, ReporterInv, BeforeWork, FileInv, Fields
<1>4. CASE PhaseFails
  BY <1>4, <1>0 DEF PhaseFails, CallTypes, ReporterInv, BeforeWork, FileInv
<1>5. CASE PhasesEnd
  BY <1>5, <1>0 DEF PhasesEnd, CallTypes, ReporterInv, BeforeWork, FileInv, Fields
<1>6. CASE StartKind
  BY <1>6, <1>0 DEF StartKind, Starts, CallTypes, ReporterInv, BeforeWork, FileInv, Fields
<1>7. CASE StartTotal
  BY <1>7, <1>0 DEF StartTotal, CallTypes, ReporterInv, BeforeWork, FileInv, Fields
<1>8. CASE StartClock
  BY <1>8, <1>0 DEF StartClock, CallTypes, ReporterInv, BeforeWork, FileInv, Fields
<1>9. CASE StartEnds
  BY <1>9, <1>0 DEF StartEnds, CallTypes, ReporterInv, BeforeWork, FileInv, Workers, Fields
<1>10. CASE TransferReturns
  BY <1>10, <1>0 DEF TransferReturns, CallTypes, ReporterInv, BeforeWork, FileInv
<1>11. CASE WorkReturns
  BY <1>11, <1>0 DEF WorkReturns, CallTypes, ReporterInv, BeforeWork, FileInv
<1>12. CASE SetResult
  BY <1>12, <1>0 DEF SetResult, CallTypes, ReporterInv, BeforeWork, FileInv, Fields
<1>13. CASE Stop
  BY <1>13, <1>0 DEF Stop, CloseStop, CallTypes, ReporterInv, BeforeWork, FileInv
<1>14. CASE StopReturns
  BY <1>14, <1>0 DEF StopReturns, Stopped, CallTypes, ReporterInv, BeforeWork, FileInv
<1>15. CASE SayResult
  BY <1>15, <1>0 DEF SayResult, Say, CallTypes, ReporterInv, BeforeWork, FileInv
<1>16. CASE DeferredStop
  BY <1>16, <1>0 DEF DeferredStop, CallTypes, ReporterInv, BeforeWork, FileInv
<1>17. CASE command = "upload-fies" /\ FileIdx
  BY <1>17, <1>0 DEF FileIdx, CallTypes, ReporterInv, BeforeWork, FileInv, Workers, Fields
<1>18. CASE FileRest
  <2>1. CASE worker.pc = "name"
    BY <1>0, <1>18, <2>1 DEF FileRest, CallTypes, FileInv, Workers, Fields
  <2>2. CASE worker.pc = "rows"
    BY <1>0, <1>18, <2>2 DEF FileRest, CallTypes, FileInv, Workers, Fields
  <2>3. CASE worker.pc = "zero"
    BY <1>0, <1>18, <2>3 DEF FileRest, CallTypes, FileInv, Workers, Fields
  <2> QED BY <1>18, <2>1, <2>2, <2>3 DEF FileRest
<1>19. CASE ReadRows
  BY <1>19, <1>0 DEF ReadRows, CallTypes, ReporterInv, BeforeWork, FileInv, Workers, Fields
<1>20. CASE ReaderEnds
  BY <1>20, <1>0 DEF ReaderEnds, CallTypes, ReporterInv, BeforeWork, FileInv, Workers
<1>21. CASE Sent
  BY <1>21, <1>0 DEF Sent, CallTypes, ReporterInv, BeforeWork, FileInv, Fields
<1>22. CASE InserterEnds
  BY <1>22, <1>0 DEF InserterEnds, CallTypes, ReporterInv, BeforeWork, FileInv
<1>23. CASE WatchSize
  BY <1>23, <1>0 DEF WatchSize, CallTypes, ReporterInv, BeforeWork, FileInv, Workers, Fields
<1>24. CASE WatchFile
  BY <1>24, <1>0 DEF WatchFile, CallTypes, ReporterInv, BeforeWork, FileInv, Workers, Fields
<1>25. CASE SetRead
  BY <1>25, <1>0 DEF SetRead, CallTypes, ReporterInv, BeforeWork, FileInv, Workers, Fields
<1>26. CASE PollQuery
  BY <1>26, <1>0 DEF PollQuery, CallTypes, ReporterInv, BeforeWork, FileInv, Workers, Fields
<1>27. CASE WatcherEnds
  BY <1>27, <1>0 DEF WatcherEnds, CallTypes, ReporterInv, BeforeWork, FileInv, Workers
<1>28. CASE Tick /\ UNCHANGED callVars
  BY <1>28, <1>0 DEF Tick, Draw, CallTypes, ReporterInv, BeforeWork, FileInv
<1>29. CASE TakeStop /\ UNCHANGED callVars
  BY <1>29, <1>0 DEF TakeStop, Draw, CallTypes, ReporterInv, BeforeWork, FileInv
<1>30. CASE Load /\ UNCHANGED callVars
  BY <1>30, <1>0 DEF Load, CallTypes, ReporterInv, BeforeWork, FileInv
<1>31. CASE Paint /\ UNCHANGED callVars
  BY <1>31, <1>0 DEF Paint, CallTypes, ReporterInv, BeforeWork, FileInv
<1>32. CASE UNCHANGED shownVars
  BY <1>32, <1>0 DEF shownVars, CallTypes, ReporterInv, BeforeWork, FileInv
<1> QED
  BY <1>1, <1>2, <1>3, <1>4, <1>5, <1>6, <1>7, <1>8, <1>9, <1>10, <1>11, <1>12, <1>13,
     <1>14, <1>15, <1>16, <1>17, <1>18, <1>19, <1>20, <1>21, <1>22, <1>23, <1>24,
     <1>25, <1>26, <1>27, <1>28, <1>29, <1>30, <1>31, <1>32
  DEF ShownNext, MainStep, WorkStep, DrawerStep, ShownEnd

\* Every step keeps how many rows are counted.
LEMMA StepSent ==
  ASSUME CallTypes, DrawerInv, ReporterInv, StartInv, FileInv, SentInv, [ShownNext]_shownVars
  PROVE  SentInv'
<1> USE DEF Goto, WorkerAt, Store, shownVars, displayVars, paintVars, callVars
<1>0. Total \in Nat /\ KindOf' = KindOf
  BY BeforeType, SameCommand
<1> HIDE DEF Total
<1>1. CASE Header
  BY <1>1, <1>0 DEF Header, Say, CallTypes, ReporterInv, BeforeWork, AfterWork, StartInv, SentInv
<1>2. CASE StartRun
  BY <1>2, <1>0 DEF StartRun, Run, CallTypes, ReporterInv, BeforeWork, AfterWork, StartInv, SentInv
<1>3. CASE SetPhase
  BY <1>3, <1>0 DEF SetPhase, CallTypes, ReporterInv, BeforeWork, AfterWork, StartInv, SentInv,
     Fields
<1>4. CASE PhaseFails
  BY <1>4, <1>0 DEF PhaseFails, CallTypes, ReporterInv, BeforeWork, AfterWork, StartInv, SentInv
<1>5. CASE PhasesEnd
  BY <1>5, <1>0 DEF PhasesEnd, CallTypes, ReporterInv, BeforeWork, AfterWork, StartInv,
     SentInv, Fields, KindOf
<1>6. CASE StartKind
  BY <1>6, <1>0 DEF StartKind, Starts, CallTypes, ReporterInv, BeforeWork, AfterWork, StartInv,
     SentInv, Fields
<1>7. CASE StartTotal
  BY <1>7, <1>0 DEF StartTotal, CallTypes, ReporterInv, BeforeWork, AfterWork, StartInv,
     SentInv, Fields
<1>8. CASE StartClock
  BY <1>8, <1>0 DEF StartClock, CallTypes, ReporterInv, BeforeWork, AfterWork, StartInv,
     SentInv, Fields
<1>9. CASE StartEnds
  BY <1>9, <1>0 DEF StartEnds, CallTypes, ReporterInv, BeforeWork, AfterWork, StartInv,
     SentInv, Fields
<1>10. CASE TransferReturns
  BY <1>10, <1>0 DEF TransferReturns, CallTypes, ReporterInv, BeforeWork, AfterWork, StartInv,
     SentInv, KindOf
<1>11. CASE WorkReturns
  BY <1>11, <1>0 DEF WorkReturns, CallTypes, ReporterInv, BeforeWork, AfterWork, StartInv,
     SentInv, KindOf
<1>12. CASE SetResult
  BY <1>12, <1>0 DEF SetResult, CallTypes, ReporterInv, BeforeWork, AfterWork, StartInv,
     SentInv, Fields
<1>13. CASE Stop
  BY <1>13, <1>0 DEF Stop, CloseStop, SentInv, AfterWork
<1>14. CASE StopReturns
  BY <1>14, <1>0 DEF StopReturns, Stopped, SentInv, AfterWork
<1>15. CASE SayResult
  BY <1>15, <1>0 DEF SayResult, Say, SentInv, AfterWork
<1>16. CASE DeferredStop
  BY <1>16, <1>0 DEF DeferredStop, SentInv, AfterWork
<1>17. CASE command = "upload-fies" /\ FileIdx
  BY <1>17, <1>0 DEF FileIdx, CallTypes, ReporterInv, BeforeWork, AfterWork, StartInv, SentInv,
     Fields
<1>18. CASE FileRest
  BY <1>18, <1>0 DEF FileRest, CallTypes, ReporterInv, BeforeWork, AfterWork, StartInv,
     SentInv, Fields
<1>19. CASE ReadRows
  BY <1>19, <1>0 DEF ReadRows, CallTypes, ReporterInv, BeforeWork, AfterWork, StartInv,
     SentInv, Fields
<1>20. CASE ReaderEnds
  BY <1>20, <1>0 DEF ReaderEnds, CallTypes, ReporterInv, BeforeWork, AfterWork, StartInv, SentInv
<1>21. CASE Sent
  <2>1. command \in {"upload-fies", "upload-pds"}
    BY <1>21 DEF ReporterInv, CallTypes, Sent
  <2>2. Available \in Nat /\ Available <= Total
    BY <2>1, AvailableIs
  <2>3. field \in Fields /\ field.sent \in Nat
    BY DEF CallTypes, Fields
  <2>4. PICK n \in 1..(Available - field.sent) :
          field' = [field EXCEPT !["sent"] = field.sent + n]
    BY <1>21 DEF Sent
  <2> HIDE DEF Available
  <2>5. field'.sent <= Total
    BY <1>0, <2>2, <2>3, <2>4 DEF Fields
  <2> QED BY <1>21, <2>5 DEF Sent, SentInv, ReporterInv, AfterWork
<1>22. CASE InserterEnds
  BY <1>22, <1>0 DEF InserterEnds, CallTypes, ReporterInv, BeforeWork, AfterWork, StartInv, SentInv
<1>23. CASE WatchSize
  BY <1>23, <1>0 DEF WatchSize, CallTypes, ReporterInv, BeforeWork, AfterWork, StartInv,
     SentInv, Fields
<1>24. CASE WatchFile
  BY <1>24, <1>0 DEF WatchFile, CallTypes, ReporterInv, BeforeWork, AfterWork, StartInv,
     SentInv, Fields
<1>25. CASE SetRead
  BY <1>25, <1>0 DEF SetRead, CallTypes, ReporterInv, BeforeWork, AfterWork, StartInv, SentInv,
     Fields
<1>26. CASE PollQuery
  BY <1>26, <1>0 DEF PollQuery, CallTypes, ReporterInv, BeforeWork, AfterWork, StartInv,
     SentInv, Fields, KindOf
<1>27. CASE WatcherEnds
  BY <1>27, <1>0 DEF WatcherEnds, SentInv, AfterWork
<1>28. CASE Tick /\ UNCHANGED callVars
  BY <1>28, <1>0 DEF Tick, Draw, SentInv, AfterWork
<1>29. CASE TakeStop /\ UNCHANGED callVars
  BY <1>29, <1>0 DEF TakeStop, Draw, SentInv, AfterWork
<1>30. CASE Load /\ UNCHANGED callVars
  BY <1>30, <1>0 DEF Load, SentInv, AfterWork
<1>31. CASE Paint /\ UNCHANGED callVars
  BY <1>31, <1>0 DEF Paint, SentInv, AfterWork
<1>32. CASE UNCHANGED shownVars
  BY <1>32, <1>0 DEF shownVars, SentInv, AfterWork
<1> QED
  BY <1>1, <1>2, <1>3, <1>4, <1>5, <1>6, <1>7, <1>8, <1>9, <1>10, <1>11, <1>12, <1>13,
     <1>14, <1>15, <1>16, <1>17, <1>18, <1>19, <1>20, <1>21, <1>22, <1>23, <1>24,
     <1>25, <1>26, <1>27, <1>28, <1>29, <1>30, <1>31, <1>32
  DEF ShownNext, MainStep, WorkStep, DrawerStep, ShownEnd

\* Fields and errors stay or go on: a started display stays started, an error
\* stays one, and upload-fies goes from file to file.
LEMMA FieldsGrow ==
  ASSUME CallTypes, ReporterInv, FileInv, [ShownNext]_shownVars
  PROVE  /\ field.start => field'.start
         /\ failed => failed'
         /\ command = "upload-fies" =>
              /\ field'.idx >= field.idx /\ field'.name >= field.name
              /\ field'.read.of >= field.read.of
<1> USE DEF Goto, WorkerAt, Store, shownVars, displayVars, paintVars, callVars
<1>0. field \in Fields /\ worker \in Workers /\ failed \in BOOLEAN
  BY DEF CallTypes
<1>1. CASE Header
  BY <1>1, <1>0 DEF Header, Say, Fields
<1>2. CASE StartRun
  BY <1>2, <1>0 DEF StartRun, Run, Fields
<1>3. CASE SetPhase
  BY <1>3, <1>0 DEF SetPhase, Fields
<1>4. CASE PhaseFails
  BY <1>4, <1>0 DEF PhaseFails, Fields
<1>5. CASE PhasesEnd
  BY <1>5, <1>0 DEF PhasesEnd, Fields
<1>6. CASE StartKind
  BY <1>6, <1>0 DEF StartKind, Starts, Fields
<1>7. CASE StartTotal
  BY <1>7, <1>0 DEF StartTotal, Fields
<1>8. CASE StartClock
  BY <1>8, <1>0 DEF StartClock, Fields
<1>9. CASE StartEnds
  BY <1>9, <1>0 DEF StartEnds, Fields, Workers
<1>10. CASE TransferReturns
  BY <1>10, <1>0 DEF TransferReturns, Fields
<1>11. CASE WorkReturns
  BY <1>11, <1>0 DEF WorkReturns, Fields, ReporterInv, BeforeWork
<1>12. CASE SetResult
  BY <1>12, <1>0 DEF SetResult, Fields, Workers, ReporterInv
<1>13. CASE Stop
  BY <1>13, <1>0 DEF Stop, CloseStop, Fields
<1>14. CASE StopReturns
  BY <1>14, <1>0 DEF StopReturns, Stopped, Fields
<1>15. CASE SayResult
  BY <1>15, <1>0 DEF SayResult, Say, Fields
<1>16. CASE DeferredStop
  BY <1>16, <1>0 DEF DeferredStop, Fields
<1>17. CASE command = "upload-fies" /\ FileIdx
  BY <1>17, <1>0 DEF FileIdx, Fields, Workers, FileInv, ReporterInv
<1>18. CASE FileRest
  BY <1>18, <1>0 DEF FileRest, Fields, Workers, FileInv, ReporterInv
<1>19. CASE ReadRows
  BY <1>19, <1>0 DEF ReadRows, Fields, Workers, FileInv
<1>20. CASE ReaderEnds
  BY <1>20, <1>0 DEF ReaderEnds, Fields, Workers
<1>21. CASE Sent
  BY <1>21, <1>0 DEF Sent, Fields
<1>22. CASE InserterEnds
  BY <1>22, <1>0 DEF InserterEnds, Fields
<1>23. CASE WatchSize
  BY <1>23, <1>0 DEF WatchSize, Fields, Workers, ReporterInv
<1>24. CASE WatchFile
  BY <1>24, <1>0 DEF WatchFile, Fields, Workers, ReporterInv
<1>25. CASE SetRead
  BY <1>25, <1>0 DEF SetRead, Fields, Workers, ReporterInv
<1>26. CASE PollQuery
  BY <1>26, <1>0 DEF PollQuery, Fields, Workers, ReporterInv
<1>27. CASE WatcherEnds
  BY <1>27, <1>0 DEF WatcherEnds, Fields, Workers
<1>28. CASE Tick /\ UNCHANGED callVars
  BY <1>28, <1>0 DEF Tick, Draw, Fields
<1>29. CASE TakeStop /\ UNCHANGED callVars
  BY <1>29, <1>0 DEF TakeStop, Draw, Fields
<1>30. CASE Load /\ UNCHANGED callVars
  BY <1>30, <1>0 DEF Load, Fields
<1>31. CASE Paint /\ UNCHANGED callVars
  BY <1>31, <1>0 DEF Paint, Fields
<1>32. CASE UNCHANGED shownVars
  BY <1>32, <1>0 DEF shownVars, Fields
<1> QED
  BY <1>1, <1>2, <1>3, <1>4, <1>5, <1>6, <1>7, <1>8, <1>9, <1>10, <1>11, <1>12, <1>13,
     <1>14, <1>15, <1>16, <1>17, <1>18, <1>19, <1>20, <1>21, <1>22, <1>23, <1>24,
     <1>25, <1>26, <1>27, <1>28, <1>29, <1>30, <1>31, <1>32
  DEF ShownNext, MainStep, WorkStep, DrawerStep, ShownEnd

\* Only the display's goroutine has anything to do with the frame.
LEMMA WhoDraws ==
  ASSUME [ShownNext]_shownVars
  PROVE  \/ frame' = frame
         \/ \E final \in BOOLEAN : Draw(final) /\ (final => stop = "closed") /\ UNCHANGED callVars
         \/ Load /\ UNCHANGED callVars
         \/ Paint /\ UNCHANGED callVars
<1> USE DEF Goto, WorkerAt, Store, shownVars, displayVars, paintVars, callVars
<1>1. CASE Header
  BY <1>1 DEF Header, Say
<1>2. CASE StartRun
  BY <1>2 DEF StartRun, Run
<1>3. CASE SetPhase
  BY <1>3 DEF SetPhase
<1>4. CASE PhaseFails
  BY <1>4 DEF PhaseFails
<1>5. CASE PhasesEnd
  BY <1>5 DEF PhasesEnd
<1>6. CASE StartKind
  BY <1>6 DEF StartKind, Starts
<1>7. CASE StartTotal
  BY <1>7 DEF StartTotal
<1>8. CASE StartClock
  BY <1>8 DEF StartClock
<1>9. CASE StartEnds
  BY <1>9 DEF StartEnds
<1>10. CASE TransferReturns
  BY <1>10 DEF TransferReturns
<1>11. CASE WorkReturns
  BY <1>11 DEF WorkReturns
<1>12. CASE SetResult
  BY <1>12 DEF SetResult
<1>13. CASE Stop
  BY <1>13 DEF Stop, CloseStop
<1>14. CASE StopReturns
  BY <1>14 DEF StopReturns, Stopped
<1>15. CASE SayResult
  BY <1>15 DEF SayResult, Say
<1>16. CASE DeferredStop
  BY <1>16 DEF DeferredStop
<1>17. CASE command = "upload-fies" /\ FileIdx
  BY <1>17 DEF FileIdx
<1>18. CASE FileRest
  BY <1>18 DEF FileRest
<1>19. CASE ReadRows
  BY <1>19 DEF ReadRows
<1>20. CASE ReaderEnds
  BY <1>20 DEF ReaderEnds
<1>21. CASE Sent
  BY <1>21 DEF Sent
<1>22. CASE InserterEnds
  BY <1>22 DEF InserterEnds
<1>23. CASE WatchSize
  BY <1>23 DEF WatchSize
<1>24. CASE WatchFile
  BY <1>24 DEF WatchFile
<1>25. CASE SetRead
  BY <1>25 DEF SetRead
<1>26. CASE PollQuery
  BY <1>26 DEF PollQuery
<1>27. CASE WatcherEnds
  BY <1>27 DEF WatcherEnds
<1>28. CASE Tick /\ UNCHANGED callVars
  BY <1>28 DEF Tick
<1>29. CASE TakeStop /\ UNCHANGED callVars
  BY <1>29 DEF TakeStop
<1>30. CASE Load /\ UNCHANGED callVars
  BY <1>30
<1>31. CASE Paint /\ UNCHANGED callVars
  BY <1>31
<1>32. CASE UNCHANGED shownVars
  BY <1>32 DEF shownVars
<1> QED
  BY <1>1, <1>2, <1>3, <1>4, <1>5, <1>6, <1>7, <1>8, <1>9, <1>10, <1>11, <1>12, <1>13,
     <1>14, <1>15, <1>16, <1>17, <1>18, <1>19, <1>20, <1>21, <1>22, <1>23, <1>24,
     <1>25, <1>26, <1>27, <1>28, <1>29, <1>30, <1>31, <1>32
  DEF ShownNext, MainStep, WorkStep, DrawerStep, ShownEnd

\* What is loaded of a frame that draw begins.
LEMMA NothingLoaded ==
  ASSUME NEW kind \in Kinds, NEW final \in BOOLEAN
  PROVE  /\ kind = "rows" => ~Loaded("total", Loads(kind, final))
         /\ kind \in {"rows", "stream"} => ~Loaded("sent", Loads(kind, final))
         /\ kind = "rows" /\ ~final =>
              /\ ~Loaded("read", Loads(kind, final)) /\ ~Loaded("idx", Loads(kind, final))
              /\ ~Loaded("name", Loads(kind, final))
<1>1. CASE kind = "rows" /\ ~final
  <2>1. Loads(kind, final) = <<"total", "sent", "rows", "read", "idx", "name">>
    BY <1>1 DEF Loads
  <2>2. /\ ~Loaded("total", <<"total", "sent", "rows", "read", "idx", "name">>)
        /\ ~Loaded("sent", <<"total", "sent", "rows", "read", "idx", "name">>)
        /\ ~Loaded("read", <<"total", "sent", "rows", "read", "idx", "name">>)
        /\ ~Loaded("idx", <<"total", "sent", "rows", "read", "idx", "name">>)
        /\ ~Loaded("name", <<"total", "sent", "rows", "read", "idx", "name">>)
    BY DEF Loaded
  <2> QED BY <2>1, <2>2
<1>2. CASE kind = "rows" /\ final
  <2>1. Loads(kind, final) = <<"total", "sent">>
    BY <1>2 DEF Loads
  <2>2. ~Loaded("total", <<"total", "sent">>) /\ ~Loaded("sent", <<"total", "sent">>)
    BY DEF Loaded
  <2> QED BY <1>2, <2>1, <2>2
<1>3. CASE kind = "stream"
  <2>1. Loads(kind, final) = <<"sent">>
    BY <1>3 DEF Loads
  <2>2. ~Loaded("sent", <<"sent">>)
    BY DEF Loaded
  <2> QED BY <1>3, <2>1, <2>2
<1> QED BY <1>1, <1>2, <1>3 DEF Kinds

\* A frame that draw begins.
LEMMA DrawIs ==
  ASSUME CallTypes, StartInv, NEW final \in BOOLEAN, Draw(final)
  PROVE  \E kind \in Kinds \cup {"spinner", "nothing"} :
           /\ frame' = [kind |-> kind, final |-> final, load |-> Loads(kind, final),
                        seen |-> NoFields]
           /\ field' = field
           /\ kind \in Kinds => kind = KindOf /\ field.start
<1>1. field.kind \in Kinds
  BY DEF CallTypes, Fields
<1> DEFINE kind == IF field.busy THEN "spinner" ELSE IF field.start THEN field.kind ELSE "nothing"
<1>2. frame' = [kind |-> kind, final |-> final, load |-> Loads(kind, final), seen |-> NoFields]
      /\ field' = field
  BY DEF Draw, NoFrame
<1>3. kind \in Kinds \cup {"spinner", "nothing"} /\ (kind \in Kinds => kind = KindOf /\ field.start)
  BY <1>1 DEF StartInv, Kinds
<1> QED BY <1>2, <1>3

\* Every step keeps what the goroutine has loaded.
LEMMA StepFrame ==
  ASSUME CallTypes, DrawerInv, ReporterInv, StartInv, FileInv, SentInv, FrameInv,
         [ShownNext]_shownVars, CallTypes'
  PROVE  FrameInv'
<1>0. /\ KindOf' = KindOf /\ Total \in Nat
      /\ (field.start => field'.start) /\ (failed => failed')
      /\ failed \in BOOLEAN /\ failed' \in BOOLEAN
  BY SameCommand, FieldsGrow, BeforeType DEF CallTypes
<1>1. CASE frame' = frame
  <2> HIDE DEF Total
  <2> QED BY <1>0, <1>1 DEF FrameInv
<1>2. ASSUME NEW final \in BOOLEAN, Draw(final) PROVE FrameInv'
  <2>1. PICK kind \in Kinds \cup {"spinner", "nothing"} :
          /\ frame' = [kind |-> kind, final |-> final, load |-> Loads(kind, final),
                       seen |-> NoFields]
          /\ field' = field
          /\ kind \in Kinds => kind = KindOf /\ field.start
    BY <1>2, DrawIs
  <2>2. /\ frame'.kind = kind /\ frame'.final = final /\ frame'.load = Loads(kind, final)
        /\ frame'.seen.sent = 0
    BY <2>1 DEF NoFields
  <2>3. Loads(kind, final) \in StillToLoad
    BY LoadsIs
  <2>4. kind \notin Kinds => Loads(kind, final) = <<>>
    BY DEF Loads, Kinds
  <2>5. /\ kind = "rows" => ~Loaded("total", Loads(kind, final))
        /\ kind \in {"rows", "stream"} => ~Loaded("sent", Loads(kind, final))
    BY NothingLoaded DEF Kinds
  <2> HIDE DEF Total
  <2> QED BY <1>0, <2>1, <2>2, <2>3, <2>4, <2>5 DEF FrameInv
<1>3. CASE Load /\ UNCHANGED callVars
  <2> DEFINE next == Head(frame.load)
             load == Tail(frame.load)
  <2>1. /\ next \in FieldNames /\ frame'.load = load /\ load \in StillToLoad
        /\ frame'.kind = frame.kind /\ frame'.final = frame.final
        /\ frame'.seen = [frame.seen EXCEPT ![next] = field[next]]
    BY <1>3, LoadIs DEF FrameInv
  <2>2. frame.load # <<>> /\ drawer = "drawing" /\ field' = field /\ main' = main
        /\ failed' = failed
    BY <1>3 DEF Load, callVars
  <2>3. frame.kind \in Kinds /\ frame.kind = KindOf /\ field.start
    BY <2>2 DEF FrameInv
  <2>4. \A f \in FieldNames : Loaded(f, load) <=> Loaded(f, frame.load) \/ f = next
    BY <2>2, ToLoad DEF FrameInv
  <2>5. frame.seen \in Fields /\ field \in Fields
    BY DEF CallTypes, Frames
  <2> HIDE DEF next, load
  <2>6. /\ frame'.seen.total = IF next = "total" THEN field.total ELSE frame.seen.total
        /\ frame'.seen.sent = IF next = "sent" THEN field.sent ELSE frame.seen.sent
    BY <2>1, <2>5 DEF Fields
  <2>7. KindOf = "rows" => field.total = Total
    BY <2>3 DEF StartInv
  <2>8. frame.final /\ ~failed /\ frame.kind \in {"rows", "stream"} => field.sent = Total
    <3>1. frame.final => main = "stopping"
      BY <2>2 DEF DrawerInv, CallTypes
    <3> QED BY <2>3, <3>1 DEF SentInv, AfterWork
  <2>9. field.sent <= Total /\ frame.seen.sent <= Total
    BY DEF SentInv, FrameInv
  <2> HIDE DEF Total
  <2>10. frame'.kind = "rows" /\ Loaded("total", load) => frame'.seen.total = Total
    BY <2>1, <2>3, <2>4, <2>6, <2>7 DEF FrameInv, FieldNames
  <2>11. frame'.final /\ ~failed /\ frame'.kind \in {"rows", "stream"} /\ Loaded("sent", load)
           => frame'.seen.sent = Total
    BY <2>1, <2>4, <2>6, <2>8 DEF FrameInv, FieldNames
  <2>12. frame'.seen.sent <= Total
    BY <2>6, <2>9
  <2> QED BY <1>0, <2>1, <2>2, <2>3, <2>10, <2>11, <2>12 DEF FrameInv
<1>4. CASE Paint /\ UNCHANGED callVars
  <2>1. CASE frame' = frame
    BY <1>1, <2>1
  <2>2. CASE frame' = NoFrame
    <3>1. frame'.kind = "nothing" /\ frame'.load = <<>> /\ frame'.seen.sent = 0 /\ ~frame'.final
      BY <2>2 DEF NoFrame, NoFields
    <3>2. <<>> \in StillToLoad
      BY DEF StillToLoad
    <3> HIDE DEF Total
    <3> QED BY <1>0, <3>1, <3>2 DEF FrameInv, Kinds
  <2> QED BY <1>4, <2>1, <2>2 DEF Paint
<1> QED BY <1>1, <1>2, <1>3, <1>4, WhoDraws

\* Every step keeps which files a frame is of.
LEMMA StepTear ==
  ASSUME CallTypes, ReporterInv, FileInv, FrameInv, TearInv, [ShownNext]_shownVars, CallTypes'
  PROVE  TearInv'
<1> SUFFICES ASSUME command = "upload-fies" PROVE TearInv'
  BY SameCommand DEF TearInv
<1>0. /\ field'.idx >= field.idx /\ field'.name >= field.name
      /\ field'.read.of >= field.read.of
      /\ Len(Files) \in Nat
  BY FieldsGrow, FilesAssumption
<1>1. field \in Fields /\ field' \in Fields /\ frame.seen \in Fields
  BY DEF CallTypes, Frames
<1>2. CASE frame' = frame
  <2>1. /\ field.idx \in Nat /\ field.name \in Nat /\ field.read.of \in Nat
        /\ field'.idx \in Nat /\ field'.name \in Nat /\ field'.read.of \in Nat
        /\ frame.seen.rows \in Nat
    BY <1>1 DEF Fields
  <2>2. /\ field.idx >= frame.seen.rows /\ field.name >= frame.seen.rows
        /\ field.read.of >= frame.seen.rows - 1
    BY DEF TearInv
  <2>3. /\ field'.idx >= frame.seen.rows /\ field'.name >= frame.seen.rows
        /\ field'.read.of >= frame.seen.rows - 1
    BY <1>0, <2>1, <2>2
  <2> QED BY <1>2, <2>3 DEF TearInv
<1>3. ASSUME NEW final \in BOOLEAN, Draw(final) PROVE TearInv'
  <2>1. PICK kind : frame' = [kind |-> kind, final |-> final, load |-> Loads(kind, final),
                              seen |-> NoFields]
    BY <1>3 DEF Draw, NoFrame
  <2>2. /\ frame'.kind = kind /\ frame'.final = final /\ frame'.load = Loads(kind, final)
        /\ frame'.seen.rows = 0 /\ frame'.seen.read.of = 0 /\ frame'.seen.read.n = 0
    BY <2>1 DEF NoFields
  <2>3. kind = "rows" /\ ~final =>
          /\ ~Loaded("read", Loads(kind, final)) /\ ~Loaded("idx", Loads(kind, final))
          /\ ~Loaded("name", Loads(kind, final))
    BY NothingLoaded DEF Kinds
  <2> QED BY <1>0, <1>1, <2>2, <2>3 DEF TearInv, Fields
<1>4. CASE Load /\ UNCHANGED callVars
  <2> DEFINE next == Head(frame.load)
             load == Tail(frame.load)
  <2>1. /\ next \in FieldNames /\ frame'.load = load
        /\ frame'.kind = frame.kind /\ frame'.final = frame.final
        /\ frame'.seen = [frame.seen EXCEPT ![next] = field[next]]
    BY <1>4, LoadIs DEF FrameInv
  <2>2. frame.load # <<>> /\ field' = field
    BY <1>4 DEF Load
  <2>3. /\ \A f \in FieldNames : Loaded(f, load) <=> Loaded(f, frame.load) \/ f = next
        /\ next = "rows" => load = <<"read", "idx", "name">>
    BY <2>2, ToLoad DEF FrameInv
  <2> HIDE DEF next, load
  <2>4. next = "rows" => ~Loaded("read", load) /\ ~Loaded("idx", load) /\ ~Loaded("name", load)
    <3>1. /\ ~Loaded("read", <<"read", "idx", "name">>) /\ ~Loaded("idx", <<"read", "idx", "name">>)
          /\ ~Loaded("name", <<"read", "idx", "name">>)
      BY DEF Loaded
    <3> QED BY <2>3, <3>1
  <2> DEFINE s == frame.seen
             t == frame'.seen
  <2>5. /\ t.rows = IF next = "rows" THEN field.rows ELSE s.rows
        /\ t.read = IF next = "read" THEN field.read ELSE s.read
        /\ t.idx = IF next = "idx" THEN field.idx ELSE s.idx
        /\ t.name = IF next = "name" THEN field.name ELSE s.name
    BY <1>1, <2>1 DEF Fields
  <2>6. /\ field.rows <= field.idx /\ field.rows <= field.name /\ field.read.of >= field.rows - 1
        /\ field.read.of <= Len(Files)
        /\ field.read.n <= IF field.read.of = 0 THEN 0 ELSE Files[field.read.of]
    BY <1>0 DEF FileInv, CallTypes, Workers
  <2>7. /\ field.idx >= s.rows /\ field.name >= s.rows /\ field.read.of >= s.rows - 1
        /\ s.read.of <= Len(Files)
        /\ s.read.n <= IF s.read.of = 0 THEN 0 ELSE Files[s.read.of]
        /\ frame.kind = "rows" /\ ~frame.final =>
             /\ Loaded("read", frame.load) => s.read.of >= s.rows - 1
             /\ Loaded("idx", frame.load) => s.idx >= s.rows
             /\ Loaded("name", frame.load) => s.name >= s.rows
    BY DEF TearInv
  <2>8. t.read = field.read \/ t.read = s.read
    BY <2>5
  <2>9. /\ t.read.of <= Len(Files)
        /\ t.read.n <= IF t.read.of = 0 THEN 0 ELSE Files[t.read.of]
    BY <2>6, <2>7, <2>8
  <2>10. field.idx >= t.rows /\ field.name >= t.rows /\ field.read.of >= t.rows - 1
    BY <2>5, <2>6, <2>7
  <2>11. frame.kind = "rows" /\ ~frame.final /\ Loaded("read", load) => t.read.of >= t.rows - 1
    BY <2>3, <2>4, <2>5, <2>7 DEF FieldNames
  <2>12. frame.kind = "rows" /\ ~frame.final /\ Loaded("idx", load) => t.idx >= t.rows
    BY <2>3, <2>4, <2>5, <2>7 DEF FieldNames
  <2>13. frame.kind = "rows" /\ ~frame.final /\ Loaded("name", load) => t.name >= t.rows
    BY <2>3, <2>4, <2>5, <2>7 DEF FieldNames
  <2> QED BY <2>1, <2>2, <2>9, <2>10, <2>11, <2>12, <2>13 DEF TearInv
<1>5. CASE Paint /\ UNCHANGED callVars
  <2>1. CASE frame' = frame
    BY <1>2, <2>1
  <2>2. CASE frame' = NoFrame
    <3>1. /\ frame'.kind = "nothing" /\ frame'.seen.rows = 0 /\ frame'.seen.read.of = 0
          /\ frame'.seen.read.n = 0
      BY <2>2 DEF NoFrame, NoFields
    <3> QED BY <1>0, <1>1, <3>1 DEF TearInv, Fields
  <2> QED BY <1>5, <2>1, <2>2 DEF Paint
<1> QED BY <1>2, <1>3, <1>4, <1>5, WhoDraws
-----------------------------------------------------------------------------
\* It is a sequence of lines, the title, the frame and the result.
LEMMA TextIs ==
  ASSUME NEW m, NEW l \in Seq(LineNames)
  PROVE  /\ Text(m, l) \in Seq(LineNames)
         /\ m = "header" => Text(m, l) = l
         /\ m \notin {"header", "deferred", "ended"} => Text(m, l) = <<"header">> \o l
         /\ m \in {"deferred", "ended"} => Text(m, l) = (<<"header">> \o l) \o <<"result">>
<1>1. <<"header">> \in Seq(LineNames) /\ <<"result">> \in Seq(LineNames)
      /\ <<>> \in Seq(LineNames)
  BY DEF LineNames
<1> HIDE DEF LineNames
<1>2. /\ <<"header">> \o l \in Seq(LineNames) /\ <<>> \o l = l
      /\ (<<"header">> \o l) \o <<"result">> \in Seq(LineNames)
      /\ (<<"header">> \o l) \o <<>> = <<"header">> \o l
      /\ l \o <<>> = l
  <2>1. <<"header">> \o l \in Seq(LineNames)
    BY <1>1, ConcatProperties
  <2> DEFINE h == <<"header">> \o l
  <2> HIDE DEF h
  <2>2. h \o <<"result">> \in Seq(LineNames)
    BY <1>1, <2>1, ConcatProperties DEF h
  <2>3. h \o <<>> = h
    BY <2>1, ConcatEmptySeq DEF h
  <2>4. l \o <<>> = l /\ <<>> \o l = l
    BY ConcatEmptySeq
  <2> QED BY <2>1, <2>2, <2>3, <2>4 DEF h
<1>3. CASE m = "header"
  BY <1>2, <1>3 DEF Text
<1>4. CASE m \notin {"header", "deferred", "ended"}
  BY <1>2, <1>4 DEF Text
<1>5. CASE m \in {"deferred", "ended"}
  BY <1>2, <1>5 DEF Text
<1> QED BY <1>3, <1>4, <1>5

\* The lines of a frame.
LEMMA LinesAre ==
  ASSUME NEW f
  PROVE  Lines(f) \in Seq(LineNames)
<1>1. /\ <<>> \in Seq(LineNames) /\ <<"spinner">> \in Seq(LineNames)
      /\ <<"bar", "stats", "file">> \in Seq(LineNames) /\ <<"bar", "stats">> \in Seq(LineNames)
  BY DEF LineNames
<1> HIDE DEF LineNames
<1>2. Lines(f) \in {<<>>, <<"spinner">>, <<"bar", "stats", "file">>, <<"bar", "stats">>}
  BY DEF Lines
<1> QED BY <1>1, <1>2

\* Most steps write nothing, and are not about the title or the result.
LEMMA WhoWrites ==
  ASSUME CallTypes, DrawerInv, ScreenInv, [ShownNext]_shownVars
  PROVE  \/ Header
         \/ SayResult
         \/ Paint /\ UNCHANGED callVars
         \/ /\ UNCHANGED <<paintVars, tty>> /\ Text(main', last') = Text(main, last)
            /\ main' \in {"header", "run"} => main = main'
<1> USE DEF Goto, WorkerAt, Store, shownVars, displayVars, paintVars, callVars
<1>1. CASE Header
  BY <1>1 DEF Header
<1>2. CASE StartRun
  BY <1>2 DEF StartRun, Run, Text
<1>3. CASE SetPhase
  BY <1>3 DEF SetPhase, Text
<1>4. CASE PhaseFails
  BY <1>4 DEF PhaseFails, Text
<1>5. CASE PhasesEnd
  BY <1>5 DEF PhasesEnd, Text
<1>6. CASE StartKind
  BY <1>6 DEF StartKind, Starts, Text
<1>7. CASE StartTotal
  BY <1>7 DEF StartTotal, Text
<1>8. CASE StartClock
  BY <1>8 DEF StartClock, Text
<1>9. CASE StartEnds
  BY <1>9 DEF StartEnds, Text
<1>10. CASE TransferReturns
  BY <1>10 DEF TransferReturns, Text
<1>11. CASE WorkReturns
  BY <1>11 DEF WorkReturns, Text
<1>12. CASE SetResult
  BY <1>12 DEF SetResult, Text
<1>13. CASE Stop
  BY <1>13 DEF Stop, CloseStop, Text
<1>14. CASE StopReturns
  BY <1>14 DEF StopReturns, Stopped, Text
<1>15. CASE SayResult
  BY <1>15 DEF SayResult
<1>16. CASE DeferredStop
  BY <1>16 DEF DeferredStop, Text
<1>17. CASE command = "upload-fies" /\ FileIdx
  BY <1>17 DEF FileIdx, Text
<1>18. CASE FileRest
  BY <1>18 DEF FileRest, Text
<1>19. CASE ReadRows
  BY <1>19 DEF ReadRows, Text
<1>20. CASE ReaderEnds
  BY <1>20 DEF ReaderEnds, Text
<1>21. CASE Sent
  BY <1>21 DEF Sent, Text
<1>22. CASE InserterEnds
  BY <1>22 DEF InserterEnds, Text
<1>23. CASE WatchSize
  BY <1>23 DEF WatchSize, Text
<1>24. CASE WatchFile
  BY <1>24 DEF WatchFile, Text
<1>25. CASE SetRead
  BY <1>25 DEF SetRead, Text
<1>26. CASE PollQuery
  BY <1>26 DEF PollQuery, Text
<1>27. CASE WatcherEnds
  BY <1>27 DEF WatcherEnds, Text
<1>28. CASE Tick /\ UNCHANGED callVars
  BY <1>28 DEF Tick, Draw, Text
<1>29. CASE TakeStop /\ UNCHANGED callVars
  BY <1>29 DEF TakeStop, Draw, Text
<1>30. CASE Load /\ UNCHANGED callVars
  BY <1>30 DEF Load, Text
<1>31. CASE Paint /\ UNCHANGED callVars
  BY <1>31, Zenon
<1>32. CASE UNCHANGED shownVars
  BY <1>32 DEF shownVars, Text
<1> QED
  BY <1>1, <1>2, <1>3, <1>4, <1>5, <1>6, <1>7, <1>8, <1>9, <1>10, <1>11, <1>12, <1>13,
     <1>14, <1>15, <1>16, <1>17, <1>18, <1>19, <1>20, <1>21, <1>22, <1>23, <1>24,
     <1>25, <1>26, <1>27, <1>28, <1>29, <1>30, <1>31, <1>32
  DEF ShownNext, MainStep, WorkStep, DrawerStep, ShownEnd

\* Every step keeps what the terminal shows.
LEMMA StepScreen ==
  ASSUME CallTypes, DrawerInv, ScreenInv, [ShownNext]_shownVars
  PROVE  ScreenInv'
<1> DEFINE R == LineNames
<1>1. screen \in Seq(R) /\ last \in Seq(R) /\ Shows(screen, cursor, Text(main, last))
  BY DEF ScreenInv
<1>2. "header" \in R /\ "result" \in R /\ "plain" \in R /\ "blank" \in R /\ <<"header">> \in Seq(R)
  BY DEF LineNames
<1>4. CASE UNCHANGED <<paintVars, tty>> /\ Text(main', last') = Text(main, last)
           /\ (main' \in {"header", "run"} => main = main')
  BY <1>4 DEF ScreenInv, paintVars
<1>5. CASE Header
  <2>1. /\ main = "header" /\ main' = "run" /\ last = <<>> /\ last' = last /\ tty' = tty
        /\ drawn' = drawn /\ WriteLine("header")
    BY <1>5 DEF Header, Say, Goto, ScreenInv
  <2>2. Text(main, last) = <<>> /\ Text(main', last') = <<"header">> \o last
    BY <1>1, <2>1, TextIs
  <2>3. <<"header">> \o <<>> = <<"header">> /\ <<>> \o <<"header">> = <<"header">>
        /\ <<>> \in Seq(R)
    OBVIOUS
  <2> HIDE DEF R
  <2>4. screen' \in Seq(R) /\ Shows(screen', cursor', <<>> \o <<"header">>)
    BY <1>1, <1>2, <2>1, <2>2, <2>3, WrittenShows
  <2>5. Shows(screen', cursor', Text(main', last'))
    BY <2>1, <2>2, <2>3, <2>4
  <2> QED BY <1>1, <2>1, <2>4, <2>5 DEF ScreenInv, R
<1>6. CASE SayResult
  <2>1. /\ main = "say" /\ main' = "deferred" /\ last' = last /\ tty' = tty
        /\ drawn' = drawn /\ WriteLine("result")
    BY <1>6 DEF SayResult, Say, Goto
  <2> DEFINE h == <<"header">> \o last
  <2>2. Text(main, last) = h /\ Text(main', last') = h \o <<"result">> /\ h \in Seq(R)
    BY <1>1, <2>1, TextIs
  <2> HIDE DEF R, h
  <2>3. screen' \in Seq(R) /\ Shows(screen', cursor', h \o <<"result">>)
    BY <1>1, <1>2, <2>1, <2>2, WrittenShows
  <2> QED BY <1>1, <2>1, <2>2, <2>3 DEF ScreenInv, R
<1>7. CASE Paint /\ UNCHANGED callVars
  <2>1. main \in {"phases", "total", "start", "clear", "work", "result", "stop", "stopping"}
        /\ main' = main /\ tty' = tty /\ tty \in BOOLEAN
    BY <1>7 DEF Paint, DrawerInv, CallTypes, callVars
  <2> DEFINE h == <<"header">>
             lines == Lines(frame)
  <2>2. Text(main, last) = h \o last
    BY <1>1, <2>1, TextIs
  <2>3. lines \in Seq(R)
    BY LinesAre
  <2>4. CASE tty
    <3>1. Redraw(lines) /\ drawn' = Len(lines) /\ last' = lines
      BY <1>7, <2>4 DEF Paint
    <3>2. drawn = Len(last)
      BY <2>4 DEF ScreenInv
    <3> HIDE DEF R, h, lines
    <3>3. screen' \in Seq(R) /\ Shows(screen', cursor', h \o lines)
      BY <1>1, <1>2, <2>2, <2>3, <3>1, <3>2, RedrawnShows DEF h
    <3>4. Text(main', last') = h \o lines
      BY <2>1, <2>3, <3>1, TextIs DEF h, R
    <3> QED BY <2>1, <2>3, <2>4, <3>1, <3>3, <3>4 DEF ScreenInv, R
  <2>5. CASE ~tty /\ lines = <<>>
    <3>1. UNCHANGED <<screen, cursor, last, drawn>>
      BY <1>7, <2>5 DEF Paint
    <3> HIDE DEF lines
    <3>2. Text(main', last') = Text(main, last)
      BY <2>1, <3>1
    <3> QED BY <1>1, <2>1, <2>5, <3>1, <3>2 DEF ScreenInv
  <2>6. CASE ~tty /\ lines # <<>>
    <3>1. WriteLine("plain") /\ last' = <<"plain">> /\ drawn' = drawn
      BY <1>7, <2>6 DEF Paint
    <3>2. last' \in Seq(R) /\ Text(main', last') = h \o <<"plain">>
      <4>1. <<"plain">> \in Seq(R)
        BY <1>2
      <4> QED BY <2>1, <3>1, <4>1, TextIs
    <3> HIDE DEF lines
    <3>3. CASE last = <<>>
      <4>1. h \o last = h /\ h # <<>> /\ h[Len(h)] # "plain"
        BY <3>3
      <4> HIDE DEF R, h
      <4>2. h \in Seq(R)
        BY <1>2 DEF h
      <4>3. screen' \in Seq(R) /\ Shows(screen', cursor', h \o <<"plain">>)
        BY <1>1, <1>2, <2>2, <3>1, <4>1, <4>2, WrittenShows
      <4> QED BY <2>1, <2>6, <3>1, <3>2, <4>3 DEF ScreenInv, R
    <3>4. CASE last = <<"plain">>
      <4>1. Len(h \o last) = 2 /\ (h \o last)[2] = "plain"
        BY <3>4
      <4>2. cursor = 3 /\ screen[2] = "plain"
        BY <1>1, <2>2, <4>1 DEF Shows
      <4>3. UNCHANGED <<screen, cursor>>
        BY <3>1, <4>2 DEF WriteLine
      <4>4. Text(main', last') = Text(main, last)
        BY <2>1, <3>1, <3>4
      <4> QED BY <1>1, <2>1, <2>6, <3>1, <3>2, <3>4, <4>3, <4>4 DEF ScreenInv
    <3> QED BY <2>6, <3>3, <3>4 DEF ScreenInv
  <2> QED BY <2>4, <2>5, <2>6
<1> QED BY <1>4, <1>5, <1>6, <1>7, WhoWrites
-----------------------------------------------------------------------------
\* The types, taken together.
LEMMA AllTypes ==
  ASSUME CallTypes, ScreenInv
  PROVE  ShownTypeOK
<1>1. drawn \in Nat
  BY DEF ScreenInv
<1>2. cursor \in 1..(Len(screen) + 1)
  <2> DEFINE s == screen
             n == Len(s)
             k == Len(Text(main, last))
  <2>1. n \in Nat /\ k \in Nat /\ s \in Seq(LineNames)
    BY TextIs DEF ScreenInv
  <2>2. cursor = k + 1 /\ k <= n
    BY DEF ScreenInv, Shows
  <2> HIDE DEF n, k
  <2>3. cursor \in 1..(n + 1)
    BY <2>1, <2>2
  <2> QED BY <2>3 DEF n
<1> QED BY <1>1, <1>2 DEF CallTypes, ScreenInv, ShownTypeOK, DisplayTypeOK

\* The display as New makes it, before any command begins.
LEMMA FirstState ==
  ASSUME ShownInit
  PROVE  ShownInv
<1>1. /\ main = "header" /\ drawer = "off" /\ stop = "nil" /\ frame = NoFrame /\ field = NoFields
      /\ worker = [pc |-> "off", file |-> 0, n |-> 0] /\ inserter = "off" /\ failed = FALSE
      /\ doneClosed = FALSE /\ command \in Commands /\ tty \in BOOLEAN
      /\ drawn = 0 /\ last = <<>> /\ screen = <<>> /\ cursor = 1
  BY DEF ShownInit, DisplayInit
<1>2. Total \in Nat /\ Len(Files) \in Nat
  BY BeforeType, FilesAssumption
<1>3. CallTypes
  <2>1. field \in Fields
    BY <1>1 DEF NoFields, Fields, Kinds
  <2>2. <<>> \in Seq(FieldNames)
    OBVIOUS
  <2>3. frame \in Frames
    BY <1>1, <2>1, <2>2 DEF NoFrame, Frames
  <2>4. worker \in Workers
    BY <1>1, <1>2 DEF Workers
  <2> QED BY <1>1, <2>1, <2>3, <2>4 DEF CallTypes
<1>4. DrawerInv /\ ReporterInv
  BY <1>1 DEF DrawerInv, ReporterInv, BeforeWork, AfterWork, Commands
<1>5. WatchInv /\ StartInv /\ SentInv
  BY <1>1, <1>2 DEF WatchInv, StartInv, SentInv, BeforeWork, AfterWork, NoFields
<1>6. FileInv
  BY <1>1 DEF FileInv, NoFields
<1>7. FrameInv
  <2>1. <<>> \in StillToLoad
    BY DEF StillToLoad
  <2> QED BY <1>1, <1>2, <2>1 DEF FrameInv, NoFrame, NoFields, Kinds
<1>8. TearInv
  BY <1>1, <1>2 DEF TearInv, NoFrame, NoFields
<1>9. ScreenInv
  <2>1. <<>> \in Seq(LineNames)
    OBVIOUS
  <2>2. Text(main, last) = <<>>
    BY <1>1, <2>1, TextIs
  <2>3. Shows(screen, cursor, Text(main, last))
    <3>1. Shows(<<>>, 1, <<>>)
      BY DEF Shows
    <3> QED BY <1>1, <2>2, <3>1
  <2> QED BY <1>1, <2>1, <2>3 DEF ScreenInv
<1> QED BY <1>3, <1>4, <1>5, <1>6, <1>7, <1>8, <1>9, AllTypes DEF ShownInv

\* Every step of a command, of its goroutines and of the display keeps it all.
LEMMA StepShown ==
  ASSUME ShownInv, [ShownNext]_shownVars
  PROVE  ShownInv'
<1>1. /\ DrawerInv /\ ReporterInv /\ WatchInv /\ StartInv /\ FileInv /\ SentInv
      /\ FrameInv /\ TearInv /\ ScreenInv
  BY DEF ShownInv
<1>2. CallTypes
  BY DEF ShownInv, ShownTypeOK, DisplayTypeOK, CallTypes
<1>3. CallTypes'
  BY <1>1, <1>2, StepCallTypes DEF FrameInv
<1>4. DrawerInv' /\ ReporterInv' /\ StartInv'
  BY <1>1, <1>2, StepDrawer, StepReporter, StepStart
<1>5. WatchInv' /\ FileInv' /\ SentInv'
  BY <1>1, <1>2, StepWatch, StepFile, StepSent
<1>6. FrameInv' /\ TearInv'
  BY <1>1, <1>2, <1>3, StepFrame, StepTear
<1>7. ScreenInv'
  BY <1>1, <1>2, StepScreen
<1>8. ShownTypeOK'
  <2>1. CallTypes /\ ScreenInv => ShownTypeOK
    BY AllTypes
  <2>2. (CallTypes /\ ScreenInv => ShownTypeOK)'
    BY AllTypes, PTL
  <2> QED BY <1>3, <1>7, <2>2
<1> QED BY <1>4, <1>5, <1>6, <1>7, <1>8 DEF ShownInv

(***************************************************************************)
(* Every reachable state of a command and its display satisfies the        *)
(* inductive invariant, for input files of any number and size.            *)
(***************************************************************************)
THEOREM ShownInvariance == ShownSpec => []ShownInv
<1>1. ShownInit => ShownInv
  BY FirstState
<1>2. ShownInv /\ [ShownNext]_shownVars => ShownInv'
  BY StepShown
<1> QED BY <1>1, <1>2, PTL DEF ShownSpec

(***************************************************************************)
(* The terminal always shows the title, the last frame and the result, and *)
(* nothing of a frame before it: the count of drawn lines that Paint moves *)
(* up by is right whatever frames follow each other.                       *)
(***************************************************************************)
THEOREM ScreenAlwaysClean == ShownSpec => []ScreenIsClean
<1>1. ShownInv => ScreenIsClean
  <2> SUFFICES ASSUME ShownInv PROVE ScreenIsClean
    OBVIOUS
  <2>1. screen \in Seq(LineNames) /\ last \in Seq(LineNames)
        /\ Shows(screen, cursor, Text(main, last))
    BY DEF ShownInv, ScreenInv
  <2>2. Text(main, last) \in Seq(LineNames)
    BY <2>1, TextIs
  <2>3. cursor = Len(Text(main, last)) + 1 /\ Len(Text(main, last)) <= Len(screen)
    BY <2>1, Zenon DEF Shows
  <2>4. Visible(Text(main, last))
    BY <2>1, <2>2, <2>3, ShowsIsVisible
  <2> QED BY <2>4 DEF ScreenIsClean, Text, Said, Result
<1> QED BY <1>1, ShownInvariance, PTL

(***************************************************************************)
(* No frame is ever drawn of another kind than the command's, without its  *)
(* total, or with more rows than there are, although the display reads     *)
(* while the command stores.                                               *)
(***************************************************************************)
THEOREM FrameAlwaysOfTask == ShownSpec => []FrameIsOfTask
<1>1. ShownInv => FrameIsOfTask
  BY DEF ShownInv, FrameInv, FrameIsOfTask, Loaded
<1> QED BY <1>1, ShownInvariance, PTL

(***************************************************************************)
(* A frame that mixes two files takes its index, its name and its rows     *)
(* from the file of its row count or a later one, wherever the stores of   *)
(* File fall between the loads of frame.                                   *)
(***************************************************************************)
THEOREM TearsAlwaysGoForward == ShownSpec => []TearsGoForward
<1>1. ShownInv => TearsGoForward
  BY DEF ShownInv, TearInv, TearsGoForward, Loaded
<1> QED BY <1>1, ShownInvariance, PTL

(***************************************************************************)
(* The last frame of a command that succeeded shows all of its rows: what  *)
(* was sent is whole before Stop is called, and Stop's frame loads it      *)
(* after that.                                                             *)
(***************************************************************************)
THEOREM FinalAlwaysExact == ShownSpec => []FinalIsExact
<1>1. ShownInv => FinalIsExact
  BY DEF ShownInv, DrawerInv, FrameInv, FinalIsExact, Loaded
<1> QED BY <1>1, ShownInvariance, PTL
=============================================================================
