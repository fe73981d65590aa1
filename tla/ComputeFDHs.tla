----------------------------- MODULE ComputeFDHs ----------------------------
(***************************************************************************)
(* compute-fdhs: computeFDHs, prepareFDHs and insertFDHs in                *)
(* cmd/fie-importer/compute_fdhs.go, with CountFDHSource, InsertFDHs,      *)
(* KillQuery and SummarizeFDHs in internal/clickhouse/fdhs.go.             *)
(*                                                                         *)
(* The command counts what the join of an FIE and a PD table should give,  *)
(* creates the table, has the server fill it by one INSERT ... SELECT and  *)
(* compares the table's rows with the count.  The query lives on the       *)
(* server: it may start after the client has given it up, it inserts block *)
(* by block, and it goes on when the client is gone.  Its input tables     *)
(* belong to others, an upload may still be filling them, so they may grow *)
(* at any time.                                                            *)
(***************************************************************************)
EXTENDS TableRun, FiniteSets

CONSTANTS
  FIEs,         \* FIEs with a near reply that are in the FIE table or may get there
  PDs,          \* the identifiers of the PDs
  PDOf,         \* the pd_id of each FIE
  Inputs,       \* what the two tables may hold at first
  MaxGrowth,    \* how often they may grow
  MaxCopies     \* how many rows of the PD table may have the same pd_id

ASSUME InputAssumption ==
  /\ FIEs \subseteq Nat /\ IsFiniteSet(FIEs)
  /\ PDOf \in [FIEs -> PDs]
  /\ MaxGrowth \in Nat /\ MaxCopies \in Nat
  /\ Inputs \subseteq [fies : SUBSET FIEs, pds : [PDs -> 0..MaxCopies]]

VARIABLES
  fies,         \* the FIEs with a near reply in the FIE table
  pds,          \* how many rows of the PD table have each pd_id
  growth,       \* how often the two tables grew
  src,          \* the FDHSource of the run, once it is counted
  counted,      \* the FIEs that were counted in it (what no code keeps)
  client,       \* where insertFDHs is
  query,        \* the INSERT ... SELECT on the server
  into,         \* whose table it found under the name when it started
  todo,         \* how many rows the query has still to insert for each FIE
  kill          \* what KILL QUERY did

inputVars == <<fies, pds, growth>>
queryVars == <<src, counted, client, query, into, todo, kill>>
vars == <<runVars, inputVars, queryVars>>

NotCounted == [nearFIEs |-> 0, missingPD |-> 0]

TypeOK ==
  /\ RunTypeOK
  /\ fies \subseteq FIEs
  /\ pds \in [PDs -> 0..MaxCopies]
  /\ growth \in 0..MaxGrowth
  /\ src \in [nearFIEs : Nat, missingPD : Nat]
  /\ counted \subseteq FIEs
  /\ client \in {"checking", "counted", "insert", "waiting", "kill", "returned"}
  /\ query \in {"none", "sent", "running", "complete", "failed"}
  /\ into \in {"none", "ours", "foreign"}
  /\ todo \in [FIEs -> Nat]
  /\ kill \in {"none", "failed", "missed", "done"}

Init ==
  /\ RunInit
  /\ \E i \in Inputs : fies = i.fies /\ pds = i.pds
  /\ growth = 0
  /\ src = NotCounted
  /\ counted = {}
  /\ client = "checking"
  /\ query = "none"
  /\ into = "none"
  /\ todo = [i \in FIEs |-> 0]
  /\ kill = "none"

\* FIE i has a PD in the PD table.
Found(i) == pds[PDOf[i]] > 0

\* Variant: an INNER JOIN, as in the insert.
JoinedByCopies ==
  LET copies(n) == {i \in fies : pds[PDOf[i]] >= n}
  IN  [nearFIEs |-> Cardinality(copies(1)) + Cardinality(copies(2)),
       missingPD |-> 0]

\* CountFDHSource: a LEFT ANY JOIN, in which a duplicated PD counts once.
CountFDHSource ==
  [nearFIEs |-> Cardinality(fies),
   missingPD |-> Cardinality({i \in fies : ~Found(i)})]

want == src.nearFIEs - src.missingPD

\* FDHInsertSQL: an INNER JOIN, in which a duplicated PD gives a row each.
FDHInsertSQL == [i \in FIEs |-> IF i \in fies THEN pds[PDOf[i]] ELSE 0]
-----------------------------------------------------------------------------
\* prepareFDHs: an input table that cannot be read, or that does not exist or
\* lacks a column.
CheckInputFails ==
  /\ phase = "create"
  /\ client = "checking"
  /\ \E e \in CallErrs("prepare", interrupted) : Return(e)
  /\ UNCHANGED <<server, rows, created, dropFailed, record, interrupted,
                 dropOnFail, inputVars, queryVars>>

\* The FIEs are counted; without one that has a PD nothing is created.
Count ==
  /\ phase = "create"
  /\ client = "checking"
  /\ LET s == CountFDHSource IN
       IF s.nearFIEs = s.missingPD
         THEN /\ Return("empty")
              /\ UNCHANGED <<src, counted, client>>
         ELSE /\ src' = s
              /\ counted' = {i \in fies : Found(i)}
              /\ client' = "counted"
              /\ UNCHANGED <<phase, err>>
  /\ UNCHANGED <<server, rows, created, dropFailed, record, interrupted,
                 dropOnFail, inputVars, query, into, todo, kill>>

CountFails ==
  /\ phase = "create"
  /\ client = "checking"
  /\ \E e \in CallErrs("read", interrupted) : Return(e)
  /\ UNCHANGED <<server, rows, created, dropFailed, record, interrupted,
                 dropOnFail, inputVars, queryVars>>

CreateFDHTable ==
  /\ client = "counted"
  /\ CreateTable
  /\ client' = "insert"
  /\ UNCHANGED <<inputVars, src, counted, query, into, todo, kill>>

CreateFDHTableFails ==
  /\ client = "counted"
  /\ CreateTableFails
  /\ UNCHANGED <<inputVars, queryVars>>

\* InsertFDHs sends the statement and waits.
InsertFDHs ==
  /\ phase = "fill"
  /\ client = "insert"
  /\ client' = "waiting"
  /\ query' = "sent"
  /\ UNCHANGED <<runVars, inputVars, src, counted, into, todo, kill>>

\* newQueryID fails: there is no query to kill.
NewQueryIDFails ==
  /\ phase = "fill"
  /\ client = "insert"
  /\ client' = "returned"
  /\ Return("insert")
  /\ UNCHANGED <<server, rows, created, dropFailed, record, interrupted,
                 dropOnFail, inputVars, src, counted, query, into, todo, kill>>

InsertSucceeds ==
  /\ phase = "fill"
  /\ client = "waiting"
  /\ query = "complete"
  /\ client' = "returned"
  /\ FillReturns(NoErr)
  /\ UNCHANGED <<server, rows, created, dropFailed, record, interrupted,
                 dropOnFail, inputVars, src, counted, query, into, todo, kill>>

\* Variant: the query is not killed.
InsertFailsUnkilled ==
  /\ phase = "fill"
  /\ client = "waiting"
  /\ client' = "returned"
  /\ \E e \in CallErrs("insert", interrupted) : FillReturns(e)
  /\ UNCHANGED <<server, rows, created, dropFailed, record, interrupted,
                 dropOnFail, inputVars, src, counted, query, into, todo, kill>>

\* The query failed, its reply was lost or late, or the context is done.
InsertFails ==
  /\ phase = "fill"
  /\ client = "waiting"
  /\ client' = "kill"
  /\ UNCHANGED <<runVars, inputVars, src, counted, query, into, todo, kill>>

\* What KILL QUERY finds: a query that has not started or has ended is none.
Killed == IF query = "running" THEN "done" ELSE "missed"

\* Variant: KILL QUERY without SYNC.
KillQueryAsync ==
  /\ phase = "fill"
  /\ client = "kill"
  /\ client' = "returned"
  /\ kill' = Killed
  /\ \E e \in CallErrs("insert", interrupted) : FillReturns(e)
  /\ UNCHANGED <<server, rows, created, dropFailed, record, interrupted,
                 dropOnFail, inputVars, src, counted, query, into, todo>>

\* KILL QUERY ... SYNC finds the query by its identifier, if it has started,
\* and waits for its end.
KillQuery ==
  /\ phase = "fill"
  /\ client = "kill"
  /\ client' = "returned"
  /\ kill' = Killed
  /\ query' = IF query = "running" THEN "failed" ELSE query
  /\ \E e \in CallErrs("insert", interrupted) : FillReturns(e)
  /\ UNCHANGED <<server, rows, created, dropFailed, record, interrupted,
                 dropOnFail, inputVars, src, counted, into, todo>>

\* KILL QUERY returns an error or takes longer than 30 seconds; insertFDHs
\* joins that to the insert's error and returns all the same.
KillQueryFails ==
  /\ phase = "fill"
  /\ client = "kill"
  /\ client' = "returned"
  /\ kill' = "failed"
  /\ \E e \in CallErrs("insert", interrupted) : FillReturns(e)
  /\ UNCHANGED <<server, rows, created, dropFailed, record, interrupted,
                 dropOnFail, inputVars, src, counted, query, into, todo>>

\* SummarizeFDHs counts the table's rows.
Verify ==
  /\ phase = "verify"
  /\ Return(IF Len(rows) = want THEN NoErr ELSE "mismatch")
  /\ UNCHANGED <<server, rows, created, dropFailed, record, interrupted,
                 dropOnFail, inputVars, queryVars>>

VerifyFails ==
  /\ phase = "verify"
  /\ \E e \in CallErrs("summarize", interrupted) : Return(e)
  /\ UNCHANGED <<server, rows, created, dropFailed, record, interrupted,
                 dropOnFail, inputVars, queryVars>>
-----------------------------------------------------------------------------
\* The server starts the query: it looks the three tables up and reads them as
\* they are then.  Its table may be gone by now, or be another run's, which
\* refuses the rows only if it is no FDH table.
QueryStarts ==
  /\ query = "sent"
  /\ \/ server # "absent" /\ query' = "running" /\ into' = server /\ todo' = FDHInsertSQL
     \/ server # "ours" /\ query' = "failed" /\ UNCHANGED <<into, todo>>
  /\ UNCHANGED <<runVars, inputVars, src, counted, client, kill>>

\* A block of the query reaches its table, in whatever order the server's
\* threads made them.  What it inserts into a dropped table is lost.
QueryInserts ==
  /\ query = "running"
  /\ \E i \in FIEs :
       /\ todo[i] > 0
       /\ todo' = [todo EXCEPT ![i] = @ - 1]
       /\ rows' = IF into = "ours" /\ server = "ours" THEN Append(rows, i) ELSE rows
  /\ UNCHANGED <<phase, server, created, err, dropFailed, record, interrupted,
                 dropOnFail, inputVars, src, counted, client, query, into, kill>>

QueryEnds ==
  /\ query = "running"
  /\ \A i \in FIEs : todo[i] = 0
  /\ query' = "complete"
  /\ UNCHANGED <<runVars, inputVars, src, counted, client, into, todo, kill>>

\* The query runs out of memory, an input is dropped, or the server noticed
\* that its client is gone.  The blocks it inserted stay.
QueryFails ==
  /\ query = "running"
  /\ query' = "failed"
  /\ UNCHANGED <<runVars, inputVars, src, counted, client, into, todo, kill>>

\* An upload or another client adds a row to one of the input tables.
InputGrows ==
  /\ growth < MaxGrowth
  /\ growth' = growth + 1
  /\ \/ /\ \E i \in FIEs \ fies : fies' = fies \cup {i}
        /\ UNCHANGED pds
     \/ /\ \E p \in PDs : pds[p] < MaxCopies /\ pds' = [pds EXCEPT ![p] = @ + 1]
        /\ UNCHANGED fies
  /\ UNCHANGED <<runVars, queryVars>>

\* The process is killed; the server has its query still.
Kill ==
  /\ Running
  /\ phase' = "killed"
  /\ UNCHANGED <<server, rows, created, err, dropFailed, record, interrupted,
                 dropOnFail, inputVars, queryVars>>

CommandStep ==
  \/ /\ \/ Prepare \/ Connect \/ TableExists
        \/ DropTable \/ DropTableFails \/ KeepTable \/ LogOperation
     /\ UNCHANGED <<inputVars, queryVars>>
  \/ CheckInputFails \/ Count \/ CountFails
  \/ CreateFDHTable \/ CreateFDHTableFails
  \/ InsertFDHs \/ NewQueryIDFails \/ InsertSucceeds \/ InsertFails
  \/ KillQuery \/ KillQueryFails
  \/ Verify \/ VerifyFails

QueryStep == QueryStarts \/ QueryInserts \/ QueryEnds \/ QueryFails

Environment ==
  \/ (Interrupt \/ OtherCreates) /\ UNCHANGED <<inputVars, queryVars>>
  \/ InputGrows
  \/ Kill

Ended == ~Running /\ query \notin {"sent", "running"} /\ UNCHANGED vars

Next == CommandStep \/ QueryStep \/ Environment \/ Ended

Spec == Init /\ [][Next]_vars
-----------------------------------------------------------------------------
\* How often FIE i is in the table.
Times(i) == Cardinality({k \in DOMAIN rows : rows[k] = i})

(***************************************************************************)
(* Although the command compares nothing but two numbers that were taken   *)
(* at different times, and the join gives a row for each copy of a PD, a   *)
(* table that passed holds exactly the counted FIEs, each once, whenever   *)
(* the input tables grew in between: a row too many or of another FIE      *)
(* always shows in the number.                                             *)
(***************************************************************************)
SuccessIsExact ==
  Succeeded =>
    /\ server = "ours"
    /\ query = "complete"
    /\ \A i \in FIEs : Times(i) = IF i \in counted THEN 1 ELSE 0

(***************************************************************************)
(* A query that starts late and fills the table that another run made of   *)
(* the same name is one that KILL QUERY did not find or could not end; the *)
(* run that sent it was told to drop its table on failure and says that it *)
(* failed.                                                                 *)
(***************************************************************************)
StrayQueryWasMissed ==
  into = "foreign" =>
    /\ kill \in {"missed", "failed"}
    /\ created /\ dropOnFail /\ err # NoErr

(***************************************************************************)
(* The table is dropped from under a query that runs or may yet start only *)
(* when the KILL failed or found no query: else insertFDHs waited for the  *)
(* query to end before dropOnFailure goes on.                              *)
(***************************************************************************)
DropAwaitsKill ==
  [][server = "ours" /\ server' = "absent" /\ query \in {"sent", "running"}
       => kill \in {"failed", "missed"}]_vars
=============================================================================
