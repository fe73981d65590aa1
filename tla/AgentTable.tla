----------------------------- MODULE AgentTable -----------------------------
(***************************************************************************)
(* Several runs of upload-agents on one table: runUploadAgents in          *)
(* cmd/fie-importer/upload_agents.go with openTable and dropOnFailure in   *)
(* shared.go and InsertAgents and CountSnapshot in clickhouse.go.  With    *)
(* --append a run adds its snapshot to a table that exists, which may be   *)
(* one that another run has created and not yet finished.                  *)
(*                                                                         *)
(* A snapshot is one batch and one block: all its rows are in the table or *)
(* none.  It is named by its run, whose snapshot_time tells it apart.  A   *)
(* call that returns an error has had its effect by then, or never has.    *)
(***************************************************************************)
EXTENDS Integers

CONSTANTS
  Runs,         \* the runs of upload-agents, of whichever hosts
  Nobody,       \* the creator of no table
  Earlier       \* the creator of a table that was there before

ASSUME RunsAssumption == Nobody \notin Runs /\ Earlier \notin Runs /\ Nobody # Earlier

VARIABLES
  at,           \* how far each run got
  appendRows,   \* its --append
  dropOnFail,   \* its --drop-on-fail
  created,      \* openTable told it that it created the table
  table,        \* the run whose table is there
  snapshots     \* the runs whose snapshots are in it

flags == <<appendRows, dropOnFail>>
tableVars == <<at, flags, created, table, snapshots>>

Over == {"ok", "failed", "killed"}

TableTypeOK ==
  /\ at \in [Runs -> {"snapshot", "lookup", "create", "insert", "count", "drop"}
                     \cup Over]
  /\ appendRows \in [Runs -> BOOLEAN]
  /\ dropOnFail \in [Runs -> BOOLEAN]
  /\ created \in [Runs -> BOOLEAN]
  /\ table \in Runs \cup {Nobody, Earlier}
  /\ snapshots \subseteq Runs

TableInit ==
  /\ at = [r \in Runs |-> "snapshot"]
  /\ appendRows \in [Runs -> BOOLEAN]
  /\ dropOnFail \in [Runs -> BOOLEAN]
  /\ created = [r \in Runs |-> FALSE]
  /\ table \in {Nobody, Earlier}
  /\ snapshots = {}

Move(r, l) == at' = [at EXCEPT ![r] = l]

\* Variant: a failed run drops its table whoever created it.
MayDropAny(r) == dropOnFail[r]

\* dropOnFailure is deferred with created && o.dropOnFail.
MayDrop(r) == created[r] /\ dropOnFail[r]

\* A run that has a table returns an error.
FailsWith(r) == Move(r, IF MayDrop(r) THEN "drop" ELSE "failed")
-----------------------------------------------------------------------------
\* takeSnapshot, before ClickHouse is contacted.
TakeSnapshot(r) ==
  /\ at[r] = "snapshot"
  /\ Move(r, "lookup") \/ Move(r, "failed")
  /\ UNCHANGED <<flags, created, table, snapshots>>

\* openTable: an existing table is used only with --append.
LookUp(r) ==
  /\ at[r] = "lookup"
  /\ \/ table = Nobody /\ Move(r, "create")
     \/ table # Nobody /\ appendRows[r] /\ Move(r, "insert")
     \/ table # Nobody /\ ~appendRows[r] /\ Move(r, "failed")
     \/ Move(r, "failed")
  /\ UNCHANGED <<flags, created, table, snapshots>>

\* Variant: CREATE TABLE IF NOT EXISTS.
CreateIfMissing(r) ==
  /\ at[r] = "create"
  /\ table' = IF table = Nobody THEN r ELSE table
  /\ created' = [created EXCEPT ![r] = TRUE]
  /\ Move(r, "insert")
  /\ UNCHANGED <<flags, snapshots>>

\* Variant: CREATE TABLE IF NOT EXISTS, and the run that came second joins.
CreateOrJoin(r) ==
  /\ at[r] = "create"
  /\ table' = IF table = Nobody THEN r ELSE table
  /\ created' = [created EXCEPT ![r] = (table = Nobody)]
  /\ Move(r, "insert")
  /\ UNCHANGED <<flags, snapshots>>

CreateTable(r) ==
  /\ at[r] = "create"
  /\ table = Nobody
  /\ table' = r
  /\ created' = [created EXCEPT ![r] = TRUE]
  /\ Move(r, "insert")
  /\ UNCHANGED <<flags, snapshots>>

\* Another run created it since the lookup, or the call failed: openTable
\* returns no client, so that nothing is dropped.
CreateTableFails(r) ==
  /\ at[r] = "create"
  /\ table' \in {table} \cup (IF table = Nobody THEN {r} ELSE {})
  /\ Move(r, "failed")
  /\ UNCHANGED <<flags, created, snapshots>>

\* InsertAgents finds the table by its name.
InsertAgents(r) ==
  /\ at[r] = "insert"
  /\ table # Nobody
  /\ snapshots' = snapshots \cup {r}
  /\ Move(r, "count")
  /\ UNCHANGED <<flags, created, table>>

\* The table is gone, or the call failed.
InsertFails(r) ==
  /\ at[r] = "insert"
  /\ snapshots' \in {snapshots} \cup (IF table # Nobody THEN {snapshots \cup {r}} ELSE {})
  /\ FailsWith(r)
  /\ UNCHANGED <<flags, created, table>>

\* CountSnapshot finds all rows of the run's snapshot_time.
CountSnapshot(r) ==
  /\ at[r] = "count"
  /\ r \in snapshots
  /\ Move(r, "ok")
  /\ UNCHANGED <<flags, created, table, snapshots>>

\* It finds none of them, no table, or fails.
CountFails(r) ==
  /\ at[r] = "count"
  /\ FailsWith(r)
  /\ UNCHANGED <<flags, created, table, snapshots>>

DropTable(r) ==
  /\ at[r] = "drop"
  /\ table' = Nobody
  /\ snapshots' = {}
  /\ Move(r, "failed")
  /\ UNCHANGED <<flags, created>>

\* The DROP returns an error without an effect; with one it is DropTable.
DropFails(r) ==
  /\ at[r] = "drop"
  /\ Move(r, "failed")
  /\ UNCHANGED <<flags, created, table, snapshots>>

\* The process is killed.  A call under way may still have its effect.
Kill(r) ==
  /\ at[r] \notin Over
  /\ Move(r, "killed")
  /\ \/ UNCHANGED <<table, snapshots>>
     \/ at[r] = "create" /\ table = Nobody /\ table' = r /\ UNCHANGED snapshots
     \/ at[r] = "insert" /\ table # Nobody /\ snapshots' = snapshots \cup {r}
          /\ UNCHANGED table
     \/ at[r] = "drop" /\ table' = Nobody /\ snapshots' = {}
  /\ UNCHANGED <<flags, created>>

RunStep(r) ==
  \/ TakeSnapshot(r) \/ LookUp(r) \/ CreateTable(r) \/ CreateTableFails(r)
  \/ InsertAgents(r) \/ InsertFails(r) \/ CountSnapshot(r) \/ CountFails(r)
  \/ DropTable(r) \/ DropFails(r) \/ Kill(r)

AllEnded == (\A r \in Runs : at[r] \in Over) /\ UNCHANGED tableVars

TableNext == (\E r \in Runs : RunStep(r)) \/ AllEnded

TableSpec == TableInit /\ [][TableNext]_tableVars
-----------------------------------------------------------------------------
\* What a run knows of the table at each point.
RunInv(r) ==
  /\ created[r] /\ at[r] \notin Over => table = r
  /\ at[r] \in {"snapshot", "lookup", "create"} => ~created[r] /\ table # r
  /\ at[r] \in {"insert", "count"} => created[r] \/ appendRows[r]
  /\ at[r] = "drop" => created[r] /\ dropOnFail[r]
  /\ r \in snapshots => table = r \/ appendRows[r]

(***************************************************************************)
(* A run that openTable told it created the table still has it: it is the  *)
(* only one that may drop it, so that no other can have taken its place.   *)
(***************************************************************************)
TableInv ==
  /\ TableTypeOK
  /\ table = Nobody => snapshots = {}
  /\ \A r \in Runs : RunInv(r)

(***************************************************************************)
(* A table is dropped only by the very run that created it, and only when  *)
(* that run failed, however the runs' lookups, creates and drops           *)
(* interleave; a table that was there before is never dropped.             *)
(***************************************************************************)
DroppedByCreator ==
  [][table # Nobody /\ table' # table
       => /\ table \in Runs /\ table' = Nobody
          /\ at[table] = "drop" /\ dropOnFail[table]]_tableVars

(***************************************************************************)
(* Without --append a snapshot is only in a table that its run created,    *)
(* although InsertAgents finds the table by its name and another run may   *)
(* have created or dropped it since the lookup.                            *)
(***************************************************************************)
AppendedOnlyIfAsked ==
  \A r \in snapshots : table = r \/ appendRows[r]

(***************************************************************************)
(* Once the run that created the table has ended, or did so with           *)
(* --drop-on-fail=false, no snapshot is ever taken out of it.              *)
(***************************************************************************)
KeptOnceSettled ==
  [][(\A r \in Runs : table = r => at[r] \in Over \/ ~dropOnFail[r])
       => snapshots \subseteq snapshots']_tableVars
=============================================================================
