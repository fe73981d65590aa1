------------------------------ MODULE TableRun ------------------------------
(***************************************************************************)
(* What every command that fills a new ClickHouse table goes through,      *)
(* whatever it fills the table with: connect, look the table up, create    *)
(* it, fill it (the command's own part), drop it again when that failed,   *)
(* and record the run in the operations table.  The code is newTable,      *)
(* openTable and dropOnFailure in cmd/fie-importer/shared.go and logged in *)
(* cmd/fie-importer/operations.go.                                         *)
(*                                                                         *)
(* The server is modelled by the one table of the run's name.  A call to   *)
(* it that returns an error may or may not have had its effect: the reply  *)
(* can be lost and the call can be canceled by a signal while the server   *)
(* carries it out.                                                         *)
(*                                                                         *)
(* A command extends this module and says where the phase "fill" leads.    *)
(***************************************************************************)
EXTENDS Integers, Sequences

VARIABLES
  phase,        \* how far the command got
  server,       \* whose table has the run's name: nobody's, ours, another's
  rows,         \* the rows of our table, in the order they were inserted
  created,      \* newTable returned: dropOnFailure is deferred
  err,          \* the command's error so far
  dropFailed,   \* dropOnFailure ran and its DROP returned an error
  record,       \* what the operations table says about the run
  interrupted,  \* SIGINT or SIGTERM arrived: the command's context is done
  dropOnFail    \* --drop-on-fail

runVars == <<phase, server, rows, created, err, dropFailed, record,
             interrupted, dropOnFail>>

NoErr == "none"
Canceled == "canceled"

\* The errors a call under a context may return: its own, or the context's
\* once that is done.
CallErrs(own, ctxDone) == {own} \cup (IF ctxDone THEN {Canceled} ELSE {})

RunErrs == {NoErr, Canceled, "prepare", "connect", "exists", "create",
            "read", "insert", "empty", "summarize", "mismatch"}

RunTypeOK ==
  /\ phase \in {"prepare", "connect", "lookup", "create", "fill", "verify",
                "cleanup", "log", "done", "killed"}
  /\ server \in {"absent", "ours", "foreign"}
  /\ rows \in Seq(Nat)
  /\ created \in BOOLEAN
  /\ err \in RunErrs
  /\ dropFailed \in BOOLEAN
  /\ record \in {"none", "ok", "failed"}
  /\ interrupted \in BOOLEAN
  /\ dropOnFail \in BOOLEAN

RunInit ==
  /\ phase = "prepare"
  /\ server \in {"absent", "foreign"}
  /\ rows = <<>>
  /\ created = FALSE
  /\ err = NoErr
  /\ dropFailed = FALSE
  /\ record = "none"
  /\ interrupted = FALSE
  /\ dropOnFail \in BOOLEAN

Running == phase \notin {"done", "killed"}
Opening == phase \in {"prepare", "connect", "lookup", "create"}
Returned == phase \in {"cleanup", "log", "done"}
Succeeded == Returned /\ err = NoErr

\* The command's function returns e.  Its callers defer dropOnFailure once
\* newTable returned, so only then is it still to run.
Return(e) ==
  /\ err' = e
  /\ phase' = IF created THEN "cleanup" ELSE "log"


\* What fills the table returns e; without an error the table is verified.
FillReturns(e) ==
  IF e = NoErr THEN phase' = "verify" /\ UNCHANGED err ELSE Return(e)
-----------------------------------------------------------------------------
\* Validating the flags and reading the input's metadata, before ClickHouse
\* is contacted at all.
Prepare ==
  /\ phase = "prepare"
  /\ \/ /\ phase' = "connect"
        /\ err' = err
     \/ \E e \in CallErrs("prepare", interrupted) : Return(e)
  /\ UNCHANGED <<server, rows, created, dropFailed, record, interrupted,
                 dropOnFail>>

\* CH_USER is unset, or the server does not answer the ping.
Connect ==
  /\ phase = "connect"
  /\ \/ /\ phase' = "lookup"
        /\ err' = err
     \/ \E e \in CallErrs("connect", interrupted) : Return(e)
  /\ UNCHANGED <<server, rows, created, dropFailed, record, interrupted,
                 dropOnFail>>

\* Without appendOK an existing table is an error.
TableExists ==
  /\ phase = "lookup"
  /\ \/ /\ server = "absent"
        /\ phase' = "create"
        /\ err' = err
     \/ /\ server # "absent"
        /\ Return("exists")
     \/ \E e \in CallErrs("connect", interrupted) : Return(e)
  /\ UNCHANGED <<server, rows, created, dropFailed, record, interrupted,
                 dropOnFail>>

\* CREATE TABLE without IF NOT EXISTS: the server refuses a name that was
\* taken since the lookup.
CreateTable ==
  /\ phase = "create"
  /\ server = "absent"
  /\ server' = "ours"
  /\ created' = TRUE
  /\ phase' = "fill"
  /\ UNCHANGED <<rows, err, dropFailed, record, interrupted, dropOnFail>>

\* The create returns an error.  When the name was free the server may have
\* created the table all the same; newTable then returns without a client and
\* the caller never reaches the defer of dropOnFailure.
CreateTableFails ==
  /\ phase = "create"
  /\ \E e \in CallErrs("create", interrupted) : Return(e)
  /\ server' \in {server} \cup (IF server = "absent" THEN {"ours"} ELSE {})
  /\ UNCHANGED <<rows, created, dropFailed, record, interrupted, dropOnFail>>

\* Variant: the table is kept after an interrupt.
KeepsTableWhenCanceled == err \in {NoErr, Canceled} \/ ~dropOnFail

\* dropOnFailure: if *err == nil || !drop.
KeepsTable == err = NoErr \/ ~dropOnFail

\* dropOnFailure drops the table, with a context of its own.
DropTable ==
  /\ phase = "cleanup"
  /\ ~KeepsTable
  /\ server' = "absent"
  /\ rows' = <<>>
  /\ phase' = "log"
  /\ UNCHANGED <<created, err, dropFailed, record, interrupted, dropOnFail>>

\* The DROP returns an error, having dropped the table or not.
DropTableFails ==
  /\ phase = "cleanup"
  /\ ~KeepsTable
  /\ dropFailed' = TRUE
  /\ phase' = "log"
  /\ \/ UNCHANGED <<server, rows>>
     \/ /\ server' = "absent"
        /\ rows' = <<>>
  /\ UNCHANGED <<created, err, record, interrupted, dropOnFail>>

KeepTable ==
  /\ phase = "cleanup"
  /\ KeepsTable
  /\ phase' = "log"
  /\ UNCHANGED <<server, rows, created, err, dropFailed, record, interrupted,
                 dropOnFail>>

\* Client.LogOperation creates the operations table when it is missing and
\* appends a row.  When a call fails there may be no row, or one all the same.
Appended(status) == record' \in {"none", status}

\* logged records the command's result over a connection and a context of its
\* own.  When that fails the run's result stands.
LogOperation ==
  /\ phase = "log"
  /\ phase' = "done"
  /\ Appended(IF err = NoErr THEN "ok" ELSE "failed")
  /\ UNCHANGED <<server, rows, created, err, dropFailed, interrupted,
                 dropOnFail>>

\* signal.NotifyContext cancels the command's context.  Later signals find it
\* canceled and change nothing.
Interrupt ==
  /\ Running
  /\ ~interrupted
  /\ interrupted' = TRUE
  /\ UNCHANGED <<phase, server, rows, created, err, dropFailed, record,
                 dropOnFail>>

\* Another client of the same database takes the name while it is free.
OtherCreates ==
  /\ Running
  /\ server = "absent"
  /\ server' = "foreign"
  /\ UNCHANGED <<phase, rows, created, err, dropFailed, record, interrupted,
                 dropOnFail>>

\* The steps of the command that do not depend on what it fills the table with.
RunStep == \/ Prepare \/ Connect \/ TableExists
           \/ CreateTable \/ CreateTableFails
           \/ DropTable \/ DropTableFails \/ KeepTable
           \/ LogOperation
-----------------------------------------------------------------------------
\* How the table, the error and the deferred drop go together.
RunInv ==
  /\ Opening => ~created /\ err = NoErr /\ server # "ours"
  /\ phase \in {"fill", "verify"} => created /\ err = NoErr /\ server = "ours"
  /\ phase = "cleanup" => created /\ server = "ours"
  /\ Succeeded => created /\ server = "ours"
  /\ server # "ours" \/ ~created => rows = <<>>
  /\ phase \in {"log", "done"} /\ err # NoErr /\ created /\ dropOnFail /\ ~dropFailed
       => server # "ours"

(***************************************************************************)
(* A run that failed after it had created its table leaves no table behind *)
(* when --drop-on-fail is set and the DROP did not fail (README, flag      *)
(* --drop-on-fail).                                                        *)
(***************************************************************************)
FailureIsClean ==
  phase \in {"log", "done"} /\ err # NoErr /\ created /\ dropOnFail /\ ~dropFailed
    => server # "ours"

(***************************************************************************)
(* The README's promise for --drop-on-fail: "drop the table if the upload  *)
(* fails or is interrupted".  A run that ended with an error, with the     *)
(* flag set and without an error of the DROP itself, leaves no table of    *)
(* its own.                                                                *)
(***************************************************************************)
FailureDropsTable ==
  phase = "done" /\ err # NoErr /\ dropOnFail /\ ~dropFailed => server # "ours"
=============================================================================
