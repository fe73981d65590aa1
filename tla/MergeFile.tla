----------------------------- MODULE MergeFile ------------------------------
(***************************************************************************)
(* How merge-fies puts its result in place: runMerge and merge in          *)
(* cmd/fie-importer/merge_fies.go, CheckOutput and Merge in                *)
(* internal/fies/merge.go.  The merged file is written to <output>.tmp,    *)
(* read back, and renamed to <output> when its row count is that of the    *)
(* inputs.                                                                 *)
(*                                                                         *)
(* A path holds a file or nothing.  Files are named by the run that writes *)
(* them: each run writes one.  A file that was removed or replaced while   *)
(* its run still writes it goes on being written without a path.           *)
(* The directory lets its files be removed: an os.Remove whose error the   *)
(* code ignores succeeds.                                                  *)
(*                                                                         *)
(* Nothing keeps two runs from sharing the two paths, and the output is a  *)
(* path that any program can write to: runs overlap in every way here, and *)
(* OtherWrites comes at any time.  Two history variables tell who can have *)
(* interfered with a run: stale guards no action, met only says which runs *)
(* may have opened one file at <output>.tmp.                               *)
(***************************************************************************)
EXTENDS Integers

CONSTANTS
  Runs,         \* the runs of merge-fies with this output, in any order
  Total,        \* how many rows each run counted in its inputs
  Nobody,       \* there is no file
  Other         \* a file some other program wrote

ASSUME RunsAssumption == Nobody \notin Runs /\ Other \notin Runs /\ Nobody # Other
ASSUME TotalAssumption == Total \in [Runs -> Nat]

VARIABLES
  pc,           \* how far each run got
  err,          \* why it failed
  overwrite,    \* its --overwrite
  verify,       \* its --verify
  file,         \* its file: the rows in it, and whether it is complete
  tmp,          \* the file at <output>.tmp
  output,       \* the file at <output>
  met,          \* history: the runs under way at one time with each run
  stale         \* history: the runs since whose last look at the output, or
                \* rename to it, somebody else wrote or removed it

fileVars == <<pc, err, overwrite, verify, file, tmp, output, met, stale>>
history == <<met, stale>>
runFlags == <<overwrite, verify>>

Over == {"ok", "failed", "killed"}
Active(r) == pc[r] \notin {"idle"} \cup Over

FileTypeOK ==
  /\ pc \in [Runs -> {"idle", "check", "plan", "recheck", "remove", "open",
                      "copying", "readback", "rename", "stat", "verify"}
                     \cup Over]
  /\ err \in [Runs -> {"none", "exists", "plan", "copy", "count", "rename",
                       "stat", "verify"}]
  /\ overwrite \in [Runs -> BOOLEAN]
  /\ verify \in [Runs -> BOOLEAN]
  /\ file \in [Runs -> [rows : Nat, complete : BOOLEAN]]
  /\ tmp \in Runs \cup {Nobody}
  /\ output \in Runs \cup {Nobody, Other}
  /\ met \in [Runs -> SUBSET Runs]
  /\ stale \in SUBSET Runs

FileInit ==
  /\ pc = [r \in Runs |-> "idle"]
  /\ err = [r \in Runs |-> "none"]
  /\ overwrite \in [Runs -> BOOLEAN]
  /\ verify \in [Runs -> BOOLEAN]
  /\ file = [r \in Runs |-> [rows |-> 0, complete |-> FALSE]]
  /\ tmp = Nobody
  /\ output \in {Nobody, Other}
  /\ met = [r \in Runs |-> {}]
  /\ stale = {}

Goto(r, l) == pc' = [pc EXCEPT ![r] = l] /\ UNCHANGED err

Fail(r, e) ==
  /\ pc' = [pc EXCEPT ![r] = "failed"]
  /\ err' = [err EXCEPT ![r] = e]
-----------------------------------------------------------------------------
Start(r) ==
  /\ pc[r] = "idle"
  /\ Goto(r, "check")
  /\ met' = [q \in Runs |->
               CASE q = r     -> {p \in Runs : Active(p)}
                 [] Active(q) -> met[q] \cup {r}
                 [] OTHER     -> met[q]]
  /\ UNCHANGED <<runFlags, file, tmp, output, stale>>

\* Variant: the check reports an error only for a file it cannot look at.
CheckOutputIgnoresFile(r) == TRUE

\* CheckOutput: an existing output must be meant to be replaced.
CheckOutput(r) == output # Nobody => overwrite[r]

\* runMerge checks the output before it reads any metadata.  os.Stat can also
\* fail for another reason than that there is no file.
Check(r) ==
  /\ pc[r] = "check"
  /\ \/ CheckOutput(r) /\ Goto(r, "plan")
     \/ ~CheckOutput(r) /\ Fail(r, "exists")
     \/ Fail(r, "stat")
  /\ UNCHANGED <<runFlags, file, tmp, output, history>>

\* Metadata and counts of the files, and their layout.
Plan(r) ==
  /\ pc[r] = "plan"
  /\ Goto(r, "recheck") \/ Fail(r, "plan")
  /\ UNCHANGED <<runFlags, file, tmp, output, history>>

\* Merge checks the output again, and applies DuckDB's settings.
Recheck(r) ==
  /\ pc[r] = "recheck"
  /\ \/ CheckOutput(r) /\ Goto(r, "remove") /\ stale' = stale \ {r}
     \/ ~CheckOutput(r) /\ Fail(r, "exists") /\ UNCHANGED stale
     \/ Fail(r, "plan") /\ UNCHANGED stale
  /\ UNCHANGED <<runFlags, file, tmp, output, met>>

\* os.Remove(tmp), of whatever an earlier run left.
RemoveTmp(r) ==
  /\ pc[r] = "remove"
  /\ tmp' = Nobody
  /\ Goto(r, "open")
  /\ UNCHANGED <<runFlags, file, output, history>>

\* Variant: the merged file is written to the output itself.
CopyStartsInPlace(r) ==
  /\ pc[r] = "open"
  /\ tmp' = r
  /\ output' = r
  /\ Goto(r, "copying")
  /\ UNCHANGED <<runFlags, file, history>>

\* COPY ... TO tmp creates the file.  Where one has appeared meanwhile, DuckDB
\* may take its place at once, or write beside it and take it at the end.
CopyStarts(r) ==
  /\ pc[r] = "open"
  /\ \/ tmp' = r
     \/ tmp # Nobody /\ UNCHANGED tmp
  /\ Goto(r, "copying")
  /\ UNCHANGED <<runFlags, file, output, history>>

\* The inputs can have changed since they were counted.
Counts(r) == {Total[r] - 1, Total[r], Total[r] + 1} \cap Nat

\* The COPY ended.
CopyEnds(r) ==
  /\ pc[r] = "copying"
  /\ \E n \in Counts(r) :
       file' = [file EXCEPT ![r] = [rows |-> n, complete |-> TRUE]]
  /\ \/ UNCHANGED tmp
     \/ met[r] # {} /\ tmp' = r
  /\ Goto(r, "readback")
  /\ UNCHANGED <<runFlags, output, history>>

\* Runs that overlapped may have opened one file at tmp, and each writes into
\* it, wherever it is by now: what it declares can then be anything.
WriteShared(r) ==
  /\ pc[r] = "copying"
  /\ \E q \in met[r], whole \in BOOLEAN :
       \E n \in Counts(q) :
         file' = [file EXCEPT ![q] = [rows |-> n, complete |-> whole]]
  /\ UNCHANGED <<pc, err, runFlags, tmp, output, history>>

\* Variant: an error leaves the temporary file.
CopyFailsLeavesTmp(r) ==
  /\ pc[r] \in {"open", "copying"}
  /\ Fail(r, "copy")
  /\ UNCHANGED <<runFlags, file, tmp, output, history>>

\* The COPY failed or its context is done: os.Remove(tmp).
CopyFails(r) ==
  /\ pc[r] \in {"open", "copying"}
  /\ tmp' = Nobody
  /\ Fail(r, "copy")
  /\ UNCHANGED <<runFlags, file, output, history>>

\* The row count that the file at tmp declares, which is at its end.
Readable == tmp # Nobody /\ file[tmp].complete

\* Variant: the rows are not counted.
CountsUnchecked(r) == Readable

CountMatches(r) == Readable /\ file[tmp].rows = Total[r]

ReadBack(r) ==
  /\ pc[r] = "readback"
  /\ CountMatches(r)
  /\ Goto(r, "rename")
  /\ UNCHANGED <<runFlags, file, tmp, output, history>>

\* The file cannot be read back, or its count is not that of the inputs.
ReadBackFails(r) ==
  /\ pc[r] = "readback"
  /\ tmp' = Nobody
  /\ Fail(r, IF Readable /\ ~CountMatches(r) THEN "count" ELSE "copy")
  /\ UNCHANGED <<runFlags, file, output, history>>

\* Variant: the run is a success before it renamed its file.
RenameLater(r) ==
  /\ pc[r] = "rename"
  /\ Goto(r, "stat")
  /\ UNCHANGED <<runFlags, file, tmp, output, history>>

Rename(r) ==
  /\ pc[r] = "rename"
  /\ tmp # Nobody
  /\ output' = tmp
  /\ tmp' = Nobody
  /\ stale' = Runs \ {r}
  /\ Goto(r, "stat")
  /\ UNCHANGED <<runFlags, file, met>>

\* os.Rename fails; what is at tmp stays there.
RenameFails(r) ==
  /\ pc[r] = "rename"
  /\ Fail(r, "rename")
  /\ UNCHANGED <<runFlags, file, tmp, output, history>>

\* The size of what is at the output, if anything still is.
Stat(r) ==
  /\ pc[r] = "stat"
  /\ \/ output # Nobody /\ Goto(r, IF verify[r] THEN "verify" ELSE "ok")
     \/ Fail(r, "stat")
  /\ UNCHANGED <<runFlags, file, tmp, output, history>>

\* src.Verify reads what is at the output now.  Its own file cannot fail that
\* but for an error of reading, another run's must have as many rows, and some
\* other program's may be anything.
VerifyOutput(r) ==
  /\ pc[r] = "verify"
  /\ \/ /\ output # Nobody
        /\ output \in Runs
             => file[output] = [rows |-> Total[r], complete |-> TRUE]
        /\ Goto(r, "ok")
     \/ Fail(r, "verify")
  /\ UNCHANGED <<runFlags, file, tmp, output, history>>

\* The process is killed: nothing is removed.
Kill(r) ==
  /\ Active(r)
  /\ Goto(r, "killed")
  /\ UNCHANGED <<runFlags, file, tmp, output, history>>

RunStep(r) ==
  \/ Start(r) \/ Check(r) \/ Plan(r) \/ Recheck(r) \/ RemoveTmp(r)
  \/ CopyStarts(r) \/ CopyEnds(r) \/ WriteShared(r) \/ CopyFails(r)
  \/ ReadBack(r) \/ ReadBackFails(r)
  \/ Rename(r) \/ RenameFails(r) \/ Stat(r) \/ VerifyOutput(r)
  \/ Kill(r)

\* Some other program puts a file at the output, or removes the one there.
OtherWrites ==
  /\ output' \in {Nobody, Other}
  /\ stale' = Runs
  /\ UNCHANGED <<pc, err, runFlags, file, tmp, met>>

FileNext == (\E r \in Runs : RunStep(r)) \/ OtherWrites

FileSpec == FileInit /\ [][FileNext]_fileVars
-----------------------------------------------------------------------------
Whole(r) == file[r].complete /\ file[r].rows = Total[r]

\* No other run was under way while this one was.
Alone(r) == met[r] = {}

\* Runs that are under way at one time know of each other.
MeetingsKnown ==
  /\ \A r, q \in Runs : Active(r) /\ Active(q) /\ r # q => q \in met[r]
  /\ \A r, q \in Runs : q \in met[r] => r \in met[q] /\ pc[q] # "idle"

\* Which of the two paths hold the file of a run that was alone, and what that
\* file holds, at each point of it and after it.
Placed(r) ==
  /\ pc[r] \in {"copying", "readback", "rename"} => tmp = r /\ output # r
  /\ pc[r] \in {"idle", "check", "plan", "recheck", "remove", "open"}
       => tmp # r /\ output # r
  /\ pc[r] = "open" => tmp = Nobody
  /\ pc[r] = "readback" => file[r].complete
  /\ pc[r] = "rename" => Whole(r)
  /\ pc[r] \in {"stat", "verify"} => output = r \/ r \in stale
  /\ output = r => Whole(r)

\* What a run left at <output>.tmp is removed before the next file is begun.
LeftoverGoesFirst ==
  \A r, q \in Runs :
    Alone(r) /\ tmp = r /\ ~Active(r) /\ Active(q)
      => pc[q] \in {"check", "plan", "recheck", "remove"}

\* A run whose file is at <output>.tmp goes on with it, or could not remove it.
Owned(r) ==
  tmp = r => \/ pc[r] \in {"copying", "readback", "rename", "killed"}
             \/ pc[r] = "failed" /\ err[r] = "rename"

\* The last check of a run: an output it may not replace came after it.
Checked(r) ==
  pc[r] \in {"remove", "open", "copying", "readback", "rename"} /\ output # Nobody
    => overwrite[r] \/ r \in stale

(***************************************************************************)
(* What holds of the two paths however many runs share them.  CheckOutput, *)
(* Merge and Verify name the files by path only, and each takes for        *)
(* granted that it finds them as its run left them.                        *)
(***************************************************************************)
FileInv ==
  /\ FileTypeOK
  /\ MeetingsKnown
  /\ LeftoverGoesFirst
  /\ \A r \in Runs : /\ Alone(r) => Placed(r)
                    /\ Owned(r)
                    /\ Checked(r)

(***************************************************************************)
(* What is at the output is never a part of a merged file: the file of a   *)
(* run appears there only when it is complete and its row count was that   *)
(* of the inputs, also after runs that failed or were killed at any point  *)
(* ("renamed when the row count matches the inputs", README, merge-fies).  *)
(* The one exception is the file of a run that another run with the same   *)
(* output overlapped: they share the temporary file, and the code does not *)
(* keep what README says of such runs.                                     *)
(***************************************************************************)
OutputIsWhole == \A r \in Runs : output = r => Whole(r) \/ ~Alone(r)

(***************************************************************************)
(* A run that ends by itself removes its temporary file, unless it was the *)
(* rename that failed; what is at <output>.tmp otherwise belongs to a run  *)
(* that is under way or was killed.  Runs may overlap in every way.        *)
(***************************************************************************)
TmpIsCleaned ==
  \A r \in Runs :
    tmp = r => Active(r) \/ pc[r] = "killed" \/ err[r] = "rename"

(***************************************************************************)
(* A run that reports success, with --verify or without, has its own whole *)
(* file at the output, unless somebody else wrote there after its rename   *)
(* or another run overlapped it: never a file that an earlier run left at  *)
(* <output>.tmp, and never the one it was to replace.                      *)
(***************************************************************************)
SuccessIsOwn ==
  [][\A r \in Runs :
       pc'[r] = "ok" /\ pc[r] # "ok" /\ Alone(r) /\ r \notin stale
         => output = r /\ Whole(r)]_fileVars

(***************************************************************************)
(* A run without --overwrite puts no file in place of one that was at the  *)
(* output when it checked: what it replaces was put there between the      *)
(* check and the rename (Merge).  README says more, that the output "must  *)
(* not exist unless --overwrite is given", which the code does not keep in *)
(* that window.                                                            *)
(***************************************************************************)
KnownOutputIsKept ==
  [][\A r \in Runs :
       pc[r] = "rename" /\ pc'[r] = "stat" /\ output # Nobody
         => overwrite[r] \/ r \in stale]_fileVars
=============================================================================
