-------------------------- MODULE SequentialUpload --------------------------
(***************************************************************************)
(* What upload-fies and upload-pds promise, without goroutines, channels,  *)
(* batches or calls that fail half way: a table is created, rows of the    *)
(* input are added to it in the input's order, and the run either commits, *)
(* which it may do only when all of them are there, or fails, which may    *)
(* take the table away again.  After that the run changes nothing.         *)
(***************************************************************************)
EXTENDS Integers, Sequences

VARIABLES
  table,        \* whose table has the run's name
  content,      \* the rows in our table
  outcome,      \* how the run ended
  whole,        \* how many rows the input has
  sound         \* the input can be uploaded: no row of it is invalid

vars == <<table, content, outcome, whole, sound>>

Init ==
  /\ table \in {"absent", "foreign"}
  /\ content = <<>>
  /\ outcome = "running"
  /\ whole \in Nat
  /\ sound \in BOOLEAN

\* The content after a step: the first rows of the input, no fewer than before.
Extended ==
  /\ Len(content') >= Len(content)
  /\ content' = [i \in 1..Len(content') |-> i]

Create ==
  /\ outcome = "running"
  /\ table = "absent"
  /\ table' = "ours"
  /\ UNCHANGED <<content, outcome, whole, sound>>

Insert ==
  /\ outcome = "running"
  /\ table = "ours"
  /\ Extended
  /\ UNCHANGED <<table, outcome, whole, sound>>

Commit ==
  /\ outcome = "running"
  /\ table = "ours"
  /\ sound
  /\ Len(content) = whole
  /\ outcome' = "ok"
  /\ UNCHANGED <<table, content, whole, sound>>

\* The run fails.  Its table is dropped, or kept; a table whose creation was
\* not acknowledged is left as it is, empty.
Abort ==
  /\ outcome = "running"
  /\ outcome' = "failed"
  /\ \/ UNCHANGED <<table, content>>
     \/ /\ table = "ours"
        /\ table' = "absent"
        /\ content' = <<>>
     \/ /\ table = "absent"
        /\ table' = "ours"
        /\ UNCHANGED content
  /\ UNCHANGED <<whole, sound>>

\* The process is killed, before the run ended or after; an insert in flight
\* may still arrive.
Kill ==
  /\ outcome # "killed"
  /\ outcome' = "killed"
  /\ \/ UNCHANGED content
     \/ outcome = "running" /\ table = "ours" /\ Extended
  /\ UNCHANGED <<table, whole, sound>>

\* Another client takes the name.
OtherCreates ==
  /\ table = "absent"
  /\ table' = "foreign"
  /\ UNCHANGED <<content, outcome, whole, sound>>

Next == Create \/ Insert \/ Commit \/ Abort \/ Kill \/ OtherCreates

Spec == Init /\ [][Next]_vars
=============================================================================
