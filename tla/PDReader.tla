------------------------------ MODULE PDReader ------------------------------
(***************************************************************************)
(* The reader of PD files: Parse and Reader.Next in internal/pds/pds.go.   *)
(* Every line that is not blank gets the next ID, from --first-id on, and  *)
(* the first one the orchestrator would refuse, or whose ID does not fit,  *)
(* ends the reading.                                                       *)
(*                                                                         *)
(* A line is what Parse looks at of it; a file is its lines and whether it *)
(* can be read to its end.                                                 *)
(***************************************************************************)
EXTENDS Integers, Sequences, FiniteSets

CONSTANTS
  MaxID,        \* ^uint32(0)
  PDFiles,      \* the files to choose from
  FirstIDs      \* values of --first-id

ICMP == 1
UDP == 17
ICMPv6 == 58

\* json says whether the line is a JSON object whose fields have their types
\* and ranges, headers the protocols whose next header it has.
Lines == [blank : BOOLEAN, json : BOOLEAN, agent : BOOLEAN,
          addr : {"valid", "zone", "invalid"}, protocol : Nat,
          headers : SUBSET {ICMP, UDP, ICMPv6}]

ASSUME PDFilesAssumption == PDFiles \subseteq [lines : Seq(Lines), whole : BOOLEAN]
ASSUME IDsAssumption == MaxID \in Nat /\ FirstIDs \subseteq 0..MaxID

VARIABLES
  pdFile,       \* the file
  firstID,      \* --first-id
  line,         \* how many lines were scanned
  nextID,       \* the ID of the next PD
  given         \* the PDs Next returned: the line and the ID of each

pdVars == <<pdFile, firstID, line, nextID, given>>

ReaderTypeOK ==
  /\ pdFile \in PDFiles
  /\ firstID \in FirstIDs
  /\ line \in 0..Len(pdFile.lines)
  /\ nextID \in 0..MaxID
  /\ given \in Seq([line : Nat, id : Nat])

NewReader ==
  /\ pdFile \in PDFiles
  /\ firstID \in FirstIDs
  /\ line = 0
  /\ nextID = firstID
  /\ given = <<>>

Blank(i) == pdFile.lines[i].blank

\* What Parse accepts.
Parses(l) ==
  /\ l.json
  /\ l.agent
  /\ l.addr = "valid"
  /\ l.protocol \in {ICMP, UDP, ICMPv6} \cap l.headers

\* r.nextID == ^uint32(0).
Exceeds == nextID = MaxID
-----------------------------------------------------------------------------
\* Variant: a blank line takes an ID.
SkipNumbersBlank ==
  /\ line < Len(pdFile.lines)
  /\ Blank(line + 1)
  /\ line' = line + 1
  /\ nextID' = (nextID + 1) % (MaxID + 1)
  /\ UNCHANGED <<pdFile, firstID, given>>

\* Next goes on to the following line.
SkipBlank ==
  /\ line < Len(pdFile.lines)
  /\ Blank(line + 1)
  /\ line' = line + 1
  /\ UNCHANGED <<pdFile, firstID, nextID, given>>

\* Variant: the ID is counted on before it is given.
GiveNextID ==
  /\ line < Len(pdFile.lines)
  /\ ~Blank(line + 1)
  /\ Parses(pdFile.lines[line + 1])
  /\ ~Exceeds
  /\ line' = line + 1
  /\ nextID' = (nextID + 1) % (MaxID + 1)
  /\ given' = Append(given, [line |-> line + 1, id |-> nextID'])
  /\ UNCHANGED <<pdFile, firstID>>

\* Next returns a PD.
GivePD ==
  /\ line < Len(pdFile.lines)
  /\ ~Blank(line + 1)
  /\ Parses(pdFile.lines[line + 1])
  /\ ~Exceeds
  /\ line' = line + 1
  /\ nextID' = (nextID + 1) % (MaxID + 1)
  /\ given' = Append(given, [line |-> line + 1, id |-> nextID])
  /\ UNCHANGED <<pdFile, firstID>>

\* Next returns an error that names the line.
Refuse ==
  /\ line < Len(pdFile.lines)
  /\ ~Blank(line + 1)
  /\ ~Parses(pdFile.lines[line + 1]) \/ Exceeds
  /\ line' = line + 1
  /\ UNCHANGED <<pdFile, firstID, nextID, given>>

\* The scanner fails: a line too long, a gzip stream cut short, a failed read.
ScanFails ==
  /\ line = Len(pdFile.lines)
  /\ ~pdFile.whole
  /\ UNCHANGED pdVars

\* Next returns io.EOF.
EndOfFile ==
  /\ line = Len(pdFile.lines)
  /\ pdFile.whole
  /\ UNCHANGED pdVars
=============================================================================
