---------------------------- MODULE UploadPDFile ----------------------------
(***************************************************************************)
(* upload-pds together with the reader of its file: each call of Next in   *)
(* transferPDs is a step of UploadPDs and of PDReader.  UploadPDs knows    *)
(* only how many PDs it will be given and how that ends; both follow from  *)
(* the file.                                                               *)
(***************************************************************************)
EXTENDS UploadPDs, PDReader

fileVars == <<vars, pdVars>>

NonBlank == {i \in DOMAIN pdFile.lines : ~Blank(i)}

\* The lines that cannot be uploaded: no PD, or none of the IDs is left for it.
\* The last of the IDs is given to no line.
Refused ==
  {i \in NonBlank : \/ ~Parses(pdFile.lines[i])
                    \/ firstID + Cardinality({j \in NonBlank : j < i}) >= MaxID}

\* Those before the first such line.
Accepted == {i \in NonBlank : \A j \in Refused : i < j}

FileInit ==
  /\ NewReader
  /\ Init
  /\ input = Cardinality(Accepted)
  /\ ending = IF Refused = {} /\ pdFile.whole THEN "eof" ELSE "bad"

ReadBlank ==
  /\ Filling
  /\ reader = "reading"
  /\ SkipBlank
  /\ UNCHANGED vars

FileReaderStep == \/ ReadBlank
                  \/ NextPD /\ GivePD
                  \/ NextEOF /\ EndOfFile
                  \/ NextFails /\ (Refuse \/ ScanFails)

FileNext == \/ FileReaderStep
            \/ /\ \/ MainStep
                  \/ PipeStep /\ UNCHANGED <<input, ending>>
                  \/ Environment
                  \/ Ended
               /\ UNCHANGED pdVars

RunSpec == FileInit /\ [][FileNext]_fileVars

\* As FileSpec and StdinSpec of UploadPDs.
FileRunSpec == RunSpec /\ PipeFairness /\ WF_fileVars(FileReaderStep)
StdinRunSpec == RunSpec /\ PipeFairness
-----------------------------------------------------------------------------
\* The lines and the IDs that the table's rows have.
table == [k \in 1..Len(rows) |-> given[rows[k]]]

\* The PDs given so far have the IDs from --first-id on, in the file's order.
Counted ==
  /\ Len(given) = read
  /\ nextID = firstID + read
  /\ \A k \in 1..read : /\ given[k].id = firstID + k - 1
                        /\ given[k].line \in 1..line
  /\ \A k, l \in 1..read : k < l => given[k].line < given[l].line

\* Every non-blank line scanned was given, but for one that was refused.
Scanned ==
  \A i \in 1..line :
    \/ Blank(i)
    \/ \E k \in 1..read : given[k].line = i
    \/ i = line /\ reader = "done" /\ groupErr # NoErr

NumberInv ==
  /\ ReaderTypeOK
  /\ Counted
  /\ Scanned
  /\ reader = "flushing" \/ (reader = "done" /\ groupErr = NoErr)
       => line = Len(pdFile.lines)
  /\ phase = "verify" \/ Succeeded => reader = "done" /\ groupErr = NoErr

(***************************************************************************)
(* "PD IDs follow the file order" (README, upload-pds), in the table, at   *)
(* every time: its rows have the IDs from --first-id on without a gap or a *)
(* wrap at 32 bits, the k-th of them is the k-th non-blank line, and once  *)
(* the run succeeded no non-blank line is missing.                         *)
(***************************************************************************)
IDsFollowFile ==
  /\ \A k \in DOMAIN table :
       /\ table[k].id = firstID + k - 1
       /\ table[k].id <= MaxID
       /\ \A l \in 1..k - 1 : table[l].line < table[k].line
       /\ \A i \in NonBlank :
            i <= table[k].line => \E l \in 1..k : table[l].line = i
  /\ Succeeded => \A i \in NonBlank : \E k \in DOMAIN table : table[k].line = i
=============================================================================
