------------------------------ MODULE MergeRows ------------------------------
(***************************************************************************)
(* The rows of merge-fies: CheckLayout, the COPY of mergeSQL and Verify in *)
(* internal/fies/merge.go, on top of Open and Plan of Source, and the same *)
(* rows as upload-fies has them, Convert2a in internal/fies/row.go.        *)
(* MergeFile has what happens to the files meanwhile.                      *)
(*                                                                         *)
(* The COPY counts in whole seconds from the start of a file cut down to   *)
(* one; upload-fies counts from the start itself.  A value that can be     *)
(* NULL is a set of at most one number.  The near and the far reply are    *)
(* treated alike: a row has one of them here.                              *)
(***************************************************************************)
EXTENDS Source

CONSTANTS
  Fie,          \* by a row's id, what it has besides Rows: transit, age, addr
  MaxFaults     \* how often the merged file gets damaged

ASSUME FieAssumption ==
  \A d \in Dirs : \A i \in DOMAIN d : \A k \in DOMAIN d[i].rows :
    LET fie == Fie[d[i].rows[k].id]
    IN  /\ fie.addr \in BOOLEAN
        /\ \A v \in {fie.transit, fie.age} :
             v \subseteq 0..255 /\ \A x, y \in v : x = y
ASSUME PDsAssumption == PDs \subseteq Nat
ASSUME FaultsAssumption == MaxFaults \in Nat

VARIABLES
  stage,        \* "upload" in upload-fies; what merge-fies does next, or its end
  at,           \* the file or the row that the loop of the stage looks at
  gaps,         \* the gaps CheckLayout found
  merged,       \* the rows of the merged file
  faults,       \* how often it was damaged
  back,         \* Verify: rows of an earlier segment than the row before
  unsorted      \* Verify: rows that come before the row before, in its segment

mergeVars == <<stage, at, gaps, merged, faults, back, unsorted>>
allVars == <<vars, mergeVars>>

end(f) == f.start + f.seconds * TicksPerSecond

\* time.Unix: whole seconds, never later than t.
Unix(t) == t \div TicksPerSecond

\* Variant: what is NULL counts as 0.
minusCoalesced(a, b) == {x - y : x \in a, y \in IF b = {} THEN {0} ELSE b}

\* Subtraction in SQL: NULL when either is.
minus(a, b) == {x - y : x \in a, y \in b}

\* The SELECT list of the COPY.
mergedRow(f, r) ==
  LET capture == Unix(f.start) + r.second
      built == minus({capture}, Fie[r.id].transit)
  IN  [pd |-> r.pd, capture |-> capture, built |-> built,
       reply |-> minus(built, Fie[r.id].age)]

\* recvTime and Convert2a, in ticks.
recvTime(capture, fie) ==
  IF fie.addr
    THEN {capture - (t + a) * TicksPerSecond : t \in fie.transit, a \in fie.age}
    ELSE {}

Convert2a(f, r) ==
  LET capture == f.start + r.second * TicksPerSecond
  IN  [pd |-> r.pd, capture |-> capture, addr |-> Fie[r.id].addr,
       reply |-> recvTime(capture, Fie[r.id])]

MergeInit ==
  /\ Init
  /\ stage \in {"upload", "plan"}
  /\ stage = "plan" => /\ filter = [pds |-> PDs, start |-> {}, end |-> {}]
                       /\ asked = [offset |-> 0, limit |-> -1]
  /\ at = 2
  /\ gaps = <<>>
  /\ merged = <<>>
  /\ faults = 0
  /\ back = 0
  /\ unsorted = 0
-----------------------------------------------------------------------------
\* runMerge opens and plans as upload-fies does, with the zero filter.
OpenAndPlan ==
  /\ stage = "plan"
  /\ Open \/ OpenFails \/ PlanFile \/ PlanFails
  /\ UNCHANGED mergeVars

StartLayout ==
  /\ stage = "plan"
  /\ step = "plan"
  /\ Len(counts) = Len(files)
  /\ stage' = "layout"
  /\ UNCHANGED <<vars, at, gaps, merged, faults, back, unsorted>>

\* Variant: only files of the same start overlap.
fitsAfterStart(f, g) == g.start > f.start

\* Not cur.IntervalStart.Before(end).
fits(f, g) == g.start >= end(f)

\* CheckLayout, in one round: the file does not overlap the one before it.  A
\* later call in Merge finds the same.
FileFits ==
  /\ stage = "layout"
  /\ at <= Len(files)
  /\ fits(files[at - 1], files[at])
  /\ gaps' = IF files[at].start > end(files[at - 1])
             THEN Append(gaps, [from |-> end(files[at - 1]), to |-> files[at].start])
             ELSE gaps
  /\ at' = at + 1
  /\ UNCHANGED <<vars, stage, merged, faults, back, unsorted>>

FileOverlaps ==
  /\ stage = "layout"
  /\ at <= Len(files)
  /\ ~fits(files[at - 1], files[at])
  /\ stage' = "overlap"
  /\ UNCHANGED <<vars, at, gaps, merged, faults, back, unsorted>>

LayoutDone ==
  /\ stage = "layout"
  /\ at > Len(files)
  /\ stage' = "copy"
  /\ at' = 1
  /\ UNCHANGED <<vars, gaps, merged, faults, back, unsorted>>

\* The COPY, which keeps the order of insertion: the rows of the next file of
\* the list.
CopyFile ==
  /\ stage = "copy"
  /\ at <= Len(files)
  /\ merged' = merged \o [k \in DOMAIN files[at].rows |->
                            mergedRow(files[at], files[at].rows[k])]
  /\ at' = at + 1
  /\ UNCHANGED <<vars, stage, gaps, faults, back, unsorted>>

Copied ==
  /\ stage = "copy"
  /\ at > Len(files)
  /\ stage' = "merged"
  /\ UNCHANGED <<vars, at, gaps, merged, faults, back, unsorted>>

\* The file at the output is not the one that was to be written: DuckDB put
\* rows in another order or wrote one in place of another, or the file was
\* exchanged or cut after the rename.
Damage ==
  /\ stage = "merged"
  /\ faults < MaxFaults
  /\ \/ \E i, j \in DOMAIN merged :
          merged' = [merged EXCEPT ![i] = merged[j], ![j] = merged[i]]
     \/ \E i, j \in DOMAIN merged : merged' = [merged EXCEPT ![i] = merged[j]]
     \/ merged # <<>> /\ merged' = Tail(merged)
  /\ faults' = faults + 1
  /\ UNCHANGED <<vars, stage, at, gaps, back, unsorted>>
-----------------------------------------------------------------------------
origin == Unix(files[1].start)
secs == files[1].seconds
segment(t) == (t - origin) \div secs

Aligned ==
  \A i \in DOMAIN files : /\ files[i].seconds = secs
                          /\ (Unix(files[i].start) - origin) % secs = 0

\* The rows each segment has to have; the last file of one segment counts.
want ==
  LET seg == [i \in DOMAIN files |-> segment(Unix(files[i].start))]
  IN  [s \in {seg[i] : i \in DOMAIN files} |->
         counts[CHOOSE i \in DOMAIN files :
                  seg[i] = s /\ \A j \in DOMAIN files : seg[j] = s => j <= i]]

\* Without --verify the command ends here.
NotVerified ==
  /\ stage = "merged"
  /\ stage' = "done"
  /\ UNCHANGED <<vars, at, gaps, merged, faults, back, unsorted>>

Verify ==
  /\ stage = "merged"
  /\ stage' = IF Aligned THEN "verify" ELSE "unverifiable"
  /\ at' = 1
  /\ UNCHANGED <<vars, gaps, merged, faults, back, unsorted>>

\* Variant: rows of one PD are not compared by their time.
misplacedPD(row, last) == row.pd < last.pd

\* pd_id < ppd OR (pd_id = ppd AND capture_time < pt).
misplaced(row, last) ==
  \/ row.pd < last.pd
  \/ row.pd = last.pd /\ row.capture < last.capture

\* The window of the query: every row against the one before it.
VerifyRow ==
  /\ stage = "verify"
  /\ at <= Len(merged)
  /\ at' = at + 1
  /\ LET here == segment(merged[at].capture)
         last == segment(merged[at - 1].capture)
     IN  /\ back' = IF at > 1 /\ here < last THEN back + 1 ELSE back
         /\ unsorted' = IF at > 1 /\ here = last /\ misplaced(merged[at], merged[at - 1])
                        THEN unsorted + 1
                        ELSE unsorted
  /\ UNCHANGED <<vars, stage, gaps, merged, faults>>

\* count(*) of GROUP BY seg.
inSegment(s) ==
  Cardinality({k \in 1..Len(merged) : segment(merged[k].capture) = s})

CountsAgree ==
  /\ \A k \in DOMAIN merged : segment(merged[k].capture) \in DOMAIN want
  /\ \A s \in DOMAIN want : inSegment(s) = want[s]

\* The groups were read, and what no group had is wanted without rows.
Verified ==
  /\ stage = "verify"
  /\ at > Len(merged)
  /\ stage' = IF back = 0 /\ unsorted = 0 /\ CountsAgree THEN "verified" ELSE "refuted"
  /\ UNCHANGED <<vars, at, gaps, merged, faults, back, unsorted>>

MergeEnded ==
  /\ \/ stage \in {"overlap", "done", "unverifiable", "verified", "refuted"}
     \/ stage = "plan" /\ step = "failed"
  /\ UNCHANGED allVars

MergeNext == \/ stage = "upload" /\ Next /\ UNCHANGED mergeVars
             \/ OpenAndPlan \/ StartLayout
             \/ FileFits \/ FileOverlaps \/ LayoutDone
             \/ CopyFile \/ Copied \/ Damage
             \/ NotVerified \/ Verify \/ VerifyRow \/ Verified
             \/ MergeEnded

MergeSpec == MergeInit /\ [][MergeNext]_allVars
-----------------------------------------------------------------------------
LaidOut == stage \in {"copy", "merged", "done", "verify", "unverifiable",
                      "verified", "refuted"}

MergedRows == [pd : PDs, capture : Int, built : SUBSET Int, reply : SUBSET Int]

\* The files of the directory, oldest first.
FilesInv ==
  /\ Len(files) > 0
  /\ \A i \in DOMAIN files : \E d \in DOMAIN dir : files[i] = dir[d]
  /\ \A i \in DOMAIN files : \A j \in 1..i - 1 : files[j].start <= files[i].start

\* The first n files do not overlap, and the gaps are the times between them.
LaidUpTo(n) ==
  /\ \A i \in 1..n : \A j \in 1..i - 1 : end(files[j]) <= files[i].start
  /\ \A g \in 1..Len(gaps) : gaps[g].to <= files[n].start
  /\ \A t \in files[1].start..end(files[n]) - 1 :
       (\E g \in 1..Len(gaps) : gaps[g].from <= t /\ t < gaps[g].to)
         <=> ~ \E i \in 1..n : files[i].start <= t /\ t < end(files[i])

NotAfter(row, later) ==
  \/ row.pd < later.pd
  \/ row.pd = later.pd /\ row.capture <= later.capture

Precedes(row, later) ==
  \/ segment(row.capture) < segment(later.capture)
  \/ segment(row.capture) = segment(later.capture) /\ NotAfter(row, later)

\* Verify's counters are 0 as long as any two of the rows are in order.
ScannedUpTo(n) ==
  back = 0 /\ unsorted = 0
    <=> \A k \in 1..n : \A j \in 1..k - 1 : Precedes(merged[j], merged[k])

MergeInv ==
  /\ stage \in {"upload", "plan", "layout", "overlap", "copy", "merged", "done",
                "verify", "unverifiable", "verified", "refuted"}
  /\ at \in Nat \ {0}
  /\ gaps \in Seq([from : Int, to : Int])
  /\ merged \in Seq(MergedRows)
  /\ faults \in 0..MaxFaults
  /\ back \in Nat /\ unsorted \in Nat
  /\ stage = "plan" => /\ step \in {"open", "plan", "failed"}
                       /\ filter = [pds |-> PDs, start |-> {}, end |-> {}]
                       /\ step = "plan" => FilesInv
  /\ stage \in {"upload", "plan"} => at = 2 /\ gaps = <<>>
  /\ stage \notin {"upload", "plan"}
       => step = "plan" /\ Len(counts) = Len(files) /\ FilesInv
  /\ stage \in {"layout", "overlap"} => at \in 2..Len(files) + 1 /\ LaidUpTo(at - 1)
  /\ stage = "overlap" => at <= Len(files) /\ ~fits(files[at - 1], files[at])
  /\ LaidOut => LaidUpTo(Len(files))
  /\ stage \in {"verify", "verified", "refuted"}
       => Aligned /\ at <= Len(merged) + 1 /\ ScannedUpTo(at - 1)
  /\ stage \in {"verified", "refuted"}
       => /\ at = Len(merged) + 1
          /\ stage = "verified" <=> back = 0 /\ unsorted = 0 /\ CountsAgree
  /\ stage \notin {"verify", "verified", "refuted"} => back = 0 /\ unsorted = 0

(***************************************************************************)
(* CheckLayout compares neighbours only.  What it lets through has no two  *)
(* files that overlap, and the gaps it warns of are exactly the times      *)
(* between the first file's start and the last one's end that no file      *)
(* covers; what it refuses has files that overlap (README, merge-fies:     *)
(* "refuses files whose intervals overlap and warns about gaps").          *)
(***************************************************************************)
LayoutIsExact ==
  /\ LaidOut =>
       /\ \A i \in DOMAIN files : \A j \in 1..i - 1 : end(files[j]) <= files[i].start
       /\ \A t \in files[1].start..end(files[Len(files)]) - 1 :
            (\E g \in DOMAIN gaps : gaps[g].from <= t /\ t < gaps[g].to)
              <=> ~ \E i \in DOMAIN files : files[i].start <= t /\ t < end(files[i])
  /\ stage = "overlap" =>
       \E i, j \in DOMAIN files :
         i # j /\ files[i].start < end(files[j]) /\ files[j].start < end(files[i])

\* The rows of the directory as upload-fies puts them into its table.
Uploaded(p) ==
  FlattenSeq([n \in DOMAIN p |-> [k \in DOMAIN dir[p[n]].rows |->
                                    Convert2a(dir[p[n]], dir[p[n]].rows[k])]])

\* A merged row and a stored one are of one FIE.
SameFie(row, stored) ==
  /\ row.pd = stored.pd
  /\ row.capture = Unix(stored.capture)
  /\ stored.addr => row.reply = {Unix(t) : t \in stored.reply}

(***************************************************************************)
(* The merged file and a table that upload-fies makes of the same          *)
(* directory agree: the same rows in the same order, each with the time of *)
(* its capture and the times of its replies, in whole seconds - although   *)
(* one subtracts step by step in SQL from the second a file starts in and  *)
(* the other sums up in Go from the start itself.  Where there is an       *)
(* address, a reply's time is NULL in one exactly when it is in the other. *)
(* Of a reply without an address the table has no time and the merged file *)
(* may have one (mergeSQL against recvTime).                               *)
(***************************************************************************)
MergeAgreesWithUpload ==
  LaidOut /\ stage # "copy" /\ faults = 0 =>
    \E p \in Sorted(DOMAIN dir) :
      LET table == Uploaded(p)
      IN  /\ Len(merged) = Len(table)
          /\ \A k \in DOMAIN table : SameFie(merged[k], table[k])

\* What Verify is for, said without segments: the rows of the files' intervals
\* follow each other, each as many as planned, sorted within.
Within(row, f) ==
  Unix(f.start) <= row.capture /\ row.capture < Unix(f.start) + f.seconds

InOrder(row, later) ==
  /\ \A f \in {files[i] : i \in DOMAIN files} :
       Within(later, f) => row.capture < Unix(f.start) + f.seconds
  /\ (\E i \in DOMAIN files : Within(row, files[i]) /\ Within(later, files[i]))
       => NotAfter(row, later)

WellMerged ==
  /\ \A k \in DOMAIN merged : \E i \in DOMAIN files : Within(merged[k], files[i])
  /\ \A i \in DOMAIN files :
       Cardinality({k \in DOMAIN merged : Within(merged[k], files[i])}) = counts[i]
  /\ \A k \in DOMAIN merged : \A j \in 1..k - 1 : InOrder(merged[j], merged[k])

(***************************************************************************)
(* --verify compares each row with the one before it only, and counts by   *)
(* integer division.  It accepts a file exactly when any two of its rows   *)
(* are in the order of the files and sorted within one, and every file's   *)
(* interval has its rows (README, "--verify: rows per segment, segment     *)
(* order, (pd_id, capture_time) order within each segment").               *)
(***************************************************************************)
VerifyIsExact ==
  /\ stage = "verified" => WellMerged
  /\ stage = "refuted" => ~WellMerged

SortedFile(f) ==
  \A k \in DOMAIN f.rows : \A j \in 1..k - 1 :
    NotAfter(mergedRow(f, f.rows[j]), mergedRow(f, f.rows[k]))

=============================================================================
