------------------------------- MODULE Source -------------------------------
(***************************************************************************)
(* Which rows of the capture files upload-fies selects: Open, Plan, Window *)
(* and Rows in internal/fies/source.go.  The files whose interval overlaps *)
(* [start, end) are kept in the order of their intervals, the rows passing *)
(* the filter are counted per file, the offset and the limit are turned    *)
(* into one read per file, and the reads are done one after the other.     *)
(*                                                                         *)
(* Times are counted in ticks; capture seconds are whole seconds from the  *)
(* start of their file's interval.  A filter's bound is a set of at most   *)
(* one time, empty when it is not given.  What PD IDs or a PD sample keep  *)
(* of the rows is a set of PDs: the sample is a function of the PD alone.  *)
(***************************************************************************)
EXTENDS Integers, Sequences, FiniteSets, SequencesExt

CONSTANTS
  TicksPerSecond,
  PDs,
  Dirs,         \* the directories to choose from
  Filters,      \* the filters to choose from
  Offsets,      \* values of --offset
  Limits        \* values of --limit, negative for none

Rows == [id : Nat, pd : PDs, second : Nat]
Files == [start : Int, seconds : Nat \ {0}, rows : Seq(Rows), ok : BOOLEAN]

ASSUME TicksAssumption == TicksPerSecond \in Nat \ {0}
ASSUME DirsAssumption ==
  \A d \in Dirs : d \in Seq(Files) /\ \A i \in DOMAIN d, j \in DOMAIN d :
    \A k \in DOMAIN d[i].rows, l \in DOMAIN d[j].rows :
      /\ d[i].rows[k].second < d[i].seconds
      /\ d[i].rows[k].id = d[j].rows[l].id => i = j /\ k = l
ASSUME FiltersAssumption ==
  \A f \in Filters : /\ f.pds \subseteq PDs
                     /\ \A b \in {f.start, f.end} :
                          b \subseteq Int /\ \A s, t \in b : s = t
ASSUME WindowAssumption == Offsets \subseteq Nat /\ Limits \subseteq Int

VARIABLES
  step,         \* "open", "plan", "window", "read", "done" or "failed"
  dir,          \* what the directory holds, in the order of the names
  filter,       \* the flags: pds, start, end
  asked,        \* --offset and --limit
  files,        \* the files kept, oldest interval first
  counts,       \* the rows passing the filter, per file counted so far
  offset,       \* Window: rows still to skip
  limit,        \* Window: rows still to take, negative for no limit
  next,         \* Window: the file it looks at; later, the read to do
  passed,       \* Window: how many rows the files before that one have
  reads,        \* the reads planned
  out           \* the rows read

vars == <<step, dir, filter, asked, files, counts, offset, limit, next, passed,
          reads, out>>
flags == <<dir, filter, asked>>

\* Variant: fractions of a second are cut off.
floorSeconds(d) == d \div TicksPerSecond

\* The least number of whole seconds that is not less than d.
ceilSeconds(d) == -((-d) \div TicksPerSecond)

\* A file ends one interval after its start; both bounds exclude their end.
overlaps(f) ==
  /\ \A t \in filter.start : f.start + f.seconds * TicksPerSecond > t
  /\ \A t \in filter.end : f.start < t

\* The WHERE clause: a bound is left out where it cannot cut the file.
where(f, r) ==
  /\ r.pd \in filter.pds
  /\ \A t \in filter.start :
       LET from == ceilSeconds(t - f.start)
       IN  from > 0 => r.second >= from
  /\ \A t \in filter.end :
       LET to == ceilSeconds(t - f.start)
       IN  to < f.seconds => r.second < to

\* SELECT count(*) of the rows that pass.
Count(f) == Cardinality({i \in 1..Len(f.rows) : where(f, f.rows[i])})

\* The rows that pass, in the file's order.
Passing(f) ==
  FlattenSeq([k \in DOMAIN f.rows |-> IF where(f, f.rows[k]) THEN <<f.rows[k]>> ELSE <<>>])

Smaller(a, b) == IF a < b THEN a ELSE b

\* The indices in K in an order of their files' intervals; files of the same
\* start can be in any.
Sorted(K) ==
  {p \in [1..Cardinality(K) -> K] :
     \A i, j \in 1..Cardinality(K) :
       i < j => p[i] # p[j] /\ dir[p[i]].start <= dir[p[j]].start}

Init ==
  /\ step = "open"
  /\ dir \in Dirs
  /\ filter \in Filters
  /\ asked \in [offset : Offsets, limit : Limits]
  /\ files = <<>>
  /\ counts = <<>>
  /\ offset = asked.offset
  /\ limit = asked.limit
  /\ next = 1
  /\ passed = 0
  /\ reads = <<>>
  /\ out = <<>>

\* Filter.Validate, the files of the directory, the metadata of each, and the
\* table of the PD IDs asked for.
CanOpen ==
  /\ \A s \in filter.start, e \in filter.end : s < e
  /\ dir # <<>>
  /\ \A i \in DOMAIN dir : dir[i].ok

Open ==
  /\ step = "open"
  /\ CanOpen
  /\ \E p \in Sorted({i \in DOMAIN dir : overlaps(dir[i])}) :
       files' = [i \in DOMAIN p |-> dir[p[i]]]
  /\ step' = "plan"
  /\ UNCHANGED <<flags, counts, offset, limit, next, passed, reads,
                 out>>

OpenFails ==
  /\ step = "open"
  /\ ~CanOpen
  /\ step' = "failed"
  /\ UNCHANGED <<flags, files, counts, offset, limit, next, passed, reads,
                 out>>

\* Plan counts the next file.
PlanFile ==
  /\ step = "plan"
  /\ Len(counts) < Len(files)
  /\ counts' = Append(counts, Count(files[Len(counts) + 1]))
  /\ UNCHANGED <<flags, step, files, offset, limit, next, passed, reads,
                 out>>

\* A query fails, or the context is done.
PlanFails ==
  /\ step = "plan"
  /\ Len(counts) < Len(files)
  /\ step' = "failed"
  /\ UNCHANGED <<flags, files, counts, offset, limit, next, passed, reads,
                 out>>

Planned ==
  /\ step = "plan"
  /\ Len(counts) = Len(files)
  /\ step' = "window"
  /\ UNCHANGED <<flags, files, counts, offset, limit, next, passed, reads,
                 out>>

\* Window, in one round of its loop: the offset covers the whole file.
SkipFile ==
  /\ step = "window"
  /\ next <= Len(files)
  /\ limit # 0
  /\ offset >= counts[next]
  /\ offset' = offset - counts[next]
  /\ passed' = passed + counts[next]
  /\ next' = next + 1
  /\ UNCHANGED <<flags, step, files, counts, limit, reads, out>>

\* How many rows of the file are taken.
Taken ==
  LET rest == counts[next] - offset
  IN  IF limit > 0 /\ limit < rest THEN limit ELSE rest

\* A round that takes a part of the file.  from says where the file's rows
\* begin among those of all files.
TakeFile ==
  /\ step = "window"
  /\ next <= Len(files)
  /\ limit # 0
  /\ offset < counts[next]
  /\ reads' = Append(reads, [file |-> next, offset |-> offset, limit |-> Taken,
                             from |-> passed])
  /\ limit' = IF limit > 0 THEN limit - Taken ELSE limit
  /\ offset' = 0
  /\ passed' = passed + counts[next]
  /\ next' = next + 1
  /\ UNCHANGED <<flags, step, files, counts, out>>

\* All files were looked at, or enough rows were found.
WindowEnds ==
  /\ step = "window"
  /\ next > Len(files) \/ limit = 0
  /\ step' = "read"
  /\ UNCHANGED <<flags, files, counts, offset, limit, next, passed, reads, out>>

\* Rows: the rows of the next read, in the file's order.
ReadFile ==
  /\ step = "read"
  /\ reads # <<>>
  /\ LET r == Head(reads)
     IN  out' = out \o SubSeq(Passing(files[r.file]), r.offset + 1,
                              r.offset + r.limit)
  /\ reads' = Tail(reads)
  /\ UNCHANGED <<flags, step, files, counts, offset, limit, next, passed>>

ReadsEnd ==
  /\ step = "read"
  /\ reads = <<>>
  /\ step' = "done"
  /\ UNCHANGED <<flags, files, counts, offset, limit, next, passed, reads, out>>

Ended == step \in {"done", "failed"} /\ UNCHANGED vars

Next == \/ Open \/ OpenFails
        \/ PlanFile \/ PlanFails \/ Planned
        \/ SkipFile \/ TakeFile \/ WindowEnds
        \/ ReadFile \/ ReadsEnd
        \/ Ended

Spec == Init /\ [][Next]_vars
-----------------------------------------------------------------------------
TypeOK ==
  /\ step \in {"open", "plan", "window", "read", "done", "failed"}
  /\ dir \in Dirs
  /\ asked \in [offset : Nat, limit : Int]
  /\ files \in Seq(Files)
  /\ counts \in Seq(Nat)
  /\ offset \in Nat
  /\ limit \in Int
  /\ next \in Nat \ {0}
  /\ passed \in Nat
  /\ reads \in Seq([file : Nat, offset : Nat, limit : Nat, from : Nat])

\* The position behind the last row that the files passed so far contribute.
Upto == IF asked.limit < 0 \/ passed < asked.offset + asked.limit
        THEN passed
        ELSE asked.offset + asked.limit

\* What Window's loop has done when it looks at the file next.
LoopInv ==
  /\ offset = IF passed < asked.offset THEN asked.offset - passed ELSE 0
  /\ asked.limit < 0 => limit = asked.limit
  /\ asked.limit >= 0
       => limit = asked.limit
                  - (IF Upto > asked.offset THEN Upto - asked.offset ELSE 0)
  /\ reads = <<>> <=> Upto <= asked.offset

\* The reads are parts of their files, and lie one behind the other among the
\* rows of all files, from the offset on.
ReadsInv ==
  /\ \A i \in 1..Len(reads) :
       /\ reads[i].file < next
       /\ reads[i].file <= Len(counts)
       /\ reads[i].limit > 0
       /\ reads[i].offset + reads[i].limit <= counts[reads[i].file]
       /\ reads[i].offset # 0 => i = 1
       /\ reads[i].from + reads[i].offset =
            IF i = 1
            THEN asked.offset
            ELSE reads[i - 1].from + reads[i - 1].offset + reads[i - 1].limit
  /\ reads # <<>>
       => reads[Len(reads)].from + reads[Len(reads)].offset
            + reads[Len(reads)].limit = Upto

WindowInv ==
  /\ TypeOK
  /\ step \in {"open", "plan"}
       => /\ offset = asked.offset
          /\ limit = asked.limit
          /\ next = 1
          /\ passed = 0
          /\ reads = <<>>
  /\ step = "window" => Len(counts) = Len(files) /\ LoopInv /\ ReadsInv

\* The rows of the directory that were captured in the time asked for, of the
\* PDs asked for, in an order p of its files.
Captured(f, r) == f.start + r.second * TicksPerSecond

Matches(f, r) ==
  /\ r.pd \in filter.pds
  /\ \A t \in filter.start : Captured(f, r) >= t
  /\ \A t \in filter.end : Captured(f, r) < t

MatchingRows(f) ==
  FlattenSeq([k \in DOMAIN f.rows |-> IF Matches(f, f.rows[k]) THEN <<f.rows[k]>> ELSE <<>>])

Matching(p) == FlattenSeq([n \in DOMAIN p |-> MatchingRows(dir[p[n]])])

-----------------------------------------------------------------------------
(***************************************************************************)
(* The rows uploaded are the rows the flags ask for: of all rows captured  *)
(* at or after --start and before --end, whose PD is selected, in the      *)
(* order of the files' intervals and then of the rows in them, those from  *)
(* --offset on, --limit of them - with bounds that fall between two        *)
(* seconds, files that the offset or the limit ends exactly at, and empty  *)
(* files (README, "Filters combine with AND").                             *)
(***************************************************************************)
SelectionIsExact ==
  step = "done" =>
    \E p \in Sorted(DOMAIN dir) :
      LET all == Matching(p)
          last == IF asked.limit < 0 THEN Len(all) ELSE asked.offset + asked.limit
      IN  out = SubSeq(all, asked.offset + 1, Smaller(last, Len(all)))

(***************************************************************************)
(* The reads that Window plans are, among the rows of all files, exactly   *)
(* the positions from the offset on, up to the limit or the end of the     *)
(* files; no read is empty, none goes past its file, and only the first    *)
(* one starts in the middle of a file (README, "only the file where the    *)
(* offset lands is read from the middle").                                 *)
(***************************************************************************)
WindowIsExact ==
  step = "window" /\ (next > Len(files) \/ limit = 0) =>
    /\ ReadsInv
    /\ reads = <<>> => Upto <= asked.offset
    /\ next <= Len(files) => asked.limit >= 0
                             /\ (reads # <<>> => Upto = asked.offset + asked.limit)
=============================================================================
