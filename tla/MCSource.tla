------------------------------ MODULE MCSource ------------------------------
(***************************************************************************)
(* Instances of Source and MergeRows for TLC: half seconds, files of two   *)
(* seconds and one of three.                                               *)
(***************************************************************************)
EXTENDS MergeRows

row(i, p, s) == [id |-> i, pd |-> p, second |-> s]
file(t, rs) == [start |-> t, seconds |-> 2, rows |-> rs, ok |-> TRUE]

\* The seconds of a file that starts on a whole second, one that does not, one
\* without rows.
early == file(0, <<row(1, 1, 0), row(2, 1, 1), row(3, 2, 0)>>)
late == file(4, <<row(4, 1, 0), row(5, 2, 1)>>)
odd == file(3, <<row(6, 1, 0), row(7, 1, 1)>>)
empty == file(8, <<>>)
broken == [late EXCEPT !.ok = FALSE]

\* For merge-fies: the file after odd, one that is not sorted and comes after a
\* gap, one whose start is not aligned to early's, one of another length.
second == file(7, <<row(8, 1, 1), row(9, 2, 0)>>)
apart == file(8, <<row(10, 2, 0), row(11, 1, 1)>>)
skew == file(6, <<row(12, 1, 1)>>)
long == [file(4, <<row(13, 1, 2)>>) EXCEPT !.seconds = 3]

\* In the order of the names, which need not be that of the intervals; the
\* intervals can overlap or be the same.
MCDirs == {<<>>, <<early>>, <<late, early>>, <<empty, odd, early>>,
           <<early, empty, late>>, <<late, file(4, <<row(14, 2, 1)>>)>>,
           <<early, broken>>,
           <<second, odd>>, <<apart, early>>, <<early, skew>>, <<long, early>>}

\* Values and NULLs in every combination.
MCFie ==
  [i \in 1..14 |-> [transit |-> IF i % 4 = 3 THEN {} ELSE {i % 2},
                     age |-> IF i % 5 = 4 THEN {} ELSE {i % 3},
                     addr |-> i % 4 # 2]]

Bound == {{}, {1}, {2}, {3}, {4}, {5}}
MCFilters == [pds : {{1, 2}, {1}}, start : Bound, end : Bound]
MCLimits == {-1, 0, 1, 2, 3}
=============================================================================
