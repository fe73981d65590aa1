---------------------------- MODULE MCComputeFDHs ---------------------------
(***************************************************************************)
(* Instances of ComputeFDHs for TLC.                                       *)
(***************************************************************************)
EXTENDS ComputeFDHs

\* Two FIEs of one PD, and one of another.
MCFIEs == {1, 2, 3}
MCPDs == {"p", "q", "r"}
MCPDOf == [i \in MCFIEs |-> IF i = 3 THEN "q" ELSE "p"]

Table(f, p, q, r) ==
  [fies |-> f, pds |-> [d \in MCPDs |-> CASE d = "p" -> p [] d = "q" -> q
                                           [] d = "r" -> r]]

\* Nothing to join, no PD for an FIE, a PD each, a duplicated one, a
\* duplicated one that no FIE has.
MCInputs == {Table({}, 1, 1, 0), Table({1, 3}, 0, 1, 0), Table({1, 2}, 1, 0, 0),
             Table({1, 3}, 1, 2, 0), Table({2}, 1, 0, 2)}
=============================================================================
