---------------------------- MODULE MCUploadPDs -----------------------------
(***************************************************************************)
(* Instances of UploadPDFile for TLC.                                      *)
(***************************************************************************)
EXTENDS UploadPDFile

pd == [blank |-> FALSE, json |-> TRUE, agent |-> TRUE, addr |-> "valid",
       protocol |-> ICMP, headers |-> {ICMP}]
blank == [pd EXCEPT !.blank = TRUE]
\* A protocol without its next header.
udp == [pd EXCEPT !.protocol = UDP]
zone == [pd EXCEPT !.addr = "zone"]

repeat(n) == [i \in 1..n |-> pd]
whole(ls) == [lines |-> ls, whole |-> TRUE]
cut(ls) == [lines |-> ls, whole |-> FALSE]

\* No PD, a part of a batch, full batches with and without a rest, more full
\* batches than the channel holds; blank lines before, between and after PDs;
\* a refused line first, within a batch, after one, and last.
MCPDFiles == {whole(<<>>), whole(<<blank, pd, blank>>),
              whole(<<pd, blank, pd, pd, pd>>), whole(repeat(9)),
              whole(<<zone, pd>>), whole(<<pd, pd, blank, udp, pd>>),
              cut(<<blank>>), cut(repeat(5)), whole(repeat(5) \o <<zone>>)}

\* From the second one, the IDs end with the fourth and the fifth line.
MCFirstIDs == {0, 5}
MCInputs == 0..9
=============================================================================
