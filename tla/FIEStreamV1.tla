----------------------------- MODULE FIEStreamV1 -----------------------------
(***************************************************************************)
(* The streams of FIEs of v1: compressed_fie_stream.go and                 *)
(* full_fie_stream.go in deprecated/internal/streams.  A stream counts the *)
(* rows of all capture files when it is made, and reads them again, file   *)
(* after file, when it is iterated: each item is a row or an error, and an *)
(* error is the last one.                                                  *)
(***************************************************************************)
EXTENDS EventsV1

CONSTANTS
  Inputs,       \* what the capture and event files may hold
  Sample,       \* the PDs that --pdid-percent and --seed choose
  BatchSize     \* how many rows the stream's reader writes at a time

ASSUME InputsAssumption ==
  \A in \in Inputs :
    /\ in.log \in Seq(ToSet(in.log))
    /\ \A e \in ToSet(in.log) : IsConnection(e) => e.at \in Int
    /\ in.files \in Seq(ToSet(in.files))
    /\ \A f \in ToSet(in.files) : /\ f.rows \in Seq(ToSet(f.rows))
                                  /\ \A r \in ToSet(f.rows) : r.at \in Int

VARIABLES
  input,        \* the files: those of the captures, and the event log
  where,        \* the filter: none, all, a sample, or a list of PDs
  full,         \* whether it is a stream of full FIEs
  history,      \* the agents' connections, sorted, by the agent
  given,        \* how many items the stream has given
  streamEnd     \* whether there is more, or how the stream ended

streamVars == <<input, where, full, history, given, streamEnd>>

StreamInit ==
  /\ input \in Inputs
  /\ where \in {"none", "all", "sample", "pdids"}
  /\ full \in BOOLEAN
  /\ history \in {ByAgent(es) : es \in Sorted(input.log)}
  /\ given = 0
  /\ streamEnd = "more"

Passes(row) == where = "sample" => row.pd \in Sample

\* The rows of a file that pass the filter, in their order.
PassingRows(f) ==
  FlattenSeq([i \in DOMAIN f.rows |-> IF Passes(f.rows[i]) THEN <<f.rows[i]>> ELSE <<>>])

\* Those of the first n files, in the files' order.
Selected(n) == FlattenSeq([k \in 1..n |-> PassingRows(input.files[k])])

Wanted == Selected(Len(input.files))

\* Len: what NewCompressedFIEStream counted, which does not look at the names.
Total == Len(Wanted)

\* --pdids makes a condition without WHERE, which no file's query accepts.
CanCount == where # "pdids" \/ input.files = <<>>

\* The first file whose name has no time ends the stream.
Readable ==
  LET bad == {k \in DOMAIN input.files : ~input.files[k].named}
  IN  IF bad = {} THEN Wanted
      ELSE Selected((CHOOSE k \in bad : \A j \in bad : k <= j) - 1)

\* construct: the row's directive is known and its agent was connected.
Constructs(row) ==
  \E pd \in ToSet(Directives(input.log)) :
    pd.id = row.pd /\ AddressAt(history, pd.agent, row.at) # NoAddress

\* Making the stream fails before any row of it is read.
CanMake ==
  /\ CanCount
  /\ full => CanRead(input.log) /\ Distinct(Directives(input.log))
-----------------------------------------------------------------------------
\* The next row, with the number of rows given as its sequence number.
GiveRow ==
  /\ streamEnd = "more"
  /\ given < Len(Readable)
  /\ full => Constructs(Readable[given + 1])
  /\ given' = given + 1
  /\ UNCHANGED <<input, where, full, history, streamEnd>>

\* A file cannot be opened or read, its name has no time, or the row cannot
\* be completed: an item with the error.
GiveError ==
  /\ streamEnd = "more"
  /\ given' = given + 1
  /\ streamEnd' = "failed"
  /\ UNCHANGED <<input, where, full, history>>

EndStream ==
  /\ streamEnd = "more"
  /\ given = Total
  /\ Readable = Wanted
  /\ streamEnd' = "ended"
  /\ UNCHANGED <<input, where, full, history, given>>

IsError(i) == streamEnd = "failed" /\ i = given
-----------------------------------------------------------------------------
(***************************************************************************)
(* The address that a full FIE gets is the one of a last event of its      *)
(* agent at or before the capture, whatever events have the same time; if  *)
(* that was a disconnection there is no such FIE.                          *)
(***************************************************************************)
AddressIsCurrent ==
  \A row \in ToSet(Wanted), pd \in ToSet(Directives(input.log)) :
    LET agent == pd.agent
        t == row.at
        past == {e \in ToSet(input.log) : IsConnection(e) /\ e.agent = agent /\ e.at <= t}
        latest == {e \in past : \A f \in past : f.at <= e.at}
    IN  AddressAt(history, agent, t) \in
          IF latest = {} THEN {NoAddress} ELSE {AddressOf(e) : e \in latest}
=============================================================================
