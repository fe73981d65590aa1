------------------------------ MODULE EventsV1 -------------------------------
(***************************************************************************)
(* The event log of v1 and what is looked up in it: raw_event_stream.go,   *)
(* probing_directive_stream.go and agent_connection_history.go in          *)
(* deprecated/internal/streams.  An FIE names its probing directive, that  *)
(* names an agent, and the agent's address is the one it was connected     *)
(* from when the FIE was captured.                                         *)
(*                                                                         *)
(* An event is a record of its type, the agent, the time and the address,  *)
(* or the directives of a bulk insertion; a line that is no event, or      *)
(* names no address, is of type "bad".                                     *)
(***************************************************************************)
EXTENDS Integers, Sequences, SequencesExt

NoAddress == "none"

ConnectionTypes == {"AgentConnectedEvent", "AgentDisconnectedEvent"}

\* NewAgentConnectionStream fails on a line it cannot decode, and skips the
\* events of other types.
CanRead(log) == \A i \in DOMAIN log : log[i].type # "bad"

IsConnection(e) == e.type \in ConnectionTypes

\* The agent's address from the event on; a disconnected agent has none.
AddressOf(e) == IF e.type = "AgentConnectedEvent" THEN e.address ELSE NoAddress

\* The connection events, in the log's order.
Connections(log) ==
  FlattenSeq([i \in DOMAIN log |-> IF IsConnection(log[i]) THEN <<log[i]>> ELSE <<>>])

\* The same sorted by time.  sort.Slice is not stable: events of the same time
\* may come in any order.
Sorted(log) ==
  LET es == Connections(log)
      orders == {f \in [DOMAIN es -> DOMAIN es] :
                   /\ \A i, j \in DOMAIN es : f[i] = f[j] => i = j
                   /\ \A i, j \in DOMAIN es : i < j => es[f[i]].at <= es[f[j]].at}
  IN  {[i \in DOMAIN es |-> es[f[i]]] : f \in orders}

\* eventsByAgent: the events es of each agent, in their order.
EventsOf(es, agent) ==
  FlattenSeq([i \in DOMAIN es |-> IF es[i].agent = agent THEN <<es[i]>> ELSE <<>>])

ByAgent(es) == [agent \in {e.agent : e \in ToSet(es)} |-> EventsOf(es, agent)]

\* What a history has of an agent, nothing of one that was never connected.
Known(history, agent) == IF agent \in DOMAIN history THEN history[agent] ELSE <<>>

\* sort.Search: the first event that is not before t.
SearchTime(es, t) ==
  CHOOSE i \in 1..(Len(es) + 1) :
    /\ \A j \in 1..(i - 1) : es[j].at < t
    /\ i <= Len(es) => es[i].at >= t

\* Variant: the event found is used although it is after t.
AddressAtNext(history, agent, t) ==
  LET es == Known(history, agent)
      i == SearchTime(es, t)
  IN  IF i <= Len(es) THEN AddressOf(es[i]) ELSE IF i = 1 THEN NoAddress ELSE AddressOf(es[i - 1])

\* AddressAt: the event of just that time, or the last one before it.
AddressAt(history, agent, t) ==
  LET es == Known(history, agent)
      i == SearchTime(es, t)
  IN  IF i <= Len(es) /\ es[i].at = t THEN AddressOf(es[i])
      ELSE IF i = 1 THEN NoAddress ELSE AddressOf(es[i - 1])

\* pdByID: the directives of all bulk insertions.
Directives(log) ==
  FlattenSeq([i \in DOMAIN log |-> IF log[i].type = "PDBulkInsertionEvent"
                                     THEN log[i].pds ELSE <<>>])

\* NewFullFIEStreamWhere refuses a second directive of the same ID.
Distinct(pds) == \A i, j \in DOMAIN pds : pds[i].id = pds[j].id => i = j
=============================================================================
