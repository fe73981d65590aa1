-------------------------------- MODULE MCV1 ---------------------------------
(***************************************************************************)
(* Two capture files, one of them perhaps with a name that has no time,    *)
(* and the events of two agents, with a reconnection at the time of a      *)
(* disconnection and captures at, between and before the events.           *)
(***************************************************************************)
EXTENDS V1

Event(type, agent, at, address, pds) == [type |-> type, agent |-> agent, at |-> at, address |-> address, pds |-> pds]
Connected(agent, at, address) == Event("AgentConnectedEvent", agent, at, address, <<>>)
Disconnected(agent, at) == Event("AgentDisconnectedEvent", agent, at, "x", <<>>)
Inserted2(pds) == Event("PDBulkInsertionEvent", "x", 0, "x", pds)
Bad == Event("bad", "x", 0, "x", <<>>)
PD(id, agent) == [id |-> id, agent |-> agent]
Row(pd, at) == [pd |-> pd, at |-> at]
File(fies) == [named |-> TRUE, rows |-> fies]

PDs == <<PD(1, "a"), PD(2, "b")>>

Log == <<Inserted2(PDs), Connected("a", 1, "i"), Connected("b", 2, "k"),
         Disconnected("a", 3), Connected("a", 3, "j"), Disconnected("b", 4)>>

MCInputs ==
  {[files |-> <<File(<<Row(1, 1), Row(2, 2), Row(1, 2)>>), File(<<Row(1, 3)>>)>>, log |-> Log],
   [files |-> <<File(<<Row(1, 2), Row(1, 4)>>), File(<<Row(2, 3)>>)>>, log |-> Log],
   [files |-> <<File(<<Row(2, 5), Row(1, 0)>>)>>, log |-> Log],
   [files |-> <<File(<<Row(1, 2)>>), [named |-> FALSE, rows |-> <<Row(2, 2)>>]>>, log |-> Log],
   [files |-> <<File(<<Row(1, 2)>>)>>, log |-> Log \o <<Inserted2(<<PD(2, "a")>>)>>],
   [files |-> <<File(<<Row(3, 2)>>)>>, log |-> Log \o <<Bad>>],
   [files |-> <<>>, log |-> <<>>]}

MCSample == {1}
=============================================================================
