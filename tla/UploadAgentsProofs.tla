-------------------------- MODULE UploadAgentsProofs -------------------------
(***************************************************************************)
(* Proofs about Snapshot, for every number of VMs and of --ssh-parallel:   *)
(* whatever the lookups return and in whatever order they end, a snapshot  *)
(* is whole and its progress is shown to the end.                          *)
(*                                                                         *)
(* And about AgentTable, for every set of runs: a table is dropped by the  *)
(* run that created it and by no other, and a snapshot is never put where  *)
(* it was not asked for.                                                   *)
(***************************************************************************)
EXTENDS Snapshot, AgentTable, FiniteSetTheorems, TLAPS

(***************************************************************************)
(* Where takeSnapshot is, and where its goroutines may be then.            *)
(***************************************************************************)
PhaseInv ==
  /\ pc = "list" => list = {}
  /\ pc \in {"start", "wait"} => ~noSSH
  /\ \A a \in Agents : lookup[a] # "none" => a \in list /\ ~noSSH
  /\ pc = "wait" => \A a \in list : lookup[a] # "none"
  /\ pc \in {"ok", "failed"} /\ ~noSSH => \A a \in list : lookup[a] = "returned"
  /\ pc = "ok" /\ ~noSSH => ~groupErr

(***************************************************************************)
(* What is in a VM's row at each step of its goroutine.                    *)
(***************************************************************************)
Sound(x) ==
  /\ x.image <=> x.error = "none"
  /\ x.service <=> x.error \in {"none", "no container"}

RowOK(a) ==
  /\ lookup[a] \in {"filled", "counted", "removed", "returned"} <=> row[a] # NotLookedUp
  /\ lookup[a] = "answered" => answer[a] # "none"
  /\ lookup[a] \in {"looking", "answered"} => a \in vmRunning
  /\ row[a] # NotLookedUp =>
       Sound(row[a]) /\ (row[a].error = "not running" <=> a \notin vmRunning)
  /\ row[a].error = "canceled" \/ answer[a] = "canceled" => interrupted
  /\ lookup[a] = "returned" /\ row[a].error = "canceled" => groupErr

RowInv ==
  /\ groupErr => interrupted
  /\ \A a \in Agents : RowOK(a)

(***************************************************************************)
(* The places taken, the counter and the list of pending lookups.          *)
(***************************************************************************)
Counted == {a \in list : lookup[a] \in {"counted", "removed", "returned"}}
Waiting == {a \in list : lookup[a] \notin {"removed", "returned"}}

CountInv ==
  /\ Cardinality(Busy) <= SSHParallel
  /\ done = Cardinality(Counted)
  /\ ~noSSH => pending = Waiting

(***************************************************************************)
(* What is shown covers all VMs, and is final when the last lookup ended.  *)
(***************************************************************************)
ShownInv ==
  ~noSSH /\ pc # "list" =>
    /\ shown.done + Cardinality(shown.pending) >= Cardinality(list)
    /\ list # {} /\ (\A a \in list : lookup[a] = "returned") =>
         shown = [done |-> Cardinality(list), pending |-> {}]

IInv == TypeOK /\ PhaseInv /\ RowInv /\ CountInv /\ ShownInv
-----------------------------------------------------------------------------
(***************************************************************************)
(* The row of a lookup that failed says why, and nothing else.             *)
(***************************************************************************)
LEMMA Fails ==
  ASSUME NEW err \in Errors \ {"none", "no container"}
  PROVE  /\ fail(NotLookedUp, err) \in Rows
         /\ fail(NotLookedUp, err) # NotLookedUp
         /\ fail(NotLookedUp, err).error = err
         /\ Sound(fail(NotLookedUp, err))
BY DEF fail, NotLookedUp, Rows, Errors, Sound

(***************************************************************************)
(* So is one that an answer filled in.                                     *)
(***************************************************************************)
LEMMA FilledIn ==
  ASSUME NEW x \in Answers \cup {"canceled"}
  PROVE  /\ filledIn(x) \in Rows
         /\ filledIn(x) # NotLookedUp
         /\ filledIn(x).error # "not running"
         /\ filledIn(x).error = "canceled" => x = "canceled"
         /\ Sound(filledIn(x))
<1> DEFINE f == filledIn(x)
<1>1. f = [service |-> x \in {"no container", "image"}, image |-> x = "image",
           error |-> IF x = "image" THEN "none" ELSE x]
  BY DEF filledIn
<1> HIDE DEF f
<1>2. /\ f.service <=> x \in {"no container", "image"}
      /\ f.image <=> x = "image"
      /\ f.error = IF x = "image" THEN "none" ELSE x
  BY <1>1
<1>3. x \in {"ssh error", "unexpected output", "no container", "image", "canceled"}
  BY DEF Answers
<1>4. (IF x = "image" THEN "none" ELSE x) \in Errors BY <1>3 DEF Errors, Answers
<1>5. f \in Rows
  <2> DEFINE e == IF x = "image" THEN "none" ELSE x
  <2>1. e \in Errors BY <1>4
  <2> HIDE DEF e
  <2>2. f = [service |-> x \in {"no container", "image"}, image |-> x = "image", error |-> e]
    BY <1>1 DEF e
  <2>3. (x \in {"no container", "image"}) \in BOOLEAN /\ (x = "image") \in BOOLEAN OBVIOUS
  <2> QED BY <2>1, <2>2, <2>3 DEF Rows
<1>6. f # NotLookedUp
  <2>1. NotLookedUp.image = FALSE /\ NotLookedUp.error = "none" BY DEF NotLookedUp
  <2> QED BY <1>2, <1>3, <2>1
<1>7. Sound(f) BY <1>2, <1>3 DEF Sound
<1>8. f.error # "not running" /\ (f.error = "canceled" => x = "canceled") BY <1>2, <1>3
<1> QED BY <1>5, <1>6, <1>7, <1>8 DEF f

(***************************************************************************)
(* Every step keeps the types.                                             *)
(***************************************************************************)
LEMMA StepTypes ==
  ASSUME TypeOK, RowInv, [Next]_vars
  PROVE  TypeOK'
<1> USE DEF TypeOK, vars, snapVars, lookupVars, Goto
<1>1. CASE List
  <2>1. list' \subseteq Agents /\ vmRunning' \subseteq Agents BY <1>1 DEF List
  <2>2. pending' \subseteq Agents /\ pc' \in {"ok", "start"} BY <1>1 DEF List
  <2>3. shown' \in [done : Nat, pending : SUBSET Agents] BY <1>1 DEF List
  <2> QED BY <1>1, <2>1, <2>2, <2>3 DEF List
<1>2. CASE ListFails BY <1>2 DEF ListFails
<1>3. ASSUME NEW a \in Agents, Go(a) PROVE TypeOK'
  <2>1. "not running" \in Errors \ {"none", "no container"} BY DEF Errors, Answers
  <2>2. row[a] = NotLookedUp BY <1>3 DEF Go, RowInv, RowOK
  <2> DEFINE f == fail(NotLookedUp, "not running")
  <2>3. f \in Rows BY <2>1, Fails
  <2> HIDE DEF f
  <2>4. row' = row \/ row' = [row EXCEPT ![a] = f] BY <1>3, <2>2 DEF Go, f
  <2>5. row' \in [Agents -> Rows] BY <2>3, <2>4
  <2>6. lookup' = [lookup EXCEPT ![a] = "looking"] \/ lookup' = [lookup EXCEPT ![a] = "filled"]
    BY <1>3 DEF Go
  <2>7. UNCHANGED <<pc, list, noSSH, vmRunning, answer, done, pending, shown, groupErr,
                    interrupted>>
    BY <1>3 DEF Go
  <2> QED BY <2>5, <2>6, <2>7
<1>4. CASE AllStarted BY <1>4 DEF AllStarted
<1>5. CASE Wait BY <1>5 DEF Wait
<1>6. ASSUME NEW a \in Agents, LookupStep(a) PROVE TypeOK'
  <2>1. CASE SSHReturns(a) BY <2>1 DEF SSHReturns
  <2>2. CASE TimesOut(a)
    <3>1. "timed out" \in Errors \ {"none", "no container"} BY DEF Errors, Answers
    <3>2. row[a] = NotLookedUp BY <2>2 DEF TimesOut, RowInv, RowOK
    <3>3. fail(row[a], "timed out") \in Rows BY <3>1, <3>2, Fails
    <3> QED BY <2>2, <3>3 DEF TimesOut
  <2>3. CASE FillIn(a)
    <3>1. answer[a] \in Answers \cup {"canceled"} BY <2>3 DEF FillIn, RowInv, RowOK
    <3>2. filledIn(answer[a]) \in Rows BY <3>1, FilledIn
    <3> QED BY <2>3, <3>2 DEF FillIn
  <2>4. CASE CountDone(a) BY <2>4 DEF CountDone
  <2>5. CASE RemovePending(a) BY <2>5 DEF RemovePending
  <2>6. CASE StatusAndReturn(a) BY <2>6 DEF StatusAndReturn, CtxDone
  <2> QED BY <1>6, <2>1, <2>2, <2>3, <2>4, <2>5, <2>6 DEF LookupStep
<1>7. CASE Interrupt BY <1>7 DEF Interrupt
<1>8. CASE UNCHANGED vars BY <1>8
<1> QED BY <1>1, <1>2, <1>3, <1>4, <1>5, <1>6, <1>7, <1>8 DEF Next, MainStep, Ended

(***************************************************************************)
(* A goroutine that starts: its VM is to be looked up, or is not running.  *)
(***************************************************************************)
LEMMA GoRow ==
  ASSUME TypeOK, RowInv, NEW a \in Agents, Go(a)
  PROVE  RowInv'
<1>1. row[a] = NotLookedUp /\ lookup[a] = "none" BY DEF Go, RowInv, RowOK
<1>2. UNCHANGED <<answer, vmRunning, groupErr, interrupted>> BY DEF Go, snapVars
<1>3. lookup'[a] = IF a \in vmRunning THEN "looking" ELSE "filled" BY DEF Go, Goto, TypeOK
<1>4. row'[a] = IF a \in vmRunning THEN NotLookedUp ELSE fail(NotLookedUp, "not running")
  BY <1>1 DEF Go, Goto, TypeOK
<1>5. \A b \in Agents : b # a => lookup'[b] = lookup[b] /\ row'[b] = row[b]
  BY DEF Go, Goto, TypeOK
<1>6. "not running" \in Errors \ {"none", "no container"} BY DEF Errors, Answers
<1>7. ASSUME NEW b \in Agents PROVE RowOK(b)'
  <2>1. CASE b = a BY <1>1, <1>2, <1>3, <1>4, <1>6, <2>1, Fails DEF RowInv, RowOK, NotLookedUp
  <2>2. CASE b # a BY <1>2, <1>5, <2>2 DEF RowInv, RowOK
  <2> QED BY <2>1, <2>2
<1> QED BY <1>2, <1>7 DEF RowInv

(***************************************************************************)
(* A lookup that fills in its row.                                         *)
(***************************************************************************)
LEMMA FillsRow ==
  ASSUME TypeOK, RowInv, NEW a \in Agents, NEW x \in Rows,
         lookup[a] \in {"looking", "answered"}, Goto(a, "filled"),
         row' = [row EXCEPT ![a] = x],
         UNCHANGED <<answer, vmRunning, groupErr, interrupted>>,
         x # NotLookedUp, Sound(x), x.error # "not running",
         x.error = "canceled" => interrupted
  PROVE  RowInv'
<1>1. lookup'[a] = "filled" /\ row'[a] = x BY DEF Goto, TypeOK
<1>2. \A b \in Agents : b # a => lookup'[b] = lookup[b] /\ row'[b] = row[b]
  BY DEF Goto, TypeOK
<1>3. ASSUME NEW b \in Agents PROVE RowOK(b)'
  <2>1. CASE b = a BY <1>1, <2>1 DEF RowInv, RowOK
  <2>2. CASE b # a BY <1>2, <2>2 DEF RowInv, RowOK
  <2> QED BY <2>1, <2>2
<1> QED BY <1>3 DEF RowInv

(***************************************************************************)
(* What gcloud returned, which is an interrupt only if there was one.      *)
(***************************************************************************)
LEMMA SSHRow ==
  ASSUME TypeOK, RowInv, NEW a \in Agents, SSHReturns(a)
  PROVE  RowInv'
<1>0. PICK x \in Answers \cup (IF CtxDone THEN {"canceled"} ELSE {}) :
        answer' = [answer EXCEPT ![a] = x]
  BY DEF SSHReturns
<1>1. /\ x \in Answers \cup {"canceled"}
      /\ answer' = [answer EXCEPT ![a] = x] /\ (x = "canceled" => CtxDone)
  BY <1>0 DEF Answers
<1>2. x # "none" /\ (x = "canceled" => interrupted) BY <1>1 DEF CtxDone, Answers, RowInv
<1>3. answer'[a] = x /\ lookup'[a] = "answered" /\ lookup[a] = "looking"
  BY <1>1 DEF SSHReturns, Goto, TypeOK
<1>4. \A b \in Agents : b # a => lookup'[b] = lookup[b] /\ answer'[b] = answer[b]
  BY <1>1 DEF SSHReturns, Goto, TypeOK
<1>5. UNCHANGED <<row, vmRunning, groupErr, interrupted>> BY DEF SSHReturns, snapVars
<1>6. ASSUME NEW b \in Agents PROVE RowOK(b)'
  <2>1. CASE b = a BY <1>2, <1>3, <1>5, <2>1 DEF RowInv, RowOK
  <2>2. CASE b # a BY <1>4, <1>5, <2>2 DEF RowInv, RowOK
  <2> QED BY <2>1, <2>2
<1> QED BY <1>5, <1>6 DEF RowInv

(***************************************************************************)
(* Every step keeps the phases and the rows.                               *)
(***************************************************************************)
LEMMA StepRows ==
  ASSUME TypeOK, PhaseInv, RowInv, [Next]_vars
  PROVE  PhaseInv' /\ RowInv'
<1> USE DEF TypeOK, PhaseInv, RowInv, RowOK, vars, snapVars, lookupVars, Goto
<1>1. CASE List BY <1>1 DEF List
<1>2. CASE ListFails BY <1>2 DEF ListFails
<1>3. ASSUME NEW a \in Agents, Go(a) PROVE PhaseInv' /\ RowInv'
  <2>1. PhaseInv' BY <1>3 DEF Go
  <2> QED BY <1>3, <2>1, GoRow
<1>4. CASE AllStarted BY <1>4 DEF AllStarted
<1>5. CASE Wait BY <1>5 DEF Wait
<1>6. ASSUME NEW a \in Agents, LookupStep(a) PROVE PhaseInv' /\ RowInv'
  <2>1. CASE SSHReturns(a)
    <3>1. PhaseInv' BY <2>1 DEF SSHReturns
    <3> QED BY <2>1, <3>1, SSHRow
  <2>2. CASE TimesOut(a)
    <3>1. PhaseInv' BY <2>2 DEF TimesOut
    <3>2. "timed out" \in Errors \ {"none", "no container"} BY DEF Errors, Answers
    <3>3. row[a] = NotLookedUp BY <2>2 DEF TimesOut
    <3>4. RowInv' BY <2>2, <3>2, <3>3, Fails, FillsRow DEF TimesOut
    <3> QED BY <3>1, <3>4
  <2>3. CASE FillIn(a)
    <3>1. PhaseInv' BY <2>3 DEF FillIn
    <3>2. answer[a] \in Answers \cup {"canceled"} BY <2>3 DEF FillIn
    <3>3. RowInv' BY <2>3, <3>2, FilledIn, FillsRow DEF FillIn
    <3> QED BY <3>1, <3>3
  <2>4. CASE CountDone(a) BY <2>4 DEF CountDone
  <2>5. CASE RemovePending(a) BY <2>5 DEF RemovePending
  <2>6. CASE StatusAndReturn(a) BY <2>6 DEF StatusAndReturn, CtxDone
  <2> QED BY <1>6, <2>1, <2>2, <2>3, <2>4, <2>5, <2>6 DEF LookupStep
<1>7. CASE Interrupt BY <1>7 DEF Interrupt
<1>8. CASE UNCHANGED vars BY <1>8
<1> QED BY <1>1, <1>2, <1>3, <1>4, <1>5, <1>6, <1>7, <1>8 DEF Next, MainStep, Ended
(***************************************************************************)
(* The sets that are counted are finite.                                   *)
(***************************************************************************)
LEMMA Finite ==
  ASSUME TypeOK
  PROVE  /\ IsFiniteSet(list) /\ Cardinality(list) \in Nat
         /\ IsFiniteSet(Busy) /\ Cardinality(Busy) \in Nat
         /\ IsFiniteSet(Counted) /\ Cardinality(Counted) \in Nat
         /\ IsFiniteSet(Waiting) /\ Cardinality(Waiting) \in Nat
<1>1. IsFiniteSet(list) BY AgentsAssumption, FS_Subset DEF TypeOK
<1>2. Busy \subseteq list /\ Counted \subseteq list /\ Waiting \subseteq list
  BY DEF Busy, Counted, Waiting
<1>3. IsFiniteSet(Busy) /\ IsFiniteSet(Counted) /\ IsFiniteSet(Waiting) BY <1>1, <1>2, FS_Subset
<1> QED BY <1>1, <1>3, FS_CardinalityType

(***************************************************************************)
(* Every step keeps the places taken, the counter and the list.            *)
(***************************************************************************)
LEMMA StepCount ==
  ASSUME TypeOK, PhaseInv, CountInv, [Next]_vars
  PROVE  CountInv'
<1> USE DEF vars, snapVars, lookupVars, Goto
<1>1. TypeOK => lookup \in [Agents -> {"none", "looking", "answered", "filled", "counted",
                                      "removed", "returned"}] /\ list \subseteq Agents
  BY DEF TypeOK
<1>2. CASE List
  <2>1. \A a \in Agents : lookup'[a] = "none" BY <1>2 DEF List, PhaseInv
  <2>2. list' \subseteq Agents BY <1>2 DEF List
  <2>3. Busy' = {} /\ Counted' = {} /\ Counted = {} /\ Waiting' = list'
    BY <1>2, <2>1, <2>2 DEF List, PhaseInv, Busy, Counted, Waiting
  <2>4. Cardinality(Busy') = 0 /\ done' = Cardinality(Counted')
    BY <1>2, <2>3, FS_EmptySet DEF CountInv, List
  <2>5. ~noSSH' => pending' = Waiting' BY <1>2, <2>3 DEF List
  <2> QED BY <2>4, <2>5, SSHParallelAssumption DEF CountInv
<1>3. ASSUME NEW a \in Agents, Go(a) PROVE CountInv'
  <2>1. Busy' = Busy \cup {a} BY <1>1, <1>3 DEF Go, Busy
  <2>6. a \notin Counted /\ a \in Waiting /\ a \notin Counted' /\ (a \in Waiting)'
    BY <1>1, <1>3 DEF Go, Counted, Waiting
  <2>7. list' = list /\ \A b \in list : b # a => lookup'[b] = lookup[b]
    BY <1>1, <1>3 DEF Go
  <2>2. Counted' = Counted /\ Waiting' = Waiting BY <2>6, <2>7 DEF Counted, Waiting
  <2>3. /\ Cardinality(Busy') \in {Cardinality(Busy), Cardinality(Busy) + 1}
        /\ Cardinality(Busy) \in Nat
    BY <2>1, Finite, FS_AddElement
  <2>4. Cardinality(Busy) < SSHParallel BY <1>3 DEF Go
  <2>5. Cardinality(Busy') <= SSHParallel BY <2>3, <2>4, SSHParallelAssumption
  <2> QED BY <1>3, <2>2, <2>5 DEF CountInv, Go
<1>4. ASSUME NEW a \in Agents, LookupStep(a) PROVE CountInv'
  <2>1. a \in list BY <1>4 DEF LookupStep, PhaseInv, SSHReturns, TimesOut, FillIn, CountDone,
                            RemovePending, StatusAndReturn
  <2>2. CASE SSHReturns(a) \/ TimesOut(a) \/ FillIn(a)
    <3>1. Busy' = Busy /\ Counted' = Counted /\ Waiting' = Waiting
      BY <1>1, <2>2 DEF SSHReturns, TimesOut, FillIn, Busy, Counted, Waiting
    <3> QED BY <2>2, <3>1 DEF CountInv, SSHReturns, TimesOut, FillIn
  <2>3. CASE CountDone(a)
    <3>1. Busy' = Busy /\ Counted' = Counted \cup {a} /\ a \notin Counted /\ Waiting' = Waiting
      BY <1>1, <2>1, <2>3 DEF CountDone, Busy, Counted, Waiting
    <3>2. Cardinality(Counted') = Cardinality(Counted) + 1 BY <3>1, Finite, FS_AddElement
    <3> QED BY <2>3, <3>1, <3>2 DEF CountInv, CountDone
  <2>4. CASE RemovePending(a)
    <3>1. Busy' = Busy /\ Counted' = Counted /\ Waiting' = Waiting \ {a}
      BY <1>1, <2>4 DEF RemovePending, Busy, Counted, Waiting
    <3> QED BY <2>4, <3>1 DEF CountInv, RemovePending
  <2>5. CASE StatusAndReturn(a)
    <3>1. Busy' = Busy \ {a} /\ Counted' = Counted /\ Waiting' = Waiting
      BY <1>1, <2>5 DEF StatusAndReturn, Busy, Counted, Waiting
    <3>2. Cardinality(Busy') <= Cardinality(Busy) /\ Cardinality(Busy') \in Nat
      BY <3>1, Finite, FS_Subset, FS_CardinalityType
    <3>3. Cardinality(Busy') <= SSHParallel BY <3>2, Finite, SSHParallelAssumption DEF CountInv
    <3> QED BY <2>5, <3>1, <3>3 DEF CountInv, StatusAndReturn
  <2> QED BY <1>4, <2>2, <2>3, <2>4, <2>5 DEF LookupStep
<1>5. CASE UNCHANGED <<snapVars, lookupVars>> BY <1>5 DEF CountInv, Busy, Counted, Waiting
<1> QED BY <1>2, <1>3, <1>4, <1>5
  DEF Next, MainStep, Ended, ListFails, AllStarted, Wait, Interrupt

(***************************************************************************)
(* Every step keeps what is shown true: the last lookup that ends shows    *)
(* what all of them counted and removed before.                            *)
(***************************************************************************)
LEMMA StepShown ==
  ASSUME TypeOK, PhaseInv, CountInv, ShownInv, [Next]_vars
  PROVE  ShownInv'
<1> USE DEF vars, snapVars, lookupVars, Goto
<1>1. CASE List
  <2>4. list' # {} /\ list' \subseteq Agents
    <3>1. PICK l \in (SUBSET Agents) \ {{}} : list' = l BY <1>1 DEF List
    <3>2. l # {} /\ l \subseteq Agents OBVIOUS
    <3> QED BY <3>1, <3>2
  <2>1. ~noSSH => shown' = [done |-> 0, pending |-> list'] BY <1>1 DEF List
  <2>2. \A a \in Agents : lookup'[a] = "none" BY <1>1 DEF List, PhaseInv
  <2>3. IsFiniteSet(list') /\ Cardinality(list') \in Nat
    BY <1>1, AgentsAssumption, FS_Subset, FS_CardinalityType DEF List
  <2> QED BY <1>1, <2>1, <2>2, <2>3, <2>4 DEF ShownInv, List
<1>2. CASE ListFails
  <2>1. list' = {} /\ Cardinality({}) = 0 /\ shown' = shown
    BY <1>2, FS_EmptySet DEF ListFails, PhaseInv
  <2>2. shown.done \in Nat /\ Cardinality(shown.pending) \in Nat
    BY AgentsAssumption, FS_Subset, FS_CardinalityType DEF TypeOK
  <2> QED BY <2>1, <2>2 DEF ShownInv
<1>3. ASSUME NEW a \in Agents,
             Go(a) \/ SSHReturns(a) \/ TimesOut(a) \/ FillIn(a) \/ CountDone(a) \/ RemovePending(a)
      PROVE  ShownInv'
  <2>1. UNCHANGED <<noSSH, list, shown, pc>> /\ a \in list /\ pc # "list"
    BY <1>3 DEF Go, SSHReturns, TimesOut, FillIn, CountDone, RemovePending, PhaseInv
  <2>2. lookup'[a] # "returned"
    BY <1>3 DEF Go, SSHReturns, TimesOut, FillIn, CountDone, RemovePending, TypeOK
  <2> QED BY <2>1, <2>2 DEF ShownInv
<1>4. ASSUME NEW a \in Agents, StatusAndReturn(a) PROVE ShownInv'
  <2>1. /\ UNCHANGED <<noSSH, list, pc>> /\ a \in list /\ pc # "list" /\ ~noSSH
        /\ shown' = [done |-> done, pending |-> pending]
    BY <1>4 DEF StatusAndReturn, PhaseInv
  <2>2. done = Cardinality(Counted) /\ pending = Waiting BY <2>1 DEF CountInv
  <2>3. list = Counted \cup Waiting BY DEF Counted, Waiting
  <2>4. Cardinality(list) <= Cardinality(Counted) + Cardinality(Waiting)
    <3>1. IsFiniteSet(Counted \cap Waiting) /\ Cardinality(Counted \cap Waiting) \in Nat
      BY Finite, FS_Subset, FS_CardinalityType
    <3> QED BY <2>3, <3>1, Finite, FS_Union
  <2>5. ASSUME \A b \in list : lookup'[b] = "returned"
        PROVE  done = Cardinality(list) /\ pending = {}
    <3>1. \A b \in list : lookup[b] \in {"removed", "returned"}
      BY <1>4, <2>5 DEF StatusAndReturn, TypeOK
    <3>2. Counted = list /\ Waiting = {} BY <3>1 DEF Counted, Waiting
    <3> QED BY <2>2, <3>2
  <2> QED BY <2>1, <2>2, <2>4, <2>5, Finite DEF ShownInv
<1>5. CASE AllStarted \/ Wait \/ Interrupt \/ UNCHANGED vars
  BY <1>5 DEF AllStarted, Wait, Interrupt, ShownInv
<1> QED BY <1>1, <1>2, <1>3, <1>4, <1>5 DEF Next, MainStep, LookupStep, Ended
-----------------------------------------------------------------------------
(***************************************************************************)
(* The invariant holds in every reachable state.                           *)
(***************************************************************************)
THEOREM Invariance == Spec => []IInv
<1>0. 0 <= SSHParallel BY SSHParallelAssumption
<1>1. Init => IInv
  <2> SUFFICES ASSUME Init PROVE IInv OBVIOUS
  <2> USE DEF Init
  <2>1. TypeOK BY DEF TypeOK, Rows, NotLookedUp, Errors
  <2>2. PhaseInv /\ RowInv /\ ShownInv BY DEF PhaseInv, RowInv, RowOK, ShownInv, NotLookedUp
  <2>3. Busy = {} /\ Counted = {} /\ Waiting = {} BY DEF Busy, Counted, Waiting
  <2>5. Cardinality({}) = 0 BY FS_EmptySet
  <2>6. done = 0 /\ pending = {} OBVIOUS
  <2>8. Cardinality(Busy) <= SSHParallel BY <1>0, <2>3, <2>5
  <2>9. done = Cardinality(Counted) /\ pending = Waiting BY <2>3, <2>5, <2>6
  <2>4. CountInv BY <2>8, <2>9 DEF CountInv
  <2> QED BY <2>1, <2>2, <2>4 DEF IInv
<1>2. IInv /\ [Next]_vars => IInv'
  BY StepTypes, StepRows, StepCount, StepShown DEF IInv
<1> QED BY <1>1, <1>2, PTL DEF Spec

(***************************************************************************)
(* The lookups that hold a place are at most --ssh-parallel, none is left  *)
(* when takeSnapshot returns, and rows and counter say what was looked up. *)
(***************************************************************************)
THEOREM SnapInvAlways == Spec => []SnapInv
<1>1. IInv => SnapInv
  <2> SUFFICES ASSUME IInv PROVE SnapInv OBVIOUS
  <2>1. pc \in {"list", "ok", "failed"} => Busy = {} BY DEF IInv, PhaseInv, TypeOK, Busy
  <2>2. \A a \in list : a \in Agents BY DEF IInv, TypeOK
  <2>3. CountInv /\ TypeOK BY DEF IInv
  <2>4. \A a \in list :
          /\ lookup[a] \in {"filled", "counted", "removed", "returned"} <=> row[a] # NotLookedUp
          /\ row[a].error = "canceled" \/ answer[a] = "canceled" => interrupted
          /\ lookup[a] = "returned" /\ row[a].error = "canceled" => groupErr
    BY <2>2 DEF IInv, RowInv, RowOK
  <2>5. groupErr => interrupted BY DEF IInv, RowInv
  <2> QED BY <2>1, <2>3, <2>4, <2>5 DEF SnapInv, CountInv, Counted, Waiting
<1> QED BY <1>1, Invariance, PTL

(***************************************************************************)
(* A snapshot that is returned has looked every VM up; each row has an     *)
(* image or the reason why not, and in none that reason is an interrupt.   *)
(***************************************************************************)
THEOREM SnapshotAlwaysWhole == Spec => []SnapshotIsWhole
<1>1. IInv => SnapshotIsWhole
  BY DEF IInv, TypeOK, PhaseInv, RowInv, RowOK, Sound, SnapshotIsWhole
<1> QED BY <1>1, Invariance, PTL

(***************************************************************************)
(* What is shown never misses a VM, and ends with none pending.            *)
(***************************************************************************)
THEOREM StatusAlwaysComplete == Spec => []StatusIsComplete
<1>1. IInv => StatusIsComplete BY DEF IInv, PhaseInv, ShownInv, StatusIsComplete
<1> QED BY <1>1, Invariance, PTL
-----------------------------------------------------------------------------
(***************************************************************************)
(* The other runs' steps and errors are their own.                         *)
(***************************************************************************)
Local(r) ==
  \A q \in Runs \ {r} : at'[q] = at[q] /\ created'[q] = created[q]

(***************************************************************************)
(* Every step of a run keeps the types and is local.                       *)
(***************************************************************************)
LEMMA TableStepTypes ==
  ASSUME TableTypeOK, NEW r \in Runs, RunStep(r)
  PROVE  TableTypeOK' /\ Local(r) /\ UNCHANGED flags
<1> USE DEF TableTypeOK, Over, Move, FailsWith, flags, Local
<1>1. CASE TakeSnapshot(r) BY <1>1 DEF TakeSnapshot
<1>2. CASE LookUp(r) BY <1>2 DEF LookUp
<1>3. CASE CreateTable(r) BY <1>3 DEF CreateTable
<1>4. CASE CreateTableFails(r) BY <1>4 DEF CreateTableFails
<1>5. CASE InsertAgents(r) BY <1>5 DEF InsertAgents
<1>6. CASE InsertFails(r) BY <1>6 DEF InsertFails
<1>7. CASE CountSnapshot(r) BY <1>7 DEF CountSnapshot
<1>8. CASE CountFails(r) BY <1>8 DEF CountFails
<1>9. CASE DropTable(r) BY <1>9 DEF DropTable
<1>10. CASE DropFails(r) BY <1>10 DEF DropFails
<1>11. CASE Kill(r) BY <1>11 DEF Kill
<1> QED BY <1>1, <1>2, <1>3, <1>4, <1>5, <1>6,
           <1>7, <1>8, <1>9, <1>10, <1>11 DEF RunStep

(***************************************************************************)
(* What a step of one run does to the table and the snapshots: it creates  *)
(* the missing table, adds its own snapshot to one that is there, or drops *)
(* its own.                                                                *)
(***************************************************************************)
Touches(r) ==
  \/ UNCHANGED <<table, snapshots>>
  \/ at[r] = "create" /\ table = Nobody /\ table' = r /\ UNCHANGED snapshots
  \/ at[r] = "insert" /\ table # Nobody /\ snapshots' = snapshots \cup {r}
       /\ UNCHANGED table
  \/ at[r] = "drop" /\ table' = Nobody /\ snapshots' = {}

\* Every step of a run is one of those.
LEMMA StepTouches ==
  ASSUME NEW r \in Runs, RunStep(r)
  PROVE  Touches(r)
BY DEF RunStep, Touches, TakeSnapshot, LookUp, CreateTable, CreateTableFails,
   InsertAgents, InsertFails, CountSnapshot, CountFails, DropTable, DropFails,
   Kill

(***************************************************************************)
(* A run's own step keeps what it knows of the table.                      *)
(***************************************************************************)
LEMMA StepOwn ==
  ASSUME TableInv, NEW r \in Runs, RunStep(r)
  PROVE  RunInv(r)'
<1>0. TableTypeOK' /\ Local(r) /\ UNCHANGED flags
  BY TableStepTypes DEF TableInv
<1>1. TableTypeOK /\ RunInv(r) /\ (table = Nobody => snapshots = {})
  BY DEF TableInv
<1> USE <1>0, <1>1, RunsAssumption
    DEF TableTypeOK, RunInv, Over, Move, FailsWith, MayDrop, flags
<1>2. CASE TakeSnapshot(r) BY <1>2 DEF TakeSnapshot
<1>3. CASE LookUp(r) BY <1>3 DEF LookUp
<1>4. CASE CreateTable(r) BY <1>4 DEF CreateTable
<1>5. CASE CreateTableFails(r) BY <1>5 DEF CreateTableFails
<1>6. CASE InsertAgents(r) BY <1>6 DEF InsertAgents
<1>7. CASE InsertFails(r) BY <1>7 DEF InsertFails
<1>8. CASE CountSnapshot(r) BY <1>8 DEF CountSnapshot
<1>9. CASE CountFails(r) BY <1>9 DEF CountFails
<1>10. CASE DropTable(r) BY <1>10 DEF DropTable
<1>11. CASE DropFails(r) BY <1>11 DEF DropFails
<1>12. CASE Kill(r) BY <1>12 DEF Kill
<1> QED BY <1>2, <1>3, <1>4, <1>5, <1>6, <1>7,
           <1>8, <1>9, <1>10, <1>11, <1>12 DEF RunStep

(***************************************************************************)
(* The inductive invariant holds initially and every step keeps it.        *)
(***************************************************************************)
LEMMA InitInv == TableInit => TableInv
BY RunsAssumption DEF TableInit, TableInv, TableTypeOK, RunInv, Over

\* Every step of a run keeps the invariant of the table and all runs.
LEMMA StepInv ==
  ASSUME TableInv, NEW r \in Runs, RunStep(r)
  PROVE  TableInv'
<1>1. TableTypeOK' /\ Local(r) /\ UNCHANGED flags
  BY TableStepTypes DEF TableInv
<1>2. TableTypeOK /\ RunInv(r) /\ (table = Nobody => snapshots = {})
  BY DEF TableInv
<1>3. Touches(r)
  BY StepTouches
<1>4. (table = Nobody => snapshots = {})'
  BY <1>2, <1>3, RunsAssumption DEF Touches
<1>5. ASSUME NEW q \in Runs, q # r
      PROVE  RunInv(q)'
  <2>1. RunInv(q)
    BY DEF TableInv
  <2>2. at'[q] = at[q] /\ created'[q] = created[q] /\ UNCHANGED flags
    BY <1>1, <1>5 DEF Local
  <2>3. CASE UNCHANGED <<table, snapshots>>
    BY <2>1, <2>2, <2>3 DEF RunInv, flags
  <2>4. CASE /\ at[r] = "create" /\ table = Nobody /\ table' = r
             /\ UNCHANGED snapshots
    BY <1>2, <1>5, <2>1, <2>2, <2>4, RunsAssumption DEF RunInv, flags
  <2>5. CASE /\ at[r] = "insert" /\ snapshots' = snapshots \cup {r}
             /\ UNCHANGED table
    BY <1>5, <2>1, <2>2, <2>5 DEF RunInv, flags
  <2>6. CASE at[r] = "drop" /\ table' = Nobody /\ snapshots' = {}
    <3>1. table = r
      BY <1>2, <2>6 DEF RunInv, Over
    <3> QED BY <1>5, <2>1, <2>2, <2>6, <3>1, RunsAssumption DEF RunInv, flags
  <2> QED BY <1>3, <2>3, <2>4, <2>5, <2>6 DEF Touches
<1>6. RunInv(r)'
  BY StepOwn
<1> QED BY <1>1, <1>4, <1>5, <1>6 DEF TableInv

(***************************************************************************)
(* TableInv holds in every behaviour, for every set of runs.               *)
(***************************************************************************)
THEOREM TableInvariance == TableSpec => []TableInv
<1>1. TableInv /\ [TableNext]_tableVars => TableInv'
  <2> SUFFICES ASSUME TableInv, [TableNext]_tableVars
               PROVE  TableInv'
    OBVIOUS
  <2>1. CASE UNCHANGED tableVars
    BY <2>1 DEF tableVars, flags, TableInv, TableTypeOK, RunInv
  <2>2. CASE TableNext
    BY <2>1, <2>2, StepInv DEF TableNext, AllEnded
  <2> QED BY <2>1, <2>2
<1> QED BY InitInv, <1>1, PTL DEF TableSpec

(***************************************************************************)
(* Without --append a snapshot is only in the table its run created.       *)
(***************************************************************************)
THEOREM AlwaysAppendedOnlyIfAsked == TableSpec => []AppendedOnlyIfAsked
<1>1. TableInv => AppendedOnlyIfAsked
  BY DEF TableInv, TableTypeOK, RunInv, AppendedOnlyIfAsked
<1> QED BY TableInvariance, <1>1, PTL

(***************************************************************************)
(* Only the run that created a table drops it, when it failed.             *)
(***************************************************************************)
THEOREM AlwaysDroppedByCreator == TableSpec => DroppedByCreator
<1>1. TableInv /\ [TableNext]_tableVars
        => [table # Nobody /\ table' # table
              => /\ table \in Runs /\ table' = Nobody
                 /\ at[table] = "drop" /\ dropOnFail[table]]_tableVars
  <2> SUFFICES ASSUME TableInv, TableNext, table # Nobody, table' # table
               PROVE  /\ table \in Runs /\ table' = Nobody
                      /\ at[table] = "drop" /\ dropOnFail[table]
    OBVIOUS
  <2>1. PICK r \in Runs : RunStep(r)
    BY DEF TableNext, AllEnded, tableVars
  <2>2. at[r] = "drop" /\ table' = Nobody
    BY <2>1, StepTouches DEF Touches
  <2>3. RunInv(r)
    BY DEF TableInv
  <2> QED BY <2>2, <2>3 DEF RunInv, Over
<1> QED BY TableInvariance, <1>1, PTL DEF TableSpec, DroppedByCreator

(***************************************************************************)
(* Once the creator of the table has ended, snapshots stay in it.          *)
(***************************************************************************)
THEOREM AlwaysKeptOnceSettled == TableSpec => KeptOnceSettled
<1>1. TableInv /\ [TableNext]_tableVars
        => [(\A r \in Runs : table = r => at[r] \in Over \/ ~dropOnFail[r])
              => snapshots \subseteq snapshots']_tableVars
  <2> SUFFICES ASSUME TableInv, TableNext,
                      \A r \in Runs :
                        table = r => at[r] \in Over \/ ~dropOnFail[r]
               PROVE  snapshots \subseteq snapshots'
    OBVIOUS
  <2>1. CASE AllEnded
    BY <2>1 DEF AllEnded, tableVars
  <2>2. CASE \E r \in Runs : RunStep(r)
    <3>1. PICK r \in Runs : RunStep(r)
      BY <2>2
    <3>2. RunInv(r)
      BY DEF TableInv
    <3>3. ~ (at[r] = "drop")
      BY <3>2 DEF RunInv, Over
    <3> QED BY <3>1, <3>3, StepTouches DEF Touches
  <2> QED BY <2>1, <2>2 DEF TableNext
<1> QED BY TableInvariance, <1>1, PTL DEF TableSpec, KeptOnceSettled
=============================================================================
