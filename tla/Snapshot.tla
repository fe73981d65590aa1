------------------------------ MODULE Snapshot ------------------------------
(***************************************************************************)
(* takeSnapshot in cmd/fie-importer/upload_agents.go, with LookupImage in  *)
(* internal/agents/agents.go: upload-agents lists the VMs and looks up the *)
(* image of each over ssh, one goroutine for each VM and at most           *)
(* --ssh-parallel of them at once.                                         *)
(*                                                                         *)
(* A lookup that fails does not fail the snapshot: the VM is kept, with    *)
(* the reason.  Only an interrupt does, and it must not be mistaken for a  *)
(* VM that does not answer.                                                *)
(***************************************************************************)
EXTENDS Integers, FiniteSets

CONSTANTS
  Agents,       \* the VMs that gcloud may list
  SSHParallel   \* --ssh-parallel

ASSUME AgentsAssumption == IsFiniteSet(Agents)
ASSUME SSHParallelAssumption == SSHParallel \in Nat \ {0}

VARIABLES
  pc,           \* how far takeSnapshot got
  list,         \* the VMs listed
  noSSH,        \* --no-ssh
  vmRunning,    \* the listed VMs whose status is RUNNING
  lookup,       \* how far the goroutine of each VM got
  answer,       \* what gcloud compute ssh returned for each VM
  row,          \* what LookupImage wrote into each VM's row
  done,         \* the counter of ended lookups
  pending,      \* the VMs still shown as pending
  shown,        \* what the display shows: the counter and the pending VMs
  groupErr,     \* the error group's first error: its context is done
  interrupted   \* the command's context is done

snapVars == <<list, noSSH, vmRunning>>
lookupVars == <<lookup, answer, row, done, pending, shown, groupErr>>
vars == <<pc, snapVars, lookupVars, interrupted>>

\* What gcloud compute ssh can return: an error, output that is not the
\* command's, the state of a service without or with a container's image.
Answers == {"ssh error", "unexpected output", "no container", "image"}

\* What LookupImage fills in a VM's row: what the VM said of its service, the
\* image and VersionError, which is "none" when it is NULL.
Errors == Answers \cup {"none", "not running", "timed out", "canceled"}
Rows == [service : BOOLEAN, image : BOOLEAN, error : Errors]

NotLookedUp == [service |-> FALSE, image |-> FALSE, error |-> "none"]

\* fail sets VersionError and leaves the other fields as they are.
fail(old, err) == [old EXCEPT !.error = err]

\* What LookupImage makes of an answer that came in time.
filledIn(x) == [service |-> x \in {"no container", "image"},
                image |-> x = "image",
                error |-> IF x = "image" THEN "none" ELSE x]

TypeOK ==
  /\ pc \in {"list", "start", "wait", "ok", "failed"}
  /\ list \subseteq Agents
  /\ noSSH \in BOOLEAN
  /\ vmRunning \subseteq Agents
  /\ lookup \in [Agents -> {"none", "looking", "answered", "filled", "counted",
                            "removed", "returned"}]
  /\ answer \in [Agents -> Answers \cup {"none", "canceled"}]
  /\ row \in [Agents -> Rows]
  /\ done \in Nat
  /\ pending \subseteq Agents
  /\ shown \in [done : Nat, pending : SUBSET Agents]
  /\ groupErr \in BOOLEAN
  /\ interrupted \in BOOLEAN

Init ==
  /\ pc = "list"
  /\ list = {}
  /\ noSSH \in BOOLEAN
  /\ vmRunning = {}
  /\ lookup = [a \in Agents |-> "none"]
  /\ answer = [a \in Agents |-> "none"]
  /\ row = [a \in Agents |-> NotLookedUp]
  /\ done = 0
  /\ pending = {}
  /\ shown = [done |-> 0, pending |-> {}]
  /\ groupErr = FALSE
  /\ interrupted = FALSE

\* gctx is done: the command's context is, or the group has an error.
CtxDone == interrupted \/ groupErr

\* The goroutines that hold one of the group's places.
Busy == {a \in list : lookup[a] \notin {"none", "returned"}}

Goto(a, l) == lookup' = [lookup EXCEPT ![a] = l]
-----------------------------------------------------------------------------
\* agents.List: any VMs, running or not.  Without ssh they are the snapshot.
List ==
  /\ pc = "list"
  /\ \E l \in (SUBSET Agents) \ {{}}, r \in SUBSET Agents :
       /\ r \subseteq l
       /\ list' = l
       /\ vmRunning' = r
       /\ IF noSSH
            THEN pc' = "ok" /\ UNCHANGED <<pending, shown>>
            ELSE /\ pc' = "start"
                 /\ pending' = l
                 /\ shown' = [done |-> 0, pending |-> l]
  /\ UNCHANGED <<noSSH, lookup, answer, row, done, groupErr, interrupted>>

\* gcloud fails or is canceled, its output cannot be parsed, or there is no VM.
ListFails ==
  /\ pc = "list"
  /\ pc' = "failed"
  /\ UNCHANGED <<snapVars, lookupVars, interrupted>>

\* group.Go, which waits for a place but not for the context.  LookupImage
\* does not contact a VM that is not running.
Go(a) ==
  /\ pc = "start"
  /\ a \in list
  /\ lookup[a] = "none"
  /\ Cardinality(Busy) < SSHParallel
  /\ IF a \in vmRunning
       THEN Goto(a, "looking") /\ UNCHANGED row
       ELSE /\ Goto(a, "filled")
            /\ row' = [row EXCEPT ![a] = fail(row[a], "not running")]
  /\ UNCHANGED <<pc, snapVars, answer, done, pending, shown, groupErr,
                 interrupted>>

\* Every VM has its goroutine: group.Wait.
AllStarted ==
  /\ pc = "start"
  /\ \A a \in list : lookup[a] # "none"
  /\ pc' = "wait"
  /\ UNCHANGED <<snapVars, lookupVars, interrupted>>

\* gcloud compute ssh returns by itself, or is killed with the context.
SSHReturns(a) ==
  /\ lookup[a] = "looking"
  /\ \E x \in Answers \cup (IF CtxDone THEN {"canceled"} ELSE {}) :
       answer' = [answer EXCEPT ![a] = x]
  /\ Goto(a, "answered")
  /\ UNCHANGED <<pc, snapVars, row, done, pending, shown, groupErr,
                 interrupted>>

\* Variant: the timeout is looked at when gcloud has returned, and not before.
TimesOutAfter(a) ==
  /\ lookup[a] = "answered"
  /\ answer[a] # "canceled"
  /\ row' = [row EXCEPT ![a] = fail(row[a], "timed out")]
  /\ Goto(a, "filled")
  /\ UNCHANGED <<pc, snapVars, answer, done, pending, shown, groupErr,
                 interrupted>>

\* Variant: after a timeout the answer is still read.
TimesOutAndReads(a) ==
  /\ lookup[a] \in {"looking", "answered"}
  /\ answer[a] # "canceled"
  /\ row' = [row EXCEPT ![a] =
               fail(IF answer[a] = "none" THEN row[a] ELSE filledIn(answer[a]), "timed out")]
  /\ Goto(a, "filled")
  /\ UNCHANGED <<pc, snapVars, answer, done, pending, shown, groupErr,
                 interrupted>>

\* --ssh-timeout passes, before gcloud returned or just after: an answer that
\* came too late is not used.  An interrupt before that is not a timeout.
TimesOut(a) ==
  /\ lookup[a] \in {"looking", "answered"}
  /\ answer[a] # "canceled"
  /\ row' = [row EXCEPT ![a] = fail(row[a], "timed out")]
  /\ Goto(a, "filled")
  /\ UNCHANGED <<pc, snapVars, answer, done, pending, shown, groupErr,
                 interrupted>>

\* The answer came in time.
FillIn(a) ==
  /\ lookup[a] = "answered"
  /\ row' = [row EXCEPT ![a] = filledIn(answer[a])]
  /\ Goto(a, "filled")
  /\ UNCHANGED <<pc, snapVars, answer, done, pending, shown, groupErr,
                 interrupted>>

CountDone(a) ==
  /\ lookup[a] = "filled"
  /\ done' = done + 1
  /\ Goto(a, "counted")
  /\ UNCHANGED <<pc, snapVars, answer, row, pending, shown, groupErr,
                 interrupted>>

\* Variant: without the mutex an earlier removal can be lost.
RemoveUnlocked(a) ==
  /\ lookup[a] = "counted"
  /\ \E lost \in {{}} \cup {{b} : b \in list \ pending} :
       pending' = (pending \cup lost) \ {a}
  /\ Goto(a, "removed")
  /\ UNCHANGED <<pc, snapVars, answer, row, done, shown, groupErr, interrupted>>

\* removeString, under the mutex.
RemovePending(a) ==
  /\ lookup[a] = "counted"
  /\ pending' = pending \ {a}
  /\ Goto(a, "removed")
  /\ UNCHANGED <<pc, snapVars, answer, row, done, shown, groupErr, interrupted>>

\* Variant: the goroutine returns no error.
ReturnsNil(a) ==
  /\ lookup[a] = "removed"
  /\ shown' = [done |-> done, pending |-> pending]
  /\ Goto(a, "returned")
  /\ UNCHANGED <<pc, snapVars, answer, row, done, pending, groupErr, interrupted>>

\* status under the mutex, then return gctx.Err().
StatusAndReturn(a) ==
  /\ lookup[a] = "removed"
  /\ shown' = [done |-> done, pending |-> pending]
  /\ groupErr' = CtxDone
  /\ Goto(a, "returned")
  /\ UNCHANGED <<pc, snapVars, answer, row, done, pending, interrupted>>

\* group.Wait returns when every goroutine has.
Wait ==
  /\ pc = "wait"
  /\ \A a \in list : lookup[a] = "returned"
  /\ pc' = IF groupErr THEN "failed" ELSE "ok"
  /\ UNCHANGED <<snapVars, lookupVars, interrupted>>

Interrupt ==
  /\ pc \notin {"ok", "failed"}
  /\ ~interrupted
  /\ interrupted' = TRUE
  /\ UNCHANGED <<pc, snapVars, lookupVars>>

LookupStep(a) == \/ SSHReturns(a) \/ TimesOut(a) \/ FillIn(a)
                 \/ CountDone(a) \/ RemovePending(a) \/ StatusAndReturn(a)

MainStep == List \/ ListFails \/ (\E a \in Agents : Go(a)) \/ AllStarted \/ Wait

Ended == pc \in {"ok", "failed"} /\ UNCHANGED vars

Next == MainStep \/ (\E a \in Agents : LookupStep(a)) \/ Interrupt \/ Ended

Spec == Init /\ [][Next]_vars

\* The goroutines are scheduled.  gcloud may hang for ever: the two calls that
\* list the VMs have no timeout, a lookup has the one that FairSpec adds.
Scheduled ==
  /\ WF_vars(pc # "list" /\ MainStep)
  /\ \A a \in Agents : WF_vars(lookup[a] # "looking" /\ LookupStep(a))

\* exec.CommandContext kills gcloud when --ssh-timeout passes, and Output
\* returns when all ends of gcloud's output are closed: here, with gcloud.
FairSpec == Spec /\ Scheduled /\ \A a \in Agents : WF_vars(TimesOut(a))

\* Here a child of gcloud, such as its ssh, may live on and keep the output
\* open; Gcloud sets no WaitDelay.
OrphanSpec == Spec /\ Scheduled
-----------------------------------------------------------------------------
(***************************************************************************)
(* Where the lookups are, and that takeSnapshot has not returned before    *)
(* they have.                                                              *)
(***************************************************************************)
SnapInv ==
  /\ TypeOK
  /\ Cardinality(Busy) <= SSHParallel
  /\ pc \in {"list", "ok", "failed"} => Busy = {}
  /\ done = Cardinality({a \in list : lookup[a] \in {"counted", "removed", "returned"}})
  /\ ~noSSH => pending = {a \in list : lookup[a] \notin {"removed", "returned"}}
  /\ \A a \in list :
       lookup[a] \in {"filled", "counted", "removed", "returned"}
         <=> row[a] # NotLookedUp
  /\ groupErr => interrupted
  /\ \A a \in list : row[a].error = "canceled" \/ answer[a] = "canceled" => interrupted
  /\ \A a \in list : lookup[a] = "returned" /\ row[a].error = "canceled" => groupErr

(***************************************************************************)
(* A snapshot that takeSnapshot returns has looked every VM up.  A row has *)
(* an image or the reason why it has none, and never both, although gcloud *)
(* can answer just as the timeout passes; the service's state is there     *)
(* exactly when the VM gave it.  No VM is in it as unreachable because the *)
(* run was interrupted (LookupImage, takeSnapshot).                        *)
(***************************************************************************)
SnapshotIsWhole ==
  pc = "ok" /\ ~noSSH =>
    \A a \in list :
      /\ row[a].image <=> row[a].error = "none"
      /\ row[a].service <=> row[a].error \in {"none", "no container"}
      /\ row[a].error = "not running" <=> a \notin vmRunning
      /\ row[a].error # "canceled"

(***************************************************************************)
(* No agent is missing in what is shown while its lookup is under way, and *)
(* once all ended what is shown last is that: whichever goroutine shows    *)
(* its state last, and although counter and list change one at a time.     *)
(***************************************************************************)
StatusIsComplete ==
  ~noSSH /\ pc # "list" =>
    /\ shown.done + Cardinality(shown.pending) >= Cardinality(list)
    /\ pc \in {"ok", "failed"} /\ list # {} =>
         shown = [done |-> Cardinality(list), pending |-> {}]

(***************************************************************************)
(* Once the VMs are listed every snapshot ends: no VM that does not        *)
(* answer, no interrupt and no number of places leaves a goroutine that    *)
(* waits for ever.  Of the two calls that list them nothing is claimed.    *)
(***************************************************************************)
Termination == pc = "start" ~> pc \in {"ok", "failed"}

(***************************************************************************)
(* --ssh-timeout is the "time allowed for each VM's lookup" (README): a    *)
(* lookup that was started ends.                                           *)
(***************************************************************************)
LookupsEnd ==
  \A a \in Agents : lookup[a] = "looking" ~> lookup[a] # "looking"
=============================================================================
