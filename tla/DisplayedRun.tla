---------------------------- MODULE DisplayedRun -----------------------------
(***************************************************************************)
(* The commands as callers of the progress display: the function of the    *)
(* command itself, and the goroutines that report to the display while     *)
(* files are read (transfer), rows inserted (transfer, transferPDs), a     *)
(* merged file grows (watchSize) and a query runs (pollQuery).             *)
(*                                                                         *)
(* What the work does is left out, here it just goes on, ends or fails.    *)
(***************************************************************************)
EXTENDS Display

CONSTANTS
  Files         \* the number of rows of each input file

ASSUME FilesAssumption == Files \in Seq(Nat \ {0})

VARIABLES
  command,      \* which command it is
  main,         \* where its function is
  failed,       \* it will return an error
  worker,       \* the goroutine that reports files, the size or the query
  inserter,     \* the goroutine that reports rows sent: off, on or ended
  doneClosed    \* the channel that tells watchSize or pollQuery to end

callVars == <<command, main, failed, worker, inserter, doneClosed>>
shownVars == <<displayVars, callVars>>

Commands == {"upload-fies", "upload-pds", "merge-fies", "compute-fdhs", "upload-agents"}

Workers ==
  [pc : {"off", "select", "idx", "name", "rows", "zero", "read", "total", "ended"},
   file : 0..Len(Files), n : Nat]

ShownTypeOK ==
  /\ DisplayTypeOK
  /\ command \in Commands
  /\ main \in {"header", "run", "phases", "total", "start", "clear", "work",
               "result", "stop", "stopping", "say", "deferred", "ended"}
  /\ failed \in BOOLEAN /\ doneClosed \in BOOLEAN
  /\ worker \in Workers
  /\ inserter \in {"off", "on", "ended"}

ShownInit ==
  /\ DisplayInit
  /\ command \in Commands
  /\ main = "header"
  /\ failed = FALSE
  /\ worker = [pc |-> "off", file |-> 0, n |-> 0]
  /\ inserter = "off"
  /\ doneClosed = FALSE

\* The rows of the files before file k.
Before[k \in 0..(Len(Files) + 1)] == IF k < 2 THEN 0 ELSE Before[k - 1] + Files[k - 1]
Total == Before[Len(Files) + 1]

KindOf == CASE command = "upload-pds" -> "stream" [] command = "compute-fdhs" -> "query"
            [] OTHER -> "rows"

\* The total that is known before the work starts.
Planned == IF KindOf = "rows" THEN Total ELSE 0

Goto(l) == main' = l /\ UNCHANGED <<command, failed, worker, inserter, doneClosed>>
WorkerAt(l) == worker' = [worker EXCEPT !.pc = l]
-----------------------------------------------------------------------------
\* disp.Header, disp.Run.
Header == main = "header" /\ Say("header") /\ Goto("run")
StartRun == main = "run" /\ Run /\ Goto("phases")

\* The steps before the work, each with its Phase.
SetPhase ==
  /\ main = "phases"
  /\ Store("busy", TRUE)
  /\ UNCHANGED callVars

\* One of these steps returns an error.
PhaseFails ==
  /\ main = "phases"
  /\ main' = "stop"
  /\ failed' = TRUE
  /\ UNCHANGED <<displayVars, command, worker, inserter, doneClosed>>

\* upload-agents and the dry runs that have phases only.
PhasesEnd ==
  /\ main = "phases"
  /\ \/ command \in {"upload-fies", "upload-agents"} /\ Store("busy", FALSE)
     \/ command = "merge-fies" /\ UNCHANGED displayVars
  /\ field.busy
  /\ Goto("stop")

\* Only upload-pds can get here without a phase, in a dry run; no files are
\* an error before (Open).
Starts ==
  /\ main = "phases" /\ Unlocked /\ command # "upload-agents"
  /\ field.busy \/ command = "upload-pds"
  /\ command = "merge-fies" => Files # <<>>

\* Variant: StartStream and StartQuery call Start and set their field then.
StartBeforeKind ==
  /\ Starts
  /\ IF field.start THEN Store("kind", KindOf) /\ Goto("total")
                    ELSE Store("start", TRUE) /\ UNCHANGED callVars

\* StartStream and StartQuery set their field first, under the lock; Start
\* stores the totals, sets the start, under the lock, and clears the phase.
StartKind == Starts /\ Store("kind", KindOf) /\ Goto("total")

StartTotal == main = "total" /\ Store("total", Planned) /\ Goto("start")

StartClock == main = "start" /\ Unlocked /\ Store("start", TRUE) /\ Goto("clear")

\* The phase is cleared, and the goroutines of the work start.
StartEnds ==
  /\ main = "clear"
  /\ Store("busy", FALSE)
  /\ main' = "work"
  /\ worker' = [worker EXCEPT !.pc = CASE command = "upload-fies" -> "idx"
                                       [] command = "upload-pds" -> "off"
                                       [] OTHER -> "select"]
  /\ inserter' = IF command \in {"upload-fies", "upload-pds"} THEN "on" ELSE "off"
  /\ UNCHANGED <<command, failed, doneClosed>>
-----------------------------------------------------------------------------
\* File stores index, name, number of rows and rows read, one by one.
FileIdx ==
  /\ worker.pc = "idx"
  /\ worker.file < Len(Files)
  /\ Store("idx", worker.file + 1)
  /\ worker' = [worker EXCEPT !.pc = "name", !.file = @ + 1]
  /\ UNCHANGED <<command, main, failed, inserter, doneClosed>>

\* Variant: the number of rows is stored before the name.
FileRestSwapped ==
  /\ \/ worker.pc = "name" /\ Store("rows", worker.file) /\ WorkerAt("rows")
     \/ worker.pc = "rows" /\ Store("name", worker.file) /\ WorkerAt("zero")
     \/ /\ worker.pc = "zero"
        /\ Store("read", [of |-> worker.file, n |-> 0])
        /\ WorkerAt("read")
  /\ UNCHANGED <<command, main, failed, inserter, doneClosed>>

FileRest ==
  /\ \/ worker.pc = "name" /\ Store("name", worker.file) /\ WorkerAt("rows")
     \/ worker.pc = "rows" /\ Store("rows", worker.file) /\ WorkerAt("zero")
     \/ /\ worker.pc = "zero"
        /\ Store("read", [of |-> worker.file, n |-> 0])
        /\ WorkerAt("read")
  /\ UNCHANGED <<command, main, failed, inserter, doneClosed>>

\* transfer's reader: Read counts the rows of the file, then the next one.
ReadRows ==
  /\ command = "upload-fies"
  /\ worker.pc = "read"
  /\ \E n \in 1..(Files[worker.file] - field.read.n) :
       Store("read", [of |-> worker.file, n |-> field.read.n + n])
  /\ WorkerAt(IF field'.read.n = Files[worker.file] THEN "idx" ELSE "read")
  /\ UNCHANGED <<command, main, failed, inserter, doneClosed>>

ReaderEnds ==
  /\ command = "upload-fies"
  /\ \/ worker.pc = "idx" /\ worker.file = Len(Files) /\ UNCHANGED failed
     \/ worker.pc = "read" /\ failed' = TRUE
  /\ WorkerAt("ended")
  /\ UNCHANGED <<displayVars, command, main, inserter, doneClosed>>

\* The rows that may have been sent: those of the file being read too, for Read
\* counts them later and many at once.
Available ==
  IF command = "upload-pds" THEN Total
  ELSE Before[IF worker.pc \in {"name", "rows", "zero"} THEN worker.file ELSE worker.file + 1]

\* The inserter: Sent adds a batch.
Sent ==
  /\ inserter = "on"
  /\ \E n \in 1..(Available - field.sent) : Store("sent", field.sent + n)
  /\ UNCHANGED callVars

InserterEnds ==
  /\ inserter = "on"
  /\ \/ field.sent = Total /\ worker.pc \in {"off", "ended"} /\ UNCHANGED failed
     \/ failed' = TRUE
  /\ inserter' = "ended"
  /\ UNCHANGED <<displayVars, command, main, worker, doneClosed>>
-----------------------------------------------------------------------------
\* The file that watchSize takes the row count for.
FileAt(rows) ==
  CHOOSE k \in 1..Len(Files) : /\ Before[k] <= rows
                               /\ k = Len(Files) \/ rows < Before[k + 1]

\* watchSize: SetSent with what the size of the temporary file tells, which
\* is nothing before it is there and after it was renamed.
WatchSize ==
  /\ command = "merge-fies"
  /\ worker.pc = "select"
  /\ \E rows \in 0..Total :
       /\ Store("sent", rows)
       /\ worker' = [pc |-> IF FileAt(rows) # worker.file THEN "idx" ELSE "read",
                     file |-> worker.file, n |-> rows]
  /\ UNCHANGED <<command, main, failed, inserter, doneClosed>>

\* File, when it is another one than before.
WatchFile ==
  /\ command = "merge-fies"
  /\ worker.pc = "idx"
  /\ Store("idx", FileAt(worker.n))
  /\ worker' = [worker EXCEPT !.pc = "name", !.file = FileAt(worker.n)]
  /\ UNCHANGED <<command, main, failed, inserter, doneClosed>>

SetRead ==
  /\ command = "merge-fies"
  /\ worker.pc = "read"
  /\ Store("read", [of |-> worker.file, n |-> worker.n - Before[worker.file]])
  /\ WorkerAt("select")
  /\ UNCHANGED <<command, main, failed, inserter, doneClosed>>

\* pollQuery: Rows stores the rows read and the server's estimate, of which
\* nothing and all are taken here.
PollQuery ==
  /\ command = "compute-fdhs"
  /\ \/ /\ worker.pc = "select"
        /\ \E read \in {0, Total} : Store("sent", read)
        /\ WorkerAt("total")
     \/ /\ worker.pc = "total"
        /\ \E total \in {0, Total} : Store("total", total)
        /\ WorkerAt("select")
  /\ UNCHANGED <<command, main, failed, inserter, doneClosed>>

\* Variant: watchSize ends when the file is whole.
WatcherEndsWhole ==
  /\ worker.pc = "select"
  /\ worker.n = Total \/ command = "compute-fdhs"
  /\ WorkerAt("ended")
  /\ UNCHANGED <<displayVars, command, main, failed, inserter, doneClosed>>

\* Both goroutines return once their channel is closed, pollQuery also when
\* the command is interrupted.
WatcherEnds ==
  /\ worker.pc = "select"
  /\ doneClosed \/ command = "compute-fdhs"
  /\ WorkerAt("ended")
  /\ UNCHANGED <<displayVars, command, main, failed, inserter, doneClosed>>
-----------------------------------------------------------------------------
\* Wait in transfer and transferPDs.
TransferReturns ==
  /\ main = "work"
  /\ inserter = "ended"
  /\ worker.pc \in {"off", "ended"}
  /\ Goto("stop")
  /\ UNCHANGED displayVars

\* Merge and InsertFDHs return, and the channel is closed.
WorkReturns ==
  /\ main = "work"
  /\ command \in {"merge-fies", "compute-fdhs"}
  /\ doneClosed' = TRUE
  /\ failed' \in BOOLEAN
  /\ main' = IF command = "merge-fies" THEN "result" ELSE "stop"
  /\ UNCHANGED <<displayVars, command, worker, inserter>>

\* Variant: watchSize's stop does not wait for its goroutine.
SetResultAtOnce ==
  /\ main = "result"
  /\ IF failed THEN UNCHANGED displayVars ELSE Store("sent", Total)
  /\ Goto("stop")

\* merge waits for watchSize's goroutine, and sets the rows it merged.
SetResult ==
  /\ main = "result"
  /\ worker.pc = "ended"
  /\ IF failed THEN UNCHANGED displayVars ELSE Store("sent", Total)
  /\ Goto("stop")

\* disp.Stop, and only then the closing lines.
Stop == main = "stop" /\ CloseStop /\ Goto("stopping")
StopReturns == main = "stopping" /\ Stopped /\ Goto("say")
SayResult == main = "say" /\ Say("result") /\ Goto("deferred")

\* The deferred Stop finds no channel.
DeferredStop ==
  /\ main = "deferred"
  /\ stop = "nil"
  /\ Goto("ended")
  /\ UNCHANGED displayVars

ShownEnd == main = "ended" /\ UNCHANGED shownVars

MainStep ==
  \/ Header \/ StartRun \/ SetPhase \/ PhaseFails \/ PhasesEnd
  \/ StartKind \/ StartTotal \/ StartClock \/ StartEnds
  \/ TransferReturns \/ WorkReturns \/ SetResult
  \/ Stop \/ StopReturns \/ SayResult \/ DeferredStop

WorkStep ==
  \/ command = "upload-fies" /\ FileIdx
  \/ FileRest \/ ReadRows \/ ReaderEnds \/ Sent \/ InserterEnds
  \/ WatchSize \/ WatchFile \/ SetRead \/ PollQuery \/ WatcherEnds

ShownNext ==
  \/ MainStep \/ WorkStep
  \/ DrawerStep /\ UNCHANGED callVars
  \/ ShownEnd

ShownSpec == ShownInit /\ [][ShownNext]_shownVars

\* Goroutines that can go on are scheduled.  A select that finds its channel
\* closed and a tick too takes either with the same chance, so one that comes
\* back to it again and again takes the channel at last.
FairShownSpec ==
  /\ ShownSpec
  /\ WF_shownVars((Load \/ Paint) /\ UNCHANGED callVars)
  /\ SF_shownVars(TakeStop /\ UNCHANGED callVars)
  /\ WF_shownVars(worker.pc # "select" /\ WorkStep)
  /\ SF_shownVars(WatcherEnds)
  /\ WF_shownVars(main \in {"result", "stop", "stopping", "say", "deferred"} /\ MainStep)
-----------------------------------------------------------------------------
\* What was said before and after the frames.
Said == IF main = "header" THEN <<>> ELSE <<"header">>
Result == IF main \in {"deferred", "ended"} THEN <<"result">> ELSE <<>>

(***************************************************************************)
(* The terminal shows the title, the last frame, and the result once it    *)
(* was said, and nothing of an earlier frame: although frames shrink from  *)
(* three lines to two or to none, and commands write to the same terminal. *)
(* Without a terminal there are plain lines between title and result.      *)
(***************************************************************************)
ScreenIsClean == Visible(Said \o last \o Result)

(***************************************************************************)
(* A frame shows what the command does, and the whole upload's bar never   *)
(* passes 100 percent or shows it for want of a total: the total is there  *)
(* before the first frame is drawn from it (Start, StartStream,            *)
(* StartQuery).                                                            *)
(***************************************************************************)
FrameIsOfTask ==
  frame.kind \in Kinds /\ frame.load = <<>> =>
    /\ frame.kind = KindOf
    /\ frame.kind = "rows" => frame.seen.total = Total /\ frame.seen.sent <= Total

(***************************************************************************)
(* A frame may mix two files, because File stores four fields one by one   *)
(* and frame loads them one by one.  The mix goes one way only: index and  *)
(* name are never those of a file before the one whose row count is shown, *)
(* and rows read that exceed the count belong to another file.             *)
(***************************************************************************)
TearsGoForward ==
  LET s == frame.seen IN
    command = "upload-fies" /\ frame.kind = "rows" /\ ~frame.final /\ frame.load = <<>> =>
      /\ s.idx >= s.rows /\ s.name >= s.rows
      /\ s.read.of >= s.rows - 1
      /\ s.read.of = s.rows /\ s.rows > 0 => s.read.n <= Files[s.rows]

(***************************************************************************)
(* The frame that stays on the terminal shows exactly the rows that were   *)
(* sent or merged when the command succeeded, whatever estimate a watcher  *)
(* had stored last.                                                        *)
(***************************************************************************)
FinalIsExact ==
  main \in {"say", "deferred", "ended"} /\ ~failed /\ frame.kind \in {"rows", "stream"}
    => frame.final /\ frame.seen.sent = Total

(***************************************************************************)
(* Once the work is over the command gets past its display: Stop returns,  *)
(* and so do the goroutines it waits for, however slow a frame is.         *)
(***************************************************************************)
DisplayEnds == doneClosed \/ main = "stop" ~> main = "ended"
=============================================================================
