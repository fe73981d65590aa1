------------------------------- MODULE Display -------------------------------
(***************************************************************************)
(* The progress display, internal/progress/progress.go: a goroutine that   *)
(* redraws a few lines of the terminal every 100 milliseconds, over fields *)
(* that other goroutines store into one by one while it loads them.        *)
(*                                                                         *)
(* The terminal is the lines written so far and the line of the cursor;    *)
(* a line is the name of what it shows.  The display moves the cursor up   *)
(* over the lines it believes to have drawn, so a line that anybody else   *)
(* writes meanwhile, or a wrong count, leaves parts of old frames behind.  *)
(* A line is taken to fit the terminal's width: a longer one wraps, which  *)
(* the code does not reckon with.                                          *)
(*                                                                         *)
(* Colors, bars, rates and times are left out.  A value that belongs to an *)
(* input file is kept with the file's index, for the properties to compare.*)
(***************************************************************************)
EXTENDS Integers, Sequences

VARIABLES
  tty,          \* whether the output is a terminal
  field,        \* the fields of Display that a frame is made of
  stop,         \* the channel d.stop
  drawer,       \* where the goroutine of Run is; drawing, it holds d.mu
  frame,        \* the frame it draws; the final one is kept
  drawn,        \* d.drawn
  last,         \* the lines of the frame drawn last (what no code keeps)
  screen,       \* the lines of the terminal
  cursor        \* the line the cursor is on

paintVars == <<drawn, last, screen, cursor>>
displayVars == <<tty, field, stop, drawer, frame, paintVars>>

Kinds == {"rows", "stream", "query"}
LineNames == {"blank", "header", "plain", "spinner", "bar", "stats", "file", "result"}
NoFields ==
  [total |-> 0, sent |-> 0, idx |-> 0, name |-> 0, rows |-> 0, read |-> [of |-> 0, n |-> 0],
   busy |-> FALSE, start |-> FALSE, kind |-> "rows"]
NoFrame == [kind |-> "nothing", final |-> FALSE, load |-> <<>>, seen |-> NoFields]

Fields ==
  [total : Nat, sent : Nat, idx : Nat, name : Nat, rows : Nat, read : [of : Nat, n : Nat],
   busy : BOOLEAN, start : BOOLEAN, kind : Kinds]
FieldNames == {"total", "sent", "rows", "read", "idx", "name"}
Frames ==
  [kind : Kinds \cup {"spinner", "nothing"}, final : BOOLEAN, load : Seq(FieldNames),
   seen : Fields]

DisplayTypeOK ==
  /\ tty \in BOOLEAN
  /\ field \in Fields
  /\ stop \in {"nil", "open", "closed"}
  /\ drawer \in {"off", "select", "drawing", "done"}
  /\ frame \in Frames
  /\ drawn \in Nat
  /\ last \in Seq(LineNames) /\ screen \in Seq(LineNames)
  /\ cursor \in 1..(Len(screen) + 1)

\* New.
DisplayInit ==
  /\ tty \in BOOLEAN
  /\ field = NoFields
  /\ stop = "nil"
  /\ drawer = "off"
  /\ frame = NoFrame
  /\ drawn = 0
  /\ last = <<>>
  /\ screen = <<>>
  /\ cursor = 1

Unlocked == drawer # "drawing"

\* A store into an atomic field.
Store(f, v) ==
  /\ field' = [field EXCEPT ![f] = v]
  /\ UNCHANGED <<tty, stop, drawer, frame, paintVars>>

\* The screen after these lines were written from line at on.
Overwritten(at, lines) ==
  SubSeq(screen, 1, at - 1) \o lines \o SubSeq(screen, at + Len(lines), Len(screen))

\* A line written where the cursor is.  Plain lines that follow each other
\* are kept as one.
WriteLine(line) ==
  IF line = "plain" /\ cursor > 1 /\ screen[cursor - 1] = "plain"
    THEN UNCHANGED <<screen, cursor>>
    ELSE /\ screen' = Overwritten(cursor, <<line>>)
         /\ cursor' = cursor + 1

\* A caller of the display writes a line to standard error itself.
Say(line) ==
  /\ WriteLine(line)
  /\ UNCHANGED <<tty, field, stop, drawer, frame, drawn, last>>
-----------------------------------------------------------------------------
\* Run makes the channel and starts the goroutine.
Run ==
  /\ stop' = "open"
  /\ drawer' = "select"
  /\ UNCHANGED <<tty, field, frame, paintVars>>

\* Stop, if it was not called before, closes the channel ...
CloseStop ==
  /\ stop = "open"
  /\ stop' = "closed"
  /\ UNCHANGED <<tty, field, drawer, frame, paintVars>>

\* ... and waits for the goroutine's end.
Stopped ==
  /\ drawer = "done"
  /\ stop' = "nil"
  /\ UNCHANGED <<tty, field, drawer, frame, paintVars>>

\* The fields that a frame of the kind loads, in the order of the code.
Loads(kind, final) ==
  CASE kind = "rows" /\ ~final -> <<"total", "sent", "rows", "read", "idx", "name">>
    [] (kind = "rows" /\ final) \/ kind = "query" -> <<"total", "sent">>
    [] kind = "stream" -> <<"sent">>
    [] OTHER -> <<>>

\* The lines of a frame.
Lines(f) ==
  CASE f.kind = "nothing" -> <<>>
    [] f.kind = "spinner" -> <<"spinner">>
    [] f.kind = "rows" /\ ~f.final -> <<"bar", "stats", "file">>
    [] OTHER -> <<"bar", "stats">>

\* draw takes the lock and looks at the phase, then at what was started.
Draw(final) ==
  /\ drawer = "select"
  /\ drawer' = "drawing"
  /\ LET kind == IF field.busy THEN "spinner"
                 ELSE IF field.start THEN field.kind ELSE "nothing"
     IN  frame' = [NoFrame EXCEPT !.kind = kind, !.final = final, !.load = Loads(kind, final)]
  /\ UNCHANGED <<tty, field, stop, paintVars>>

\* The select in Run: a tick, or the channel is closed.
Tick == Draw(FALSE)
TakeStop == stop = "closed" /\ Draw(TRUE)

\* frame, streamFrame or queryFrame loads the next field.
Load ==
  /\ drawer = "drawing"
  /\ frame.load # <<>>
  /\ LET next == Head(frame.load)
     IN  frame' = [frame EXCEPT !.load = Tail(@), !.seen[next] = field[next]]
  /\ UNCHANGED <<tty, field, stop, drawer, paintVars>>

\* Variant: the lines that a shorter frame leaves over are not cleared.
RedrawOver(lines) ==
  /\ screen' = Overwritten(cursor - drawn, lines)
  /\ cursor' = cursor - drawn + Len(lines)

\* Up by d.drawn lines, every line cleared and written, the lines left over
\* cleared too, and up again by their number.
Redraw(lines) ==
  LET blank == [i \in 1..(drawn - Len(lines)) |-> "blank"]
  IN  /\ screen' = Overwritten(cursor - drawn, lines \o blank)
      /\ cursor' = cursor - drawn + Len(lines)

\* The frame goes out in one write; without a terminal, on one line.
Paint ==
  /\ drawer = "drawing"
  /\ frame.load = <<>>
  /\ LET lines == Lines(frame) IN
       IF tty
         THEN /\ Redraw(lines)
              /\ drawn' = Len(lines)
              /\ last' = lines
         ELSE /\ IF lines = <<>> THEN UNCHANGED <<screen, cursor, last>>
                                 ELSE WriteLine("plain") /\ last' = <<"plain">>
              /\ UNCHANGED drawn
  /\ IF frame.final
       THEN drawer' = "done" /\ UNCHANGED frame
       ELSE drawer' = "select" /\ frame' = NoFrame
  /\ UNCHANGED <<tty, field, stop>>

DrawerStep == Tick \/ TakeStop \/ Load \/ Paint

\* The lines above the cursor, and that nothing is left below them.
Visible(lines) ==
  /\ SubSeq(screen, 1, cursor - 1) = lines
  /\ \A i \in cursor..Len(screen) : screen[i] = "blank"
=============================================================================
