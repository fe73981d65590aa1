# fie-importer in TLA+

A TLA+ development of `fie-importer` (v2): the command line tool that uploads
forwarding info elements (FIEs), probing directives (PDs) and agent snapshots to
ClickHouse, derives forwarding decision histories (FDHs) on the server, and
merges FIE files; and of the v1 programs that the repository keeps. Paths below
are relative to the repository (`src/` here).

## 1. The system

| Component | State it keeps | Operations | Interacts with |
| --- | --- | --- | --- |
| table life cycle: `cmd/fie-importer/shared.go` | the client, whether this run created the table | `newTable`, `openTable`, `dropOnFailure` | every command that writes a table; the ClickHouse server, which other clients use too |
| signals and record: `main.go`, `operations.go` | the command's context; one row of the operations table per run | `run`, `logged`, `logOperation` | wraps every command |
| `upload-fies`: `upload_fies.go`, `internal/fies` | the plan (reads), a batch, a channel of two batches, the rows sent | `runUpload`, `upload`, `transfer` | two goroutines in an errgroup; DuckDB; ClickHouse |
| `upload-pds`: `upload_pds.go`, `internal/pds` | next ID, a batch, the channel, the rows sent | `openPDs`, `uploadPDs`, `transferPDs`, `Reader.Next` | a file or stdin; ClickHouse |
| selection: `internal/fies/source.go` | files, rows per file, filter | `Open`, `Plan`, `Window`, `Rows`, `DistinctPDs` | the Parquet files, through DuckDB |
| `merge-fies`: `merge_fies.go`, `internal/fies/merge.go` | `<output>.tmp`, `<output>` | `CheckOutput`, `CheckLayout`, `Merge`, `Verify`, `watchSize` | the file system, other runs with the same output |
| `upload-agents`: `upload_agents.go`, `internal/agents` | the snapshot, pending lookups | `List`, `LookupImage`, `takeSnapshot`, `runUploadAgents` | `gcloud` over a pool of ssh lookups; ClickHouse |
| `compute-fdhs`: `compute_fdhs.go`, `internal/clickhouse/fdhs.go` | the counts of the inputs, the query's ID | `prepareFDHs`, `insertFDHs`, `pollQuery`, `KillQuery` | a query that runs on the server on its own |
| progress: `internal/progress` | atomic fields, the number of lines drawn last, the channel `stop` | `Run`, `Stop`, `Phase`, `Start`, `File`, `Read`, `Sent`, `draw` | called from every goroutine, read by its own; shares the terminal with the commands |
| row conversion: `internal/fies/row.go`, `internal/pds` | none | `Convert2a`, `Parse` | pure functions |
| v1 streams: `deprecated/internal/streams` | capture files, the agents' connections, the items given | `NewCompressedFIEStream`, `NewFullFIEStream`, `AddressAt` | read by the next two |
| v1 `parquet`: `deprecated/cmd/fie-importer`, `parquete_writer.go` | rows gathered, row groups, a counter | `Ingest`, `write`, `Close` | a status goroutine; the output file |
| v1 loader: `clickhouse_ingester.go`, `parallel_foreach.go`, `clickhouse_batch_writer.go` | a channel, a batch per worker | `Ingest`, `ParallelForEach`, `Append`, `Flush` | a producer and its workers; ClickHouse |

What is hard here is concurrency between the two goroutines of a transfer (and
the pool of lookups), calls to ClickHouse that return an error although they had
their effect, signals and kills at any point, other clients and other runs that
share a table or an output file, inputs that change between being counted and
being read, and boundaries: batches, windows, fractions of a second, 32-bit IDs.

What makes each part correct:

- **a run and its table**: what ClickHouse holds is always a prefix of the
  input; success means the table is this run's own and whole; a failed run with
  `--drop-on-fail` leaves no table of its own; another client's table is never
  touched; the error reported is the cause; every run ends.
- **PDs**: the IDs follow the file from `--first-id` on, without a gap or a wrap.
- **selection**: the rows uploaded are exactly those the flags ask for, in the
  order of the files' intervals, with bounds and windows at any boundary.
- **merge**: the output is whole or not there, and what was there when the run checked is replaced
  only when asked for; its rows have the times an upload of the same files gives; `--verify` accepts
  what is well merged and nothing else.
- **FDHs**: a table that passed has a row for each FIE that was counted.
- **agents**: a snapshot is whole or an error; runs that share a table lose no
  snapshot of each other once its creator has ended.
- **progress**: the terminal keeps the last frame and nothing of an earlier one; a
  frame is of the work that goes on; the frame that stays has the exact rows; no
  command waits for its display for ever.
- **v1**: a full FIE has the address its agent had then; an export called complete
  is; the loader doubles no row, and success means all rows; both end.

## 2. The modules

```
TableRun ──┬── Pipeline ──┬── UploadFIEs ──── MCUploadFIEs
           │              └── UploadPDs ─┬─ UploadPDFile ── MCUploadPDs
           │                 PDReader ───┘
           └── ComputeFDHs ── MCComputeFDHs
Source ──── MergeRows ──── MCSource
MergeFile ── MCMergeFile      Snapshot ── MCSnapshot      AgentTable ── MCAgentTable
Display ──── DisplayedRun ── MCDisplay
EventsV1 ─── FIEStreamV1 ─┬─ ParquetV1 ─┬─ V1 ── MCV1
                          └─ IngestV1 ──┘
SequentialUpload: the abstract upload, implemented by UploadFIEs and UploadPDs
```

A line to the right is EXTENDS, to the module on the right. The proofs are in

| Module | Proves about | Uses |
| --- | --- | --- |
| FlattenProofs | induction over the numbers, concatenations of sequences of sequences | |
| PipelineProofs | Pipeline: every step both uploads have in common | |
| UploadFIEsProofs | UploadFIEs | PipelineProofs |
| UploadPDFileProofs | UploadPDs, UploadPDFile | PipelineProofs |
| MergeProofs | Source, MergeRows, MergeFile | FlattenProofs |
| UploadAgentsProofs | Snapshot, AgentTable | |
| CommandProofs | ComputeFDHs, Display, DisplayedRun | FlattenProofs |
| V1Proofs | EventsV1, FIEStreamV1, ParquetV1, IngestV1 | FlattenProofs |

All calls to ClickHouse are atomic steps that may also return an error, with or
without their effect; a step between two calls, awaits or lock operations of the
code is one action. A definition named after a Go function stands for it, and
PROJECT.json gives the lines of each. Operators marked "Variant" are bugs the
code might have had; no specification uses them, they serve to show that each
property depends on the code being as it is.

### TableRun: one run of a command that creates a table
`phase` is where the command is (`prepare`, `connect`, `lookup`, `create`,
`fill`, `verify`, `cleanup`, `log`, `done`, or `killed`), `err` the named result
that the deferred `dropOnFailure` looks at, `created` whether that defer was
reached, `server` whose table has the run's name, `rows` what it holds, `record`
the row of the operations table. `Prepare` is flag validation and the opening of
the inputs, `Connect`, `TableExists`, `CreateTable(Fails)` are `newTable` and
`openTable`, `DropTable`, `DropTableFails`, `KeepTable` are `dropOnFailure`,
`LogOperation` is `logged`. `Interrupt` cancels the command's context at any
time, `OtherCreates` lets another client take the name between lookup and create.

### Pipeline, UploadFIEs, UploadPDs: the two goroutines of a transfer
`reader` and `inserter` are the control states of the two goroutines, `batch`
and `inserting` their local batches, `chan` the channel (`ChanCap` 2), `read` and
`sent` counters, `groupErr` the errgroup's first error, which cancels its
context (`CtxDone`). Rows are their positions in the input, so that a lost, repeated or
swapped row shows. `AppendRow`, `SendBatch`, `SendCanceled`, `ReceiveBatch`,
`InsertBatch`, `InsertFails`, `InserterReturns` are the two loops. UploadFIEs adds the
planned reads and files that give fewer rows than were counted, and compares the
table with the plan; UploadPDs adds an input that ends or is refused at some
line, and compares the table with what was sent.

### PDReader and UploadPDFile: the lines of a PD file
A line is a record of what `Parse` and `Next` look at (blank, JSON, agent,
address with or without a zone, protocol and its next headers); `nextID` counts
up to `MaxID` (2^32 - 1 in the code). UploadPDFile runs the reader inside UploadPDs:
every call of `Next` is a step of both. UploadPDs by itself knows only how many PDs come
and how that ends.

### SequentialUpload: what an upload promises
A table is created, rows of the input are added in order, and the run commits,
when all of them are there, or fails. No goroutine, channel, batch, or half-failed
call. `ImplementsSequential` maps `table <- server`, `content <- rows`, and the
outcome to `phase` and `err`.

### Source: which rows a directory gives
Time is counted in `TicksPerSecond` of a second, since starts have fractions and
rows count whole seconds from their file's start. `Open` filters and sorts the files,
`PlanFile` counts (`where` with `ceilSeconds`), `SkipFile`, `TakeFile`, `WindowEnds`
are the rounds of `Window`, `ReadFile` is `Rows`. Files with the same start may
come in either order (`slices.SortFunc` is not stable), hence `Sorted` is a set.

### MergeRows: what merge-fies makes of the rows
The loop of `CheckLayout` (`FileFits`, `FileOverlaps`), the COPY (`CopyFile`,
`mergedRow`), and the window query of `Verify` (`VerifyRow`, `Verified`).
`Damage` puts rows in another order, drops or repeats them, so that `--verify` has something
to find. A stage `upload` leaves the steps to Source: the module composes both
commands over the same directories, and `Convert2a` gives the uploaded row that a merged one is
compared with (`SameFie`): FIE, order, times and every NULL, of a missing age or transit too. Only where an address is
missing may the merged row have a reply's time and the uploaded one none (section 4). A NULL is the empty
set, a value a set of one.

### MergeFile: what merge-fies does to two paths
Several runs with one output; `file[r]` is what run r wrote, `tmp` and `output`
say whose file is at which path. A file that lost its path goes on being written.
One action per system call or query of `Merge`, and `Kill` anywhere. Runs overlap in every way: what they write into a
`<output>.tmp` that they share can be anything (`WriteShared`). `OtherWrites` lets another program put a file at
the output, or remove it, at any time. Two history variables say who can have interfered with a run:
`met` which runs were under way at one time with it, `stale` which runs' last check of the output, or rename to it, is no
longer the last word.

### ComputeFDHs: a query that belongs to the server
`client` is where `insertFDHs` is, `query` and `todo` what the INSERT ... SELECT on the
server has still to do, `into` whose table it found under the run's name when it
started. It may start late, end, fail, or outlive its client. The
inputs may grow at any time (`InputGrows`). `CountFDHSource` and `FDHInsertSQL` are
the two joins: the first counts a duplicated PD once, the second gives a row each.

### Snapshot: the pool of lookups
`lookup[a]` is the control state of VM a's goroutine, `answer` what ssh gave,
`row` what LookupImage wrote into the VM's row: what the VM said of its service, whether it has an
image, and `VersionError`, so that an answer and an error in one row can be told. `done` is the atomic counter, `pending` the list
under the mutex, `shown` the status line. `Go` waits for one of `SSHParallel` places.

### AgentTable: runs that share an agent table
Lookup, create, insert, count and drop of several runs with all combinations of
`--append` and `--drop-on-fail`; `table` is the run that created the table.

### Display and DisplayedRun: the goroutine that draws, and who calls it
`field` is the struct's atomic fields, stored and loaded one at a time; `frame` is
the frame under way with what it has loaded (`seen`) and what it has still to load, and
`drawing` means that it holds `d.mu`. The terminal is `screen`, a sequence of
lines, and `cursor`. `Paint` goes up by `drawn` lines, clears and writes, as the escape
codes do. DisplayedRun has the five commands: `main` is the command's function from `Header`
to the deferred `Stop`, `worker` the goroutine that calls `File` and `Read`, `SetSent` and
`SetRead` (`watchSize`) or `Rows` (`pollQuery`), `inserter` the one that calls `Sent`.
A value that belongs to a file is stored as the file's index, so that a frame that mixes
two files shows. A line of the terminal is the name of what it shows (`LineNames`), `blank` when it was
cleared. The fields begin as `NoFields`, and the files whose rows are shown are at least one, with at least a row
each (`fies.Open` refuses to go on without files). `FairShownSpec` is the only specification with strong fairness.

### EventsV1 and FIEStreamV1: v1's streams
EventsV1 has the event log and what is looked up in it: `AddressAt` with its binary search
(`SearchTime`), over events sorted by an unstable `sort.Slice`, hence a set of
orders. The event log is indexed by agent, as the maps of the history are (`EventsOf`). FIEStreamV1 counts the rows when the stream is made (`CanMake`) and gives them one
by one when it is iterated (`GiveRow`, `GiveError`, `EndStream`).

### ParquetV1, IngestV1, V1: the two readers of these streams
ParquetV1 is the `parquet` command: `Write` makes a row group of a batch and adds to the
counter, which a status goroutine prints (`Tick`), and the deferred `CloseIngester` writes the
footer. IngestV1 is the loader: `Pull`, `Send` are the producer, `Take`, `Gather`,
`InsertFull`, `WorkerFails` a worker, `FlushRest` what `Ingest` does once the group has
returned. V1 lets one of the two run.

## 3. The runs

| Run | What it shows | Bounds; distinct states |
| --- | --- | --- |
| `upload_fies` | the invariant of the proofs, `TableIsPrefix`, `CauseIsReported`, `SuccessIsComplete`, `FailureIsClean`, the refinement and `Termination` | batches of 2; plans of no row, 1, 1+3, 2+4, 3+9 rows; 40,826 |
| `upload_pds` | `NumberInv` and `IDsFollowFile` of the reader and the transfer together, the refinement and `Termination` | batches of 2; nine files; IDs from 0 or 5 to 9; 16,330 |
| `source` | `SelectionIsExact`, `LayoutIsExact`, `MergeAgreesWithUpload`, `VerifyIsExact` | half seconds; eleven directories; offsets 0 to 4; limits -1 to 3; two damages; 122,180 |
| `merge` | `OutputIsWhole`, `TmpIsCleaned`, `SuccessIsOwn`, `KnownOutputIsKept`, `FileInv`, for runs that overlap or do not, with another program at the output | two runs, of 0 and 1 rows; 466,296 |
| `fdhs` | `SuccessIsExact`, `StrayQueryWasMissed`, `DropAwaitsKill` | three FIEs, three PDs, two growths, two copies of a PD; 554,612 |
| `snapshot` | `SnapshotIsWhole`, `StatusIsComplete`, `Termination`, `SnapInv` | three VMs, two places; 856,441 |
| `agent_table` | `TableInv`, `KeptOnceSettled`, `AppendedOnlyIfAsked` | three runs, symmetric; 30,940 |
| `progress` | `ScreenIsClean`, `FrameIsOfTask`, `TearsGoForward`, `FinalIsExact`, `DisplayEnds` | all five commands, with and without a terminal; files of 2 and 1 rows; 403,744 |
| `v1` | `AddressIsCurrent`, `ExportIsWhole`, `IngestedOnce`, `IngestCause`, `V1Ends` | seven inputs of at most 4 rows; batches of 2; two workers; a channel of 0 or 1; 275,444 |

Why these bounds are enough for what can happen: plans and PD files end within,
exactly with and just after a batch, and the longest needs more full batches than reader,
channel and inserter hold at once, so every hand-over blocks and every goroutine
can fail while the other waits. With half seconds a bound falls before, on and after
a row and a file's start does or does not lie on a second; directories have late, equal,
overlapping, empty, unsorted, unaligned, longer and unreadable files. Two
damages can cancel out in a count. Three FIEs, two of them of one PD, and a PD that is missing or
there twice let a row too few and a row too many fall together. Three runs that share an agent table let one act between
two steps of another while a third has ended or was killed. Two runs of merge-fies are before, within and after each other at
every step, and the other program stands for what further runs would do at the output; the proofs are for any number. Three VMs and two places
let one wait for a place, and two race for the status. Two files, one of more than one row, let
a frame mix files and a reader be within a file, and frames of 3, 2, 1 and 0 lines follow each other in
every order the commands allow. Two workers share batches of 2 over at most four rows, so
that batches fill, stay short, and are inserted at the end; events lie before, at and after captures, two of them at one time.

Model values and symmetry are used only in AgentTable, whose runs differ in
nothing but the flags that `Init` chooses for each, and which has no liveness property.

### Fairness
`FairSpec` (uploads) assumes that the goroutines that can go on are scheduled
(Go's scheduler, for `WF` of each loop) and that calls return at last: every
call to ClickHouse has a context or a read timeout, DuckDB reads local files.
Nothing is assumed of signals, kills or other clients. `FileRunSpec` also
assumes that reads of a regular file return; `StdinRunSpec` does not, because a writer to stdin may
stall. In Snapshot, `FairSpec` assumes that the timeout of `exec.CommandContext` takes effect, with
gcloud the only process that holds its output; `OrphanSpec` drops that. Of the two gcloud calls that list the VMs
nothing is assumed, for they have no timeout (`agents.go:125`, `:133`) and gcloud may hang: `Termination` of that run
begins when the VMs are listed. In V1, the goroutines
are scheduled; no tick and no interrupt has to come. In DisplayedRun, strong fairness is assumed of two
cases of a `select` in a loop, `TakeStop` and `WatcherEnds`: a `select` whose channel is closed
and whose ticker fired too takes either with the same chance, so a loop that comes back to it
again and again takes the channel at last. It is the only strong fairness.

## 4. Where the code and its documents disagree

Three runs end with a counterexample to a sentence of the repository's README:

- `upload_pds_stdin`: "drop the table if the upload fails or is interrupted"
  (README:90). With `--pds-file -` and a writer that stalls, `reader.Next` looks
  at no context and `group.Wait` waits for it: an interrupted run goes on for ever.
- `upload_drop`: the same sentence. When CREATE TABLE took effect but returned an
  error, `openTable` returns before `dropOnFailure` is deferred.
- `snapshot_orphan`: `--ssh-timeout`, "time allowed for each VM's lookup"
  (README:137). `cmd.Output` without a `WaitDelay` waits for every holder of the
  pipe, also for a child that outlives the killed gcloud.

Others, seen while modelling, have no run of their own:

- merge-fies, "renamed when the row count matches the inputs" (README:260): two concurrent
  runs share `<output>.tmp`; one counts its file, the other begins its own there, and
  the first renames that. `OutputIsWhole` and `SuccessIsOwn` therefore except the files of runs that overlapped; that
  they may hold anything is in the model.
- upload-agents, "an appended-to table is never dropped" (README:140): the creator may
  still fail after another run appended to its table. `KeptOnceSettled` begins with the creator's end.
- compute-fdhs, "the running query is killed first" (README:217): KILL QUERY may
  fail, or find nothing because the query has not started (`compute_fdhs.go:195`);
  `DropAwaitsKill` and `StrayQueryWasMissed` say exactly when that matters.
- compute-fdhs, a duplicated `pd_id` fails the check (README:224) only when an FIE
  with a near reply has it (`compute_fdhs.go:164`).
- merge-fies, "must not exist unless --overwrite is given" (README:260): an output that
  another program makes between the last check (`merge.go:73`) and the rename
  (`merge.go:101`) is replaced. `KnownOutputIsKept` says that only such an output is: one that nobody has written or
  removed since that check stays.
- The PD ID 4294967295 fits 32 bits and is refused (`pds.go:139`).
- A merged row has a reply time where the address is missing; `recvTime` and the README's
  "NULL when there was no reply" give none. A merged time drops the fraction of its file's start.
- `--pdid-percent` is "in (0, 100]" (README:28); the check lets a NaN pass.
- progress: a frame's line that is longer than the terminal is wide wraps, and `draw` goes up
  by one line less than it is long. The last frame of upload-pds and of
  compute-fdhs is a full bar and "done" also after a failure.
- v1 `parquet`: without `--pdids` and `--pdid-percent` it always fails, since the default of 0
  (`main.go:191`) is out of its own range (`main.go:73`); `--pdids` makes a condition without
  its WHERE (`main.go:71`), which DuckDB refuses; the output is emptied before a bad `--batch-size` is
  refused; "complete" is printed before the footer is written, whose error is ignored (`main.go:108`);
  its README gives `--batch-size` as 100000 (line 40, the code has 2000000) and IPv4
  addresses as 4 bytes (line 110, `To16` gives 16). A file whose name has no time fails only once the rows of
  the files before it were written.
- v1's loader leaves the rows it inserted when it fails.

## 5. What is proved

TLAPS checks every theorem for all values of the constants, under the ASSUMEs of the modules.

- **UploadFIEs, UploadPDs.** `IInv` is inductive: `RunInv` (the table, the error and
  the deferred drop), `PipeInv` (the batches) and `ReaderInv`. `TableIsPrefix` alone is
  not inductive: it needs `Lossless`, that as long as no insert failed (`Intact`)
  the rows read are, in this order, those in the table, in the inserter's batch, in the
  channel (`Chain`) and in the reader's batch. PipelineProofs shows that each step of the
  pipeline keeps it, once for both commands. From it follow type correctness, `TableIsPrefix`,
  `SuccessIsComplete`, `FailureIsClean`, `BoundedMemory`, `CauseIsReported`,
  `VerifiedIsKept`, `ForeignIsUntouched` (the last two stated of UploadFIEs), and that UploadFIEs and UploadPDs
  implement SequentialUpload (initial states map to initial states, steps to steps or stutters).
- **UploadPDFile.** `NumberInv` (IDs are positions, and every non-blank line scanned was given) and
  `IDsFollowFile`, using `IInv` of UploadPDs and the prefix theorem. Every step of it is one of
  UploadPDs (`FileStep`), so it implements SequentialUpload too (`FileRefinement`).
- **Source.** `WindowInv` is the loop invariant of `Window`: what is left of offset
  and limit is determined by the rows passed (`LoopInv`), and the reads lie one behind
  the other (`ReadsInv`). `FilterIsExact` relates `overlaps`, `where` and
  `ceilSeconds` to captures in `[start, end)` at any clock resolution. `SelectionIsExact` needs `RowsInv`: the files
  are one of the orders by start of those kept (`OrderInv`), each count is of the rows that pass (`CountInv`), a read lies behind the
  rows of the files before its own (`PartsInv`, with `Behind`), and what was read is the rows from the offset to
  where the next read begins (`ReadInv`). Theorem `SelectionAlwaysExact`, and `MergeSelection` for the
  specification that the run checks.
- **MergeRows.** `MergeInv`, with `LaidUpTo` and `ScannedUpTo`: comparing
  neighbours decides about all pairs, because the ends of files that fit are ordered, and
  because the order of segment, PD and time is transitive. Then `LayoutIsExact`,
  `VerifyIsExact` (segments of integer division are the files' intervals, for
  aligned files) and `RowsAgree`, that a merged row's times are the uploaded row's in whole seconds and that
  each is NULL where the uploaded one is, but for a reply whose address alone is missing.
  `MergedInv`, that the COPY has put the files' rows one behind the other, then gives `MergeAgreesWithUpload` row by row.
- **MergeFile.** `FileInv` is inductive for every set of runs, overlapping or not, and with other programs at the output. Of a run
  that no other overlapped, `Placed` says which path holds its file at each point, and `LeftoverGoesFirst` that what it leaves at
  `<output>.tmp` is removed before the next file is begun. Of every run, `Owned` says that a file at `<output>.tmp` is
  still worked on, or could not be removed, and `Checked` that an output it may not replace came after its check.
  `MeetingsKnown` (runs under way at one time know of each other, on both sides) is what makes the steps of other runs harmless
  to one that was alone. From it the four properties of the run.
- **AgentTable.** `TableInv`, and from it `KeptOnceSettled`, that only the creator drops a table (`DroppedByCreator`), and
  that without `--append` a snapshot is only in the table its run made (`AppendedOnlyIfAsked`).
- **ComputeFDHs.** `RowsInv`: as long as the query fills the run's own table, each counted FIE has a
  row there or one still to be inserted, because inputs only grow after they were counted.
  Hence a complete query has put every counted FIE into the table, and when the table then
  has as many rows as FIEs were counted, none of these can be there twice and no other at all (`EachOnce`, which compares the
  cardinality of the rows' positions and of the counted FIEs). `QueryInv` follows the query
  that outlives its table: `StrayQueryWasMissed` and `DropAwaitsKill`.
- **Snapshot.** `PhaseInv` (where the goroutines may be when takeSnapshot waits or has
  returned), `CountInv` (the counter is the number of lookups counted, the list is those not
  removed, the places are not exceeded), `RowInv` (what each row may hold at each step of its goroutine: a failed lookup
  writes its reason into a row that nothing else was written to) and `ShownInv`. The status is complete because each lookup
  removes itself before it takes the status to show, so the last to end shows all of them.
  From it `SnapInv`, `SnapshotIsWhole`, `StatusIsComplete`.
- **Display and DisplayedRun.** `ShownInv`, for files of any number and size. `DrawerInv` says where the display's
  goroutine is while the command goes on, `ReporterInv` which goroutines report, and the others what they have stored and what
  the frame under way has loaded:
  - `ScreenIsClean` follows from `ScreenInv`: `drawn` is the number of lines of the last frame, and below the cursor everything is
    blank. `RedrawnShows` is the heart: going up by `drawn`, writing any lines and blanking the rest leaves the lines above
    as they were and the new ones below them, whichever of the two frames is longer. Without a terminal there is
    one plain line, or none.
  - `FrameIsOfTask` and `FinalIsExact` follow from `FrameInv`, which relates what was loaded to the order of the stores: a
    frame of a kind exists only once `start` is set, and then kind and total are what they stay (`StartInv`); a final frame
    exists only once `stop` is closed, and then `sent` is what it stays (`SentInv`).
  - `TearsGoForward` follows from `TearInv` with `FileInv`: of the fields that are still to be loaded, none is of an earlier
    file than the row count that was loaded, because fields only go forward (`FieldsGrow`) and `File` stores the row
    count after index and name.
  - `WatchInv` keeps watchSize's subtraction `n - Before[file]` a natural number.
- **v1.** The theorems assume of the inputs what `InputsAssumption` says: logs and captures are finite and their events and rows have
  a time. `StreamInv`, that the history is one of the orders of the connection events by time, taken by agent, gives
  `AddressIsCurrent`: the binary search finds the last event that is not after the capture, and an event of that agent
  only. `LoadingInv`: rows are counted one at a time as they are given, put and taken
  (`ItemsCounted`), a row that was taken is in the hands of exactly one worker or in the table (`ItemsHeld`), and none is
  in both while a worker still will insert it (`NotInserted`); with `EndsInOrder` and `CausesTrue` it gives `IngestedOnce`
  and `IngestCause`. `ExportingInv`: the file has the first rows (`FileWhole`), those given and not yet written follow
  them (`RowsFollow`), and the counters never run ahead (`ReportTrue`); it gives `ExportIsWhole`.

Induction over data: the prover cannot use the library's induction theorems, which take an operator, so
FlattenProofs proves `SetInduction`, for sets of numbers, from the fact that `<` is well founded. With it the
proofs go through recursive functions (`Before`) and folds (`FlattenSeq`) for every input.

Only model-checked: all liveness (`Termination`, `V1Ends`, `DisplayEnds`; fairness and ENABLED are out of the
prover's reach), and the three counterexamples of section 4.

## 6. What is not modelled

- build files and scripts, which have no state;
- v1's `pds` and `current-status` commands, which print what a stream gives, and the sizes and estimates that `parquet` prints;
- formatting, colors, rates and bars of the progress display, and the width of the terminal;
- `--dry-run`, which writes nothing, and `DistinctPDs`, which feeds its report;
- DDL, types and settings of ClickHouse; what the rows hold besides what orders, selects or times them;
- parsing of gcloud's JSON and of the lookup's `key=value` lines; gzip; shell quoting;
- a DROP that returned an error and takes effect on the server later: `KeptOnceSettled` would not hold of it;
- files of FIEs that give fewer rows than planned, in what the display shows (UploadFIEs has them), and the phase
  that upload-agents' dry run leaves set when it stops the display;
- times before the first file's start in `Verify`, where DuckDB's `//` rounds to zero and `\div` down: no row has one;
- what the driver does when `pollQuery` uses a connection that was closed;
- errors of `os.Remove` that the code ignores; two runs that list VMs in the same microsecond.

## 7. Plan

Done, in this order: TableRun and Pipeline with the two uploads, their
abstract specification and proofs; Source; MergeFile; ComputeFDHs; Snapshot;
AgentTable; PDReader with UploadPDFile; MergeRows; the progress display with all its callers;
v1's streams with both of their readers; the proofs of ComputeFDHs and Snapshot; those of the selection and
of the merged rows for every directory; of v1's streams, loader and export; of the progress display; and that
upload-pds implements the sequential upload.

What would come next:

1. Lemmas that PDReader's `Refused` and `Accepted` agree with what the reader does line by line, so that
   `NextPD` is enabled exactly when a line is accepted.
2. `VerifiedIsKept` and `ForeignIsUntouched` for UploadPDs and ComputeFDHs.
3. The dry runs against what the real runs then do.
