# TLA+ models of go-practiceL4

Specifications, model-checking configurations and proofs for the four programs
of this repository:

| Program | What it is | Main modules |
| --- | --- | --- |
| L4.3 | calendar service: events in PostgreSQL, reminders, archiving, asynchronous log | `Reminders`, `EntryLog`, `AsyncLogger`; `ReminderLog` composes reminders and log; `RemindersProofs`, `LoggerProofs` |
| L4.2 | `mygrep`: a client that splits its input over several grep servers and needs a quorum | `LineText`, `ChunkSplit`, `QuorumClient`, `GrepServers`, `FilterResponse`, `LineFilter`, `ServerProcess`, `Sorting`; `DistributedGrep` composes split, client and servers; `GrepProofs`, `ServerProofs` |
| L4.5 | HTTP statistics: count, sum, min, max, avg, p95; a load generator for it | `Statistics`, composed of `ParallelStats` and `Quickselect`; `LoadGen`; `StatisticsProofs`, `LoadGenProofs` |
| L4.1 | `or.Or`: merges done channels | `OrChannel`, `OrChannelProofs` |

`FoldProofs` holds the lemmas that the proofs of several programs need. `MC<Module>.tla` holds what TLC needs for a module (values of constants); `<Module>_<question>.cfg` is one run. All paths below are relative to
`src/`.

## 1. Inventory

### L4.3 calendar service

*State.* The table `events` (migrations/0001_init.up.sql); the channel
`reminderCh` of `ReminderTask` copies; goroutines that hold a task which did not
fit into the channel; one handler goroutine per received task, waiting on a timer;
the log channel and its overflow goroutines; the context that ends them.

*Operations.* `CreateEvent`, `UpdateEvent`, `DeleteEvent` (one SQL statement each,
then an enqueue for the first two), the three read-only calendar queries,
`ArchiveOld` on a ticker, `ListPendingReminders` at start, `MarkReminded` after
a reminder was logged; `Info`, `Run` and `drain` of the logger.

*Interaction.* HTTP handlers, the reminder worker with its handlers and the archiver
share the table; handlers and the restore share the channel with the worker;
everybody logs. `main` (cmd/calendar/main.go) restores, starts the workers, serves,
and on a signal cancels the context, shuts the server down and returns without
waiting for anyone.

*Hard.* The full-channel path; crash between INSERT and enqueue, or between the log
line and the mark; tasks that outlive the version of the event they were made
for; archiving against updates; cancellation while tasks are on their way; a log
drained while callers still write.

*Correct when.* A reminder is announced at most once over all lives of the process;
none is lost between request, table and channel; archived events are final; a
mark is not moved; log entries are neither lost nor doubled before the
cancellation.

### L4.2 mygrep

*State.* Client: one goroutine per server, a result channel and its closer, the
expiry of the dispatch context, the retry window of each server, the map of
successes and the failure counter. Server process: starting, listening, shutting
down, and the connections that wait for it or that it handles. Server request: a pool of
workers with a job channel and a result channel.

*Operations.* `chunk.Split`, `client.Run`, `postProcessWithRetry`, the exit code of
`main`; `process`, `countMatches`, `collectMatches` on the server; start,
signal and `Shutdown` of `mygrep-server`.

*Interaction.* HTTP POST of a chunk, one answer; answers arrive in any order, late,
or never. The client numbers the first line of a chunk, the server the others, and
each of them cuts lines on its own. Servers may come up after the client, stop
gracefully with a request in flight, crash and be restarted.

*Hard.* A late answer against the timeout, the retry loop, closing the channel,
incomplete results under a quorum, order of lines, empty and tiny inputs, a
late start or a graceful stop of a server against the retry window, whose deadline is
looked at only after a failed dial.

*Correct when.* What is printed is grep's on the answered chunks in file order and with
the numbers of the file, a met quorum is real, the exit code tells the truth, the
client always ends, the server answers as a sequential filter would, and a server that is
up when it is dialed the last time or stops gracefully costs no answer.

### L4.5 statistics

*State.* None between requests; inside one, goroutines writing partial results, and
the in-place copy of quickselect. *Hard.* The cut into chunks, unused workers, the
merge, the selection with equal numbers. *Correct when* the results are those of
the definition, for any number of processors.

The load generator keeps a fixed set of workers on an unbuffered job channel, an atomic
counter of accepted posts and a WaitGroup. *Hard.* Failing posts, zero workers, the report
against the last count. *Correct when* every request is posted once, the printed count is
that of the accepted posts, and the report always comes.

### L4.1 Or

*State.* One goroutine per input, a `sync.Once`, the unbuffered result. *Hard.*
Several inputs at once; a result nobody receives. *Correct when* one goroutine
writes, a waiting reader is released by the first input, and no goroutine whose input fired is
left behind once a reader receives.

### Not modelled

- Configuration, connection set-up and `cmd/migrate` of L4.3: sequential, nothing later
  steps share. The generated mocks are used by tests only.
- The calendar queries (day, week, month): one read-only SELECT each, which changes no
  state; their date ranges are the database's.
- HTTP decoding, status codes and JSON, except the status of `/stats`, which the load
  generator tells apart. `/health`, `pprof` and `cmd/stats-api` keep no state.
- The regular expressions, `-i` and `-F` of the matcher: a pattern is a predicate on
  lines (`Matches`, with the inversion of `-v`) or the set of lines it matches.
- Flag parsing, file reading and the wording of what `mygrep` prints.
- Faults of the network between client and servers other than those a server's life causes are
  free choices in `QuorumClient`, and absent from `DistributedGrep`.
- float64 rounding and overflow: TLC has integers only. The overflow of the sum to
  infinity (stats.go:40), which `encoding/json` refuses, therefore has no property.

## 2. Modules and how they correspond to the code

### Reminders

A write request carries a body and a task is a copy of the stored body; bodies do not
change. So a body is a *revision* `r`, `content[r]` holds its event id, event time
and `remind_at`, a table row is `[rev, remindedAt, archived]`, and a task in the
channel, in a goroutine or in a handler is just `r`. This keeps the difference
between the current version of an event and a task of an older one, which is where the
interesting behaviour is.

| State | Code |
| --- | --- |
| `rows`, `nextId` | table `events` and its sequence |
| `reqs[c]` | a request between validation, statement and enqueue |
| `ch`, `blocked[r]` | `reminderCh`, the goroutines of `enqueueReminder`'s default branch |
| `waiting[r]`, `overdue[r]`, `marking[r]` | handlers on their timer, handlers past it, handlers between the log line and `MarkReminded` |
| `restoring` | rows that `restorePendingReminders` read and has not enqueued |
| `phase`, `worker` | `main` and the loop of `RunReminderWorker` |
| `sent[r]`, `untracked` | history, for properties only |

A request is three steps (`Begin*`, `Store`, `EnqueueStored`) because time passes, the
archiver runs and the process may die between them. `StoreUnconfirmed` is a
statement that commits while the call reports an error: the service returns without
enqueueing, and the revision goes to `untracked`. `Start` reads the table once at
`startedAt`; a failed query also puts what it would have restored into
`untracked`, and one that succeeds empties it: storage errors excuse a reminder only until then. `Die` clears all that is in memory; `Crash` may happen any time,
`Exit` after Shutdown (with or without its five seconds used up).
`ServerFails` cancels without ending `main`.

Clock readings are the model clock at the step; `handleReminder` takes the time it marks
with just before the log line, so the stored value may be older than the clock, and
only whether it is NULL plays a role. A new process comes up strictly later than the
old one stopped (`clock > stoppedAt` in `Start`): exec, configuration and a ping of
PostgreSQL take measurable time. `AtMostOnce` needs this, because the restore
takes rows with `remind_at >= now`.

### EntryLog, AsyncLogger

`EntryLog` is the promise: an entry handed over waits until it is written, is
written once, is given up only after the log was told to stop, nothing is written
after it closed, and without a stop everything is written. `AsyncLogger` follows
logger.go and the Go channel (a send to a full channel parks in order, a receive
moves the first parked value in); `Log == INSTANCE EntryLog WITH ...` maps
`cancelled` to `closing`, and Run returned or process gone to `closed`.

### ReminderLog

`Reminders` and `AsyncLogger` in one life of the process, sharing the context and the
exit of `main`. Every step of `Reminders` that logs in the code takes a step of `Info`:
requests through the middleware (`RequestEnds`, read-only and refused requests
included), the announcement in `handleReminder` (`Reminds`), its error branch (`Marks`),
the archiver, the restore and the serving goroutine. The announcement is nothing but the
entry, so `MarkedIsWritten` asks whether a row marked as reminded was written to
the log.

### QuorumClient

One goroutine state per server (`post`, `dialed`, `backoff`, `report`, `done`), the result
channel, the closer, the expiry and `main`. A failed dial and the look at the deadline are two steps
(`DialFails`, then `TriesAgain` or `GivesUp`), because the dial takes time and anything may
happen between them; without retries the window is over from the start. The input is `found[s]`, the numbers of the matching
lines in the chunk of `s`, ordered as the chunks are. What a server answers
is free: a full answer, which is the one `LineFilter` may give (`ResponseTo`), an error text
(bad pattern), any error, a dial error, or nothing. `Report` and `Drop` are the two
branches of the select at client.go:119.

### FilterResponse, LineFilter, ServerProcess

`FilterResponse` is the content of a response (`ResponseTo`); `LineFilter` answers once with what a
sequential pass finds. `ServerProcess` has
producer, workers, closer and handler with the real capacities (two per worker;
one count per worker) in the three modes; `Filter == INSTANCE LineFilter` is the
refinement, its fairness included. So the client is checked against what the server
is checked, and proved, to implement.

`Sorting` is `sort.Ints` over the chunk numbers in `client.Run` (`Ascending`) and `sort.Slice` over the
hits in `collectMatches` (`Sorted`): the number at a place is the one with so many before it. `SortSeq`
of the standard modules would do for TLC, but it has no definition that a proof can expand.

### LineText, ChunkSplit

Texts over three characters (CR, LF, any other, written `x`), because the properties are about line
ends. `LineText` is what `strings.ReplaceAll`, `Split` and `Join` do to them, each as one pass over
its argument from left to right (`Normalize`, `Cut`, `Join`), which is how they can be reasoned about.
`Prepare` is the normalisation and the cut into lines, `DealChunk` one turn of the
loop, `ServerLines` what server.go:81-85 makes of the data.

### GrepServers, DistributedGrep

`GrepServers` is `cmd/mygrep-server`: `life[s]` is where its `main` is, `conn[s]` the one connection
of the search. `Signal` closes the listener, and with it what waits in the accept queue; the
handler goes on while `Shutdown` waits (`Respond` in `closing`); `ShutdownReturns` needs
no handler at work, `ShutdownTimesOut` is the five seconds; `ListenFails` is
`log.Fatalf`.

`DistributedGrep` is one search. It extends `ChunkSplit`, whose steps it takes first, and
`QuorumClient`, whose `found` is computed from the chunks as the server
would number them (`NumbersOf`), with `Server` (an instance of `GrepServers`) behind
every post: a dial fails only when nobody listens, an answer needs a handler that ran,
any other error a connection that was cut or an expired context. `excused` is history: the servers
that were not up at a dial after which the window was found over (`DialedTooLate`), or whose connection
was cut by a fault. `named` says that the input is a file and not stdin, which `-l` has no name for.
`PrintedIsGrep` and `NoNeedlessFailure` compare the end of the search with grep on the input
and with `excused`. `Unsent` are the lines grep reads and no server gets: empty ones that are alone in
their chunk, and the one of a text that is nothing but a line end.

### ParallelStats, Quickselect, Statistics

`ParallelStats`: the launching loop with its break, one goroutine per worker, wg.Wait and
merge; the sequential path below the threshold. `Quickselect`: one action per turn
of the loops of `quickselect` and `partition`, 0-based indices as in the code.
`PercentileIndex` is the ceiling in integers; evaluated in float64 the code's
expression has the same value for every length up to two million. `Statistics`
is `Calculate`: the aggregation and then, through an instance of `Quickselect` on
the same numbers, the percentile. The code always asks for 95; on inputs as
short as TLC can enumerate that is the largest number, so the percentile is the
constant `Percents`, and lower ones make the selection narrow to both sides.

### OrChannel

`n` inputs, each giving one value or being closed, a reader that receives when it
likes. `n = 1` returns the input itself, `n = 0` nil. The inputs of one call are
different channels.

### LoadGen

`main` feeds the jobs (`Hand` is the rendezvous on the unbuffered channel), closes it, waits and
prints; a worker receives, posts, counts, and leaves when the channel is closed.
`PostFails` is a transport error or the ten seconds of the client, `PostAnswered` the status
the Stats handler gives to the body of `buildBody` (400 without numbers). `AllAsleep`
is the runtime's error when no worker exists.

## 3. Runs

| Run | Shows | Instance |
| --- | --- | --- |
| `Reminders_run` | `AtMostOnce`, `SingleCopy`, `NoReminderLost`, `ArchivedIsFinal`, `FirstMarkWins`; `EventuallyAnnounced` | 2 clients, 2 events, 2 writes, clock 0..2, reminders at 1, channel of 1; about 380 thousand states |
| `Reminders_restore` | **violated** `FutureRemindersRestored` | 1 client, 1 event, 2 writes |
| `AsyncLogger_log` | `Conserved`, `DirectInOrder`, `DrainWritesQueued`; `ImplementsEntryLog` | 2 callers with 2 entries each, buffer of 2 |
| `ReminderLog_marked` | **violated** `MarkedIsWritten` | 1 client, 1 event, 1 write, log buffer of 1, one entry of each caller |
| `QuorumClient_run` | `ResultInFileOrder`, `QuorumIsReal`, `AllCountedInTime`, `ExitCodeSound`, `Terminates` | 3 servers with up to one matching line each, quorum default, 1, 4, with retry; about 720 thousand states |
| `ServerProcess_pool` | `EveryHitOnce`; `ImplementsLineFilter` | 2 workers, up to 5 lines, every set of matching lines |
| `DistributedGrep_run` | `NothingLost`, `NumbersRight`, `PrintedIsGrep`, `NoNeedlessFailure` | all texts up to 6 characters cut into up to 4 chunks; 17 of them searched on 2 servers, with quorum 1 and 3, one start of each server; about 2 million states |
| `ChunkSplit_preserves` | **violated** `PreservesAllLines` | texts up to 4 characters |
| `Statistics_calculate` | `SumAndCount`, `ExtremesWhenBusy`, `TargetInRange`, `PercentileRank`, `Terminates` | up to 5 numbers over 3 values of both signs, 1 to 4 processors, threshold 4, percentiles 20, 50, 95 |
| `Statistics_minmax` | **violated** `MinMaxOfNumbers` | up to 5 positive numbers, threshold 3 |
| `OrChannel_merge` | `OneWriter`, `ReaderReleased`, `FiredGoroutinesEnd` | up to 4 inputs |
| `LoadGen_run` | `ReportIsTrue`, `EndsWithReport` | up to 4 requests, up to 3 workers, bodies with and without numbers |

Every state machine also has one type invariant (`TypeOK`; `WellTyped` in `Statistics`
for both of its parts, `SearchTypeOK` in `DistributedGrep` for its three).

*Why the bounds are enough for what they show.* Two revisions are the current and the
stale version of one event, or two events competing for one channel slot; one slot
makes the overflow path common; three clock values put a request before, at and after the time
it asks to be reminded at, and a stop and a restart before and after it. Two callers with two log entries each on a buffer of two
reach "buffer full, one entry parked, one not yet at its send", and two direct entries of one
caller in the buffer together (three entries each already take the refinement check beyond
minutes). Three servers give a majority that is not
everyone; quorum 4 cannot be met, quorum 1 is met by the first answer; the lines 1 and 3
match so that an answer can be missing before and after another. Five lines on two
workers exceed the capacity of the job channel (four). Six characters hold three
line ends with and without carriage return. The texts that are searched (`Sent`) are all of up to two
characters and four longer ones: a match on both sides of an empty line, line ends with
a carriage return, an empty last chunk, a last chunk of one empty line; input from stdin (`named`
false) is tried under `-l` only, where it matters; the servers come and go for the first
of these (`Troubled`), where both chunks matter, and are up for the others. Quorum 3 on two servers is refused. A server
is followed until the client has what it gets from it (`Followed`), since nothing it
does later can matter. One start per server gives "up late" and "crashed and back". Four requests on
three workers make one worker take a second job after its post failed. Four processors on four or five numbers
leave workers idle (five numbers are cut into chunks of two). Equal numbers and
ranges of one to five reach every branch of the partition. What the bounds cut is the
repetition of these situations; the proofs below do without them.

*Deadlock* is checked except where the system may really come to rest: `Reminders`
and `ReminderLog` (the bounded clock stops) and `OrChannel` (a caller that does nothing
more).

### Disagreements between the code and what it says

1. `FutureRemindersRestored`: a task of an older version marks the updated row, so a
   restart misses the new reminder (main.go:117, postgres.go:145).
2. `MarkedIsWritten`: a reminder is marked as sent (postgres.go:140) although its entry
   is never written: `drain` returns on the first empty moment while an overflow goroutine
   still holds the entry (logger.go:63-74), and the mark does not wait (reminder.go:49-59).
   `main` returning without waiting for `Run` (main.go:77-84) has the same effect.
3. `PreservesAllLines`: a chunk that is one empty line is lost (chunk.go:70,
   chunk_test.go:62).
4. `MinMaxOfNumbers`: unused workers contribute zeros (stats.go:76-111). With the real
   threshold this takes a few hundred processors.

Each has a run of its own with one property; the positive properties next to it say
how much does hold (`NoReminderLost`, `DrainWritesQueued`, `NumbersRight`,
`ExtremesWhenBusy`).

Some smaller ones the models show and no run is kept for. A result dropped at the
timeout of `client.Run` is in no counter, so `Failures` may be less than the servers
that did not answer (client.go:56, 119-122); `AllCountedInTime` is what holds. Exit
code 1, "no lines found" (README of L4.2, line 104), is also returned when a quorum
without matches left a chunk unsearched (cmd/mygrep/main.go:134); `ExitCodeSound` is
what holds. With `-v`, the empty line that a chunk loses (3. above) also changes the exit code: on
two servers `-v x` on the text "x, empty line" finds nothing and returns 1, where grep returns 0; and `-l` prints
no name for stdin (cmd/mygrep/main.go:102), where grep prints one; `PrintedIsGrep` leaves out just these two.
A server that comes up in the window of `-connect-retry` (client.go:43) but after the last dial is not dialed
again, because the deadline is looked at only after the dial (client.go:195-199); `NoNeedlessFailure` excuses it. The result of `Or` does not close after an input fired while nobody
receives from it (or.go:8, 25), and the goroutines of its inputs stay; `ReaderReleased` and
`FiredGoroutinesEnd` are what holds.

## 4. Fairness

Only what the Go runtime and time give is assumed: a goroutine that can run does
(weak fairness of its step), a context with a timeout expires, a request bound to an
expired context ends with an error. Requests, signals, crashes, storage errors, server
answers, readers and callers may always fail to come. Two assumptions are strong: the
select of the logger's `Run` takes `ctx.Done` if it is ready again and again
although entries keep coming (`RunSeesDone`; Go picks among ready cases at random), and a
retry that keeps returning to its backoff meets the expired context there
(`BackoffCancelled`); the look at the deadline after a failed dial (`TriesAgain`, `GivesUp`) is a step that
the goroutine can take, so weak fairness does. `Reminders` assumes that the clock goes on (to its bound).
`Statistics` asks only that a request is worked on: weak fairness of its whole step, which
also covers a goroutine, because the caller waits for all of them. `LoadGen` assumes that
`main` and every worker run on, and that a post ends because of the client's timeout.
`DistributedGrep` and `ReminderLog` are about safety; that the client ends is checked in
`QuorumClient`, whose servers may do more.

## 5. Proofs

Eight modules hold theorems. They hold for every value of the constants that satisfies
the named assumptions.

| Module | Theorem | Statement |
| --- | --- | --- |
| `RemindersProofs` | `TypeCorrect` | `Spec => []TypeOK` |
| | `NeverDuplicated` | `Spec => []SingleCopy` |
| | `AnnouncedAtMostOnce` | `Spec => []AtMostOnce` |
| | `NothingForgotten` | `Spec => []NoReminderLost` |
| | `ArchivedForever` | `Spec => ArchivedIsFinal` |
| | `MarkedOnce` | `Spec => FirstMarkWins` |
| `LoggerProofs` | `EntriesConserved` | `Spec => []Conserved` |
| | `QueuedIsWritten` | `Spec => []DrainWritesQueued` |
| | `DirectKeepOrder` | `Spec => []DirectInOrder` |
| | `RefinesEntryLog` | `Spec => Log!LogInit /\ [][Log!LogNext]_(Log!logVars)` |
| | `LoggerTypes` | `Spec => []TypeOK` |
| `GrepProofs` | `QuorumOfAnswers` | `Spec => []QuorumIsReal` |
| | `EveryServerCounted` | `Spec => []AllCountedInTime` |
| | `ResultRight` | `Spec => []ResultInFileOrder` |
| | `ExitCodeRight` | `Spec => []ExitCodeSound` |
| | `ClientTypes` | `Spec => []TypeOK` |
| | `TextComesBack` | `SearchSpec => []NothingLost` |
| | `NumbersComeRight` | `SearchSpec => []NumbersRight` |
| | `OutputIsGrep` | `SearchSpec => []PrintedIsGrep` |
| | `FailuresAreNeeded` | `SearchSpec => []NoNeedlessFailure` |
| | `SearchTypes` | `SearchSpec => []SearchTypeOK` |
| | `SearchRunsClient` | `SearchSpec => []FoundOK /\ [][Next \/ InputArrives]_vars` |
| `ServerProofs` | `NoHitLostOrDoubled` | `Spec => []EveryHitOnce` |
| | `RespondsAsLineFilter` | `Spec => Filter!FilterInit /\ [][Filter!Respond]_<<mode, valid, start, hits, response>>` |
| | `ServerTypes` | `Spec => []TypeOK` |
| `StatisticsProofs` | `NeverGivesUpTarget` | `CalculateSpec => []TargetInRange` |
| | `SelectsPercentile` | `CalculateSpec => []PercentileRank` |
| | `SumsTheInput` | `CalculateSpec => []SumAndCount` |
| | `FindsExtremes` | `CalculateSpec => []ExtremesWhenBusy` |
| | `CalculateTypes` | `CalculateSpec => []WellTyped` |
| `OrChannelProofs` | `OnlyOneWriter` | `Spec => []OneWriter` |
| | `OrTypes` | `Spec => []TypeOK` |
| `LoadGenProofs` | `EveryPostReported` | `Spec => []ReportIsTrue` |
| | `GeneratorTypes` | `Spec => []TypeOK` |

`FoldProofs` holds lemmas only.

*Assumptions.* `Bounds` of `Reminders` (natural bounds, `Dues` among the times, the two null
values not among the values they stand for); `LogBounds` (a natural number of entries, a
buffer of at least one); `ClientBounds` (at least one server, integer quorums, inputs whose chunks have finitely
many matching lines, with greater numbers in later chunks); `SearchBounds` (natural bounds, at least one and no more servers than the greatest
number of chunks, and sets of texts within the bounds, so that the theorems speak of texts of any length); `ServerBounds` (at least one worker, a natural number of
lines, `Pending` is no response); `StatsBounds` and `PercentBounds` (integers, at least one processor and a
threshold of at least one, percentiles from 1 to 100, `NoValue` is no number); `OrBounds` and `LoadBounds`
(natural numbers of inputs, requests and workers); and what the models themselves assume, in particular that a new
process of the calendar starts strictly after the old one stopped.

### Reminders

`AtMostOnce` is not inductive: a state may hold a second copy of a task that is
yet to be announced. The invariant `IInv` keeps a ledger per revision: `sent[r]` plus all copies of `r` (restoring, channel,
overflow goroutines, handlers) plus the request about to enqueue it is at most one.
Every step of the running process moves one unit of the ledger
(`SettledStep`, `RequestsStep`), with the effect of `Enqueue`, of appending to and
taking from the channel stated once as lemmas (`AppendMembers`, `TailMembers`,
`EnqueueEffect`). The one step that could add a unit is `Start`, which reads rows that may
carry announced revisions. There the time argument comes in: `SentDue` says that what
was announced was due by the last stop (or by now while the process lives),
`Volatile` says that nothing is in memory while it is down, and `Pending` only reads rows with
`remind_at >= clock > stoppedAt`. So no announced revision is read again.
`Fresh`, `Requests`, `CopiesTimed` and `Distinct` say which revisions are
unused, which belong to requests, that every copy has a reminder time, and that the
channel has no repetition. `Invariance` puts `IInv` together step by step; the three
theorems follow by temporal reasoning.

`NothingForgotten` is the other half: not twice, and not never. Its invariant `Watched` says that an
expected row is `Tracked` (announced, in a copy, or in the hands of a request about to
enqueue it), also in the moment between the statement and the enqueue, where
`NoReminderLost` alone would not be inductive. Most steps only
move a copy (`QuietStep`); `EnqueueTracks` covers both branches of `enqueueReminder`; at `Start` the
restore reads exactly the rows that `Watched` expects.

The last part reasons about rows. Four statements write the table, and `TableStep` says what each does to
one row. An update replaces a row's body by a revision that was never in the table before
(`Unstored`: a revision belongs to one request, and its statement is executed
once), so a row that keeps its revision was not edited, which is what the two action properties need.

### Logger

`InOnePlace` says that the issued entries are split into buffer, parked goroutines, goroutines before
their send, and output, without repetition; `ParkedBehindFull` that a goroutine parks only
behind a full buffer, so that an empty buffer at `DrainEnds` means that nobody waits;
`QueuedKept` follows what was queued at the cancellation. `Conserved` counts what
`InOnePlace` says of sets (`Occurrences`). The same invariant shows that the head of the
buffer is an entry the abstract log still waits for, hence `RefinesEntryLog`; the
fairness half of `ImplementsEntryLog` is model-checked.

For the order, look at what is written followed by what is buffered (`Output`): a receive only moves the border between the
two, a send makes it longer at the end. So `OrderInv` says that the direct entries of a caller are sorted in
`Output`, not only in `written`, and that an entry parked or not yet at its send is not a direct one; a
parked entry that moves in behind is therefore no threat, and a new direct one carries the greatest number its
caller has used.

### Client

Each server reports one result, and the receiver puts it on one of two sides. `ClientInv`
ties the two counters to the sets of servers on either side (`FailuresCounted`,
`SuccessIsAnswer`), `OneResult` says that a goroutine that has not reported is on neither, and
`ReturnsLast` that the loop over the results ends with the last one, unless the context
expired. The first two theorems are then about cardinalities of subsets of the servers.

`ResultInv` adds that the result is set once, by `Return`, and the exit code from it (`MainOK`), and that
failures, results in the channel and successes together are no more than the goroutines that ended
(`Bounded`), which is the type of the channel and keeps the counters from naming a server too many. What remains is what `Return` computes, and there is no
step to do induction over: it is two folds. `AssembleIs` follows the fold over
`Ascending(successes)` index by index, with the prefix assembled so far: it is strictly
increasing and holds the lines of the chunks visited, and whatever is appended lies behind it because
chunks and their numbers are sorted the same way (`InOrder`, `AscendingAscends`). `CountIs` adds up the counts over the set: both
the sum and the cardinality of the union grow by one chunk at a time, because chunks are disjoint.

### Chunks

`SplitInv` says in closed form what the loop of `chunk.Split` has done: chunk `k` of `m` is `Cutting(lines, m, k)`,
the joined lines after `Offset(k - 1)` up to `Offset(k)`, where `Offset(k, l, m)` is `k * (l \div m)` and what
the first chunks get of the remainder. `OffsetSteps` shows that one turn goes from one offset to the next, that they
grow, and that the last one is the number of lines; `FullChunks` that the chunks with lines come first.

What is lost or moved at a cut is a question about the functions of `LineText`, and these are folds. `CutSteps`,
`NormalizeSteps` and `JoinSteps` give each of them for one more character or line, and every fact about them is then
an induction over the length (`SeqSetInduction`): cutting what was joined gives the lines back if none of them has a
line feed (`CutJoined`), joining what was cut gives the text back (`JoinOfCut`), joining in two stages is joining once
(`JoinConcat`, `JoinedTwice`). `NothingIsLost` follows for the full chunks one after the other (`ComesBack`).
The server normalises once more, after the chunk was cut; `SeenLines` says that this leaves the number of lines as it is and
takes at most one carriage return from the end of each, hence `NumbersAreKept`. The one exception is the chunk of one
empty line, whose data is empty (`ServerSees`); it is the counterexample of `PreservesAllLines`, and its line is one of
the `Unsent` ones that `PrintedIsGrep` leaves out on the side of grep.

### The whole search

Every step of the search is a step of `chunk.Split` before the dispatch, or a step of the client, or
leaves both alone (`StepKinds`). So the invariants of both parts hold in the composition: `CutInv` adds that
`found` is what the servers find in the chunks as soon as they are cut (`FoundInv`), and `FoundOrdered` that this meets the
assumption `QuorumClient` makes of its inputs: the lines of different chunks lie between different offsets
(`ChunkNumbers`, `BetweenOrdered`). `SearchRunsClient` states the composition as a theorem.
`OutputIsGrep` then puts together what was proved of the parts: what the client returns is what its servers found,
in ascending order, there is one such order (`OneOrder`), and what they found is what grep selects in their lines
(`HitsAreSeen`). For that, the server of a chunk of one empty line must find nothing, and nobody else that line, which
is in no other chunk (`ChunkNumbers`); the servers of all other chunks find exactly what grep selects there. For
the exit code it is also needed that no line is in no chunk (`SomeChunk`): the chunk of a line is the first whose
end is not before it (`SomeShare`).

`NoNeedlessFailure` relates the goroutine of a server, its connection and the life of the server. It holds
because of two facts about `excused` and one about answers. Whoever's connection is cut is excused, and so is
whoever was dialed too late (`Excused`); the second fact is about all servers and all steps, because a window
may pass while the goroutine is between its failed dial and the clock. An answer `"error"` means an expired context or an
excuse, `"ok"` and `"refused"` mean what they say of the pattern, and an answer that was given before the timeout
is in the channel or was counted (`AnswersOK`). What the server does between the dial and the look at the deadline plays
no role: that a server comes up there does not save its chunk.

### Server pool

The jobs are consecutive numbers, so one number says which lines were taken: `Taken`, the lines produced
less those still in the channel. `ServerInv` says that a hit below `Taken` is in exactly one of three
places, with a worker at its send, in the result channel or with the handler (`HitsOnce`); and that no hit
above is in any. Under `-c` nothing is in a place; there the sum of what the workers have counted and not
sent, of the numbers in the channel and of those gathered is the number of hits below
`Taken` (`HitsCounted`). `PoolOrder` says that a worker leaves only when all lines were taken, and that
the results are closed behind the last one; so when the handler ends its loop, `Taken` is the
number of lines and everything is gathered. Sorting and shifting the gathered indices gives the
response of the sequential pass (`SortedIsAscending`, `ShiftAscending`), hence `RespondsAsLineFilter`: the one
step of the pool that sets the response is `LineFilter`'s, and all others stutter.

### Statistics

Quickselect: `SelectInv` says that the copy is a rearrangement of the input (`Rearranged`: for every
number, as many do not exceed it as before, which a swap keeps by a bijection of the
indices), that what was given up is on the right side of what is left (`Sides`), that the
target is in the range, and inside the loop of `partition` what has been compared with the pivot (`Partitioned`,
`Placed`). A range that shrinks to the side of the pivot that holds the target keeps `Sides`, and when it is one
number wide that number has its final place in the whole, which is its rank.

Aggregation: `AggregateInv` says of each goroutine that has finished that its partial result is
right for its slice (`Computed`), of the others that it is still `Zero`. `Bounds` says that slices follow
one another from 0 to the length. With the prefix sums `q` of the input, the sum of a slice is
the difference of `q` at its ends, so the merge telescopes to `q[Length]`. The sequential pass is the case of
one slice. The minimum needs `AllBusy`, as the property says: an idle worker's `Zero` is merged too.

### Or and load generator

`OnceInv` relates the state of the `sync.Once` to the goroutines inside it: none unless it
is running, and never two. `ValueInv` adds that nothing was received while the Once is new or its
goroutine is still at its send, so the reader gets one value at most.

`LoadInv` follows a job from `Hand` to the count: it is with one worker at most (`OneWorker`), it was posted
unless it is not handed over or in its post (`PostedOnce`), and the counter is behind the accepted
answers by those that a worker still holds (`CountInStep`). When every worker has left, nothing is held.

### Folds

The models add, concatenate and sort with the folds of the community modules, and the library's
induction theorems take an operator as a parameter, which the provers cannot instantiate. `FoldProofs`
states induction over a set instead (`NatSetInduction`: a set with 0 and closed under
successor holds all numbers; `SubsetInduction`: likewise for the finite subsets and adding an element). From
it follow the facts used above: `FoldLeftAdds` (a sum is the last of the prefix sums), `SumIsAdditive` (the sum over a set),
`MaxOfFinite`, `MinOfFinite`, `AscendingAscends`, `SortedIsAscending`, and the lemmas about the functions of `LineText`.

### Only model-checked

- Liveness (the prover does not handle fairness and ENABLED), hence also the fairness half of
  the two refinements: `EventuallyAnnounced`, both `Terminates`, `ReaderReleased`, `FiredGoroutinesEnd`, `EndsWithReport`.
- `ReminderLog`, which exists for its counterexample.

## 6. Plan

Done: every component that keeps state, the two compositions, and the proofs above, which state every
safety property of the passing runs. Left, in this order:

1. An abstract specification of the reminder service (each revision: registered, announced
   at most once, superseded) and the refinement, whose steps the lemmas of `RemindersProofs` already separate.
2. The calendar queries against concurrent archiving and updates; `or.Or` with channels
   shared between calls.
