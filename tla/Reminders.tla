------------------------------ MODULE Reminders ------------------------------
(***************************************************************************)
(* The reminders of the calendar service (L4.3): the events table, the     *)
(* HTTP requests that write it, the reminder channel, the reminder worker  *)
(* with its handler goroutines, the archiver, and the life of the process  *)
(* (start-up with restore, serving, shutdown, crash).                      *)
(*                                                                         *)
(* A write request (create or update) carries a body; a ReminderTask is a  *)
(* copy of the stored body.  Bodies never change, so a body is a REVISION  *)
(* number r, content[r] holds its fields, and a task is just r.            *)
(***************************************************************************)
EXTENDS Integers, Sequences

CONSTANTS
    MaxRevs,        \* bound: write requests in a behaviour
    MaxEvents,      \* bound: rows the id sequence may allot
    MaxTime,        \* bound: the clock
    Dues,           \* event_date + event_time values a request may carry
    Clients,        \* concurrent HTTP requests
    ReminderBuffer, \* capacity of reminderCh
    NoTime,         \* NULL timestamp
    NoRow           \* no row with this id

Revs  == 1..MaxRevs
Ids   == 1..MaxEvents
Times == 0..MaxTime

Content == [id : 0..MaxEvents, due : Times, remindAt : Times \cup {NoTime}]
Row     == [rev : Revs, remindedAt : Times \cup {NoTime}, archived : BOOLEAN]
Request == [pc : {"idle", "create", "update", "enqueue"}, rev : 0..MaxRevs]
Phases  == {"down", "restoring", "serving", "cancelled", "failed", "closing"}

ASSUME Bounds ==
    /\ MaxRevs \in Nat \ {0} /\ MaxEvents \in Nat \ {0} /\ MaxTime \in Nat
    /\ Dues \subseteq Times
    /\ ReminderBuffer \in Nat \ {0}
    /\ NoTime \notin Int
    /\ NoRow \notin Row

VARIABLES
    clock,      \* wall clock, shared by the process and PostgreSQL
    content,    \* content[r]: the fields of revision r
    nextRev,    \* next unused revision
    rows,       \* the events table
    nextId,     \* the BIGSERIAL sequence
    phase,      \* where main is
    startedAt,  \* the time main passed to PendingReminders
    stoppedAt,  \* when the process last died
    reqs,       \* write requests in flight
    restoring,  \* rows main has read but not enqueued yet
    ch,         \* reminderCh
    blocked,    \* blocked[r]: goroutines of enqueueReminder about to send r
    worker,     \* RunReminderWorker is in its loop
    waiting,    \* waiting[r]: handlers of r with an armed timer
    overdue,    \* overdue[r]: handlers of r that skip the timer
    marking,    \* marking[r]: handlers of r that logged it, before MarkReminded
    sent,       \* history: how often r was announced, over all process lives
    untracked   \* history: revisions dropped by a reported storage error
                \* since the last restore

table   == <<content, nextRev, rows, nextId>>
handler == <<waiting, overdue, marking>>
queue   == <<ch, blocked>>
life    == <<phase, startedAt, stoppedAt, worker>>
history == <<sent, untracked>>
vars    == <<clock, table, reqs, restoring, queue, handler, life, history>>

Idle  == [pc |-> "idle", rev |-> 0]
Zero  == [r \in Revs |-> 0]
Inc(f, r) == [f EXCEPT ![r] = @ + 1]
Dec(f, r) == [f EXCEPT ![r] = @ - 1]

CtxDone   == phase \in {"cancelled", "failed", "closing"}
Alive     == phase \in {"serving", "cancelled", "failed", "closing"}
Accepting == phase \in {"serving", "cancelled"}

TypeOK ==
    /\ clock \in Times
    /\ content \in [Revs -> Content]
    /\ nextRev \in 1..(MaxRevs + 1)
    /\ rows \in [Ids -> Row \cup {NoRow}]
    /\ nextId \in 1..(MaxEvents + 1)
    /\ phase \in Phases
    /\ startedAt \in Times
    /\ stoppedAt \in Times \cup {-1}
    /\ reqs \in [Clients -> Request]
    /\ restoring \subseteq Revs
    /\ ch \in Seq(Revs)
    /\ Len(ch) <= ReminderBuffer
    /\ blocked \in [Revs -> Nat]
    /\ worker \in BOOLEAN
    /\ waiting \in [Revs -> Nat]
    /\ overdue \in [Revs -> Nat]
    /\ marking \in [Revs -> Nat]
    /\ sent \in [Revs -> Nat]
    /\ untracked \subseteq Revs

Init ==
    /\ clock = 0
    /\ content = [r \in Revs |-> [id |-> 0, due |-> 0, remindAt |-> NoTime]]
    /\ nextRev = 1
    /\ rows = [i \in Ids |-> NoRow]
    /\ nextId = 1
    /\ phase = "down" /\ startedAt = 0 /\ stoppedAt = -1 /\ worker = FALSE
    /\ reqs = [c \in Clients |-> Idle]
    /\ restoring = {}
    /\ ch = <<>> /\ blocked = Zero
    /\ waiting = Zero /\ overdue = Zero /\ marking = Zero
    /\ sent = Zero /\ untracked = {}

-----------------------------------------------------------------------------
(* The SQL statements of the PostgreSQL repository.                         *)

Exists(i) == i \in Ids /\ rows[i] # NoRow

\* INSERT: the row of revision r; reminded_at and archived_at start NULL.
Insert(i, r) ==
    [rows EXCEPT ![i] = [rev |-> r, remindedAt |-> NoTime, archived |-> FALSE]]

\* Mutant: the UPDATE forgets archived_at IS NULL.
UpdatableEvenArchived(i) == Exists(i)

\* UPDATE ... WHERE id = $1 AND archived_at IS NULL.
Updatable(i) == Exists(i) /\ ~rows[i].archived

\* SET every column, reminded_at = NULL.
Update(i, r) == [rows EXCEPT ![i].rev = r, ![i].remindedAt = NoTime]

\* Mutant: the UPDATE forgets reminded_at IS NULL.
MarkAlways(i, now) ==
    IF Exists(i) THEN [rows EXCEPT ![i].remindedAt = now] ELSE rows

\* UPDATE ... SET reminded_at WHERE id = $1 AND reminded_at IS NULL.
MarkReminded(i, now) ==
    IF Exists(i) /\ rows[i].remindedAt = NoTime
    THEN [rows EXCEPT ![i].remindedAt = now]
    ELSE rows

\* UPDATE ... SET archived_at WHERE archived_at IS NULL AND event time < before.
ArchiveOld(before) ==
    [i \in Ids |-> IF Exists(i) /\ content[rows[i].rev].due < before
                   THEN [rows[i] EXCEPT !.archived = TRUE]
                   ELSE rows[i]]

\* Mutant: the SELECT forgets remind_at >= now.
PendingAnyTime(i, now) ==
    /\ Exists(i)
    /\ content[rows[i].rev].remindAt # NoTime
    /\ rows[i].remindedAt = NoTime
    /\ ~rows[i].archived

\* SELECT ... WHERE remind_at >= now AND reminded_at IS NULL AND archived_at IS NULL.
Pending(i, now) ==
    /\ Exists(i)
    /\ content[rows[i].rev].remindAt # NoTime
    /\ content[rows[i].rev].remindAt >= now
    /\ rows[i].remindedAt = NoTime
    /\ ~rows[i].archived

ListPendingReminders(now) == {rows[i].rev : i \in {j \in Ids : Pending(j, now)}}

\* ORDER BY remind_at, id.
Before(r, s) ==
    \/ content[r].remindAt < content[s].remindAt
    \/ content[r].remindAt = content[s].remindAt /\ content[r].id < content[s].id

-----------------------------------------------------------------------------
(* enqueueReminder: a non-blocking send, or a goroutine that sends later.   *)

\* Mutant: the goroutine is started whether or not the send succeeded.
EnqueueAlwaysSpawns(r) ==
    IF content[r].remindAt = NoTime THEN UNCHANGED queue
    ELSE /\ ch' = IF Len(ch) < ReminderBuffer THEN Append(ch, r) ELSE ch
         /\ blocked' = Inc(blocked, r)

\* Mutant: the default branch drops the task.
EnqueueOrDrop(r) ==
    /\ ch' = IF content[r].remindAt # NoTime /\ Len(ch) < ReminderBuffer
             THEN Append(ch, r) ELSE ch
    /\ UNCHANGED blocked

Enqueue(r) ==
    \/ /\ content[r].remindAt = NoTime
       /\ UNCHANGED queue
    \/ /\ content[r].remindAt # NoTime
       /\ Len(ch) < ReminderBuffer
       /\ ch' = Append(ch, r)
       /\ UNCHANGED blocked
    \/ /\ content[r].remindAt # NoTime
       /\ Len(ch) >= ReminderBuffer
       /\ blocked' = Inc(blocked, r)
       /\ UNCHANGED ch

\* Mutant: the send does not wait for room.
SenderOverfills(r) ==
    /\ blocked[r] > 0
    /\ ch' = Append(ch, r)
    /\ blocked' = Dec(blocked, r)
    /\ UNCHANGED <<clock, table, reqs, restoring, handler, life, history>>

\* The goroutine started by the default branch gets its task into the channel.
SenderSends(r) ==
    /\ blocked[r] > 0
    /\ Len(ch) < ReminderBuffer
    /\ ch' = Append(ch, r)
    /\ blocked' = Dec(blocked, r)
    /\ UNCHANGED <<clock, table, reqs, restoring, handler, life, history>>

-----------------------------------------------------------------------------
(* Write requests: validate, one storage call, enqueue.  Time passes and    *)
(* the process may die between the three.  Invalid input returns at once    *)
(* and changes nothing.                                                     *)

Begin(c, op, i, due, remindAt) ==
    /\ Accepting
    /\ reqs[c] = Idle
    /\ nextRev <= MaxRevs
    /\ remindAt # NoTime => remindAt > clock
    /\ content' = [content EXCEPT ![nextRev] =
                      [id |-> i, due |-> due, remindAt |-> remindAt]]
    /\ reqs' = [reqs EXCEPT ![c] = [pc |-> op, rev |-> nextRev]]
    /\ nextRev' = nextRev + 1
    /\ UNCHANGED <<clock, rows, nextId, restoring, queue, handler, life, history>>

BeginCreate(c) ==
    \E due \in Dues, at \in Times \cup {NoTime} : Begin(c, "create", 0, due, at)

BeginUpdate(c) ==
    \E i \in Ids, due \in Dues, at \in Times \cup {NoTime} :
        Begin(c, "update", i, due, at)

\* The statement commits: a new row, or the new body of an active row.
Commit(c) ==
    LET r == reqs[c].rev IN
    \/ /\ reqs[c].pc = "create"
       /\ nextId <= MaxEvents
       /\ rows' = Insert(nextId, r)
       /\ content' = [content EXCEPT ![r].id = nextId]
       /\ nextId' = nextId + 1
    \/ /\ reqs[c].pc = "update"
       /\ Updatable(content[r].id)
       /\ rows' = Update(content[r].id, r)
       /\ UNCHANGED <<content, nextId>>

\* The service gets the stored row back and goes on to enqueueReminder.
Store(c) ==
    /\ Alive
    /\ Commit(c)
    /\ reqs' = [reqs EXCEPT ![c].pc = "enqueue"]
    /\ UNCHANGED <<clock, nextRev, restoring, queue, handler, life, history>>

\* The statement commits but the call reports an error (the connection or the
\* request context ends first): CreateEvent/UpdateEvent return without enqueueing.
StoreUnconfirmed(c) ==
    /\ Alive
    /\ Commit(c)
    /\ reqs' = [reqs EXCEPT ![c] = Idle]
    /\ untracked' = untracked \cup {reqs[c].rev}
    /\ UNCHANGED <<clock, nextRev, restoring, queue, handler, life, sent>>

\* No row matched, or the statement failed without effect.
StoreFails(c) ==
    /\ Alive
    /\ reqs[c].pc \in {"create", "update"}
    /\ reqs' = [reqs EXCEPT ![c] = Idle]
    /\ UNCHANGED <<clock, table, restoring, queue, handler, life, history>>

EnqueueStored(c) ==
    /\ Alive
    /\ reqs[c].pc = "enqueue"
    /\ Enqueue(reqs[c].rev)
    /\ reqs' = [reqs EXCEPT ![c] = Idle]
    /\ UNCHANGED <<clock, table, restoring, handler, life, history>>

\* DeleteEvent is one statement; tasks of the event stay where they are.
DeleteEvent(i) ==
    /\ Alive
    /\ Exists(i)
    /\ rows' = [rows EXCEPT ![i] = NoRow]
    /\ UNCHANGED <<clock, content, nextRev, nextId, reqs, restoring, queue,
                   handler, life, history>>

-----------------------------------------------------------------------------
(* The background workers.                                                  *)

\* The tick the archiver got from its ticker may be older than the clock.
\* After cancellation the statement fails.
Archive(before) ==
    /\ phase = "serving"
    /\ before <= clock
    /\ rows' = ArchiveOld(before)
    /\ UNCHANGED <<clock, content, nextRev, nextId, reqs, restoring, queue,
                   handler, life, history>>

\* After cancellation the select may still choose the channel.
WorkerReceives ==
    /\ worker
    /\ ch # <<>>
    /\ ch' = Tail(ch)
    /\ IF content[Head(ch)].remindAt > clock
       THEN /\ waiting' = Inc(waiting, Head(ch))
            /\ UNCHANGED overdue
       ELSE /\ overdue' = Inc(overdue, Head(ch))
            /\ UNCHANGED waiting
    /\ UNCHANGED <<clock, table, reqs, restoring, blocked, marking, life, history>>

\* Mutant: the loop returns without cancellation.
WorkerExitsEarly ==
    /\ worker
    /\ worker' = FALSE
    /\ UNCHANGED <<clock, table, reqs, restoring, queue, handler,
                   phase, startedAt, stoppedAt, history>>

WorkerExits ==
    /\ worker
    /\ CtxDone
    /\ worker' = FALSE
    /\ UNCHANGED <<clock, table, reqs, restoring, queue, handler,
                   phase, startedAt, stoppedAt, history>>

Announce(r) ==
    /\ sent' = Inc(sent, r)
    /\ marking' = Inc(marking, r)
    /\ UNCHANGED <<clock, table, reqs, restoring, queue, life, untracked>>

TimerFires(r) ==
    /\ waiting[r] > 0
    /\ content[r].remindAt <= clock
    /\ waiting' = Dec(waiting, r)
    /\ Announce(r)
    /\ UNCHANGED overdue

OverdueFires(r) ==
    /\ overdue[r] > 0
    /\ overdue' = Dec(overdue, r)
    /\ Announce(r)
    /\ UNCHANGED waiting

HandlerCancelled(r) ==
    /\ CtxDone
    /\ waiting[r] > 0
    /\ waiting' = Dec(waiting, r)
    /\ UNCHANGED <<clock, table, reqs, restoring, queue, overdue, marking,
                   life, history>>

\* MarkReminded runs under the process context: an error once it is cancelled.
HandlerMarks(r) ==
    /\ marking[r] > 0
    /\ marking' = Dec(marking, r)
    /\ rows' = IF CtxDone THEN rows ELSE MarkReminded(content[r].id, clock)
    /\ UNCHANGED <<clock, content, nextRev, nextId, reqs, restoring, queue,
                   waiting, overdue, life, history>>

\* A storage error in MarkReminded is only logged.
MarkFails(r) ==
    /\ phase = "serving"
    /\ marking[r] > 0
    /\ marking' = Dec(marking, r)
    /\ UNCHANGED <<clock, table, reqs, restoring, queue, waiting, overdue,
                   life, history>>

-----------------------------------------------------------------------------
(* The process.                                                             *)

\* restorePendingReminders: one query, then the rows in order.  A new process
\* needs a measurable time to come up.
Start ==
    /\ phase = "down"
    /\ clock > stoppedAt
    /\ phase' = "restoring"
    /\ startedAt' = clock
    /\ \/ /\ restoring' = ListPendingReminders(clock)
          /\ untracked' = {}
       \/ /\ restoring' = {}
          /\ untracked' = untracked \cup ListPendingReminders(clock)
    /\ UNCHANGED <<clock, table, reqs, queue, handler, stoppedAt, worker, sent>>

RestoreNext ==
    \E r \in restoring :
        /\ \A s \in restoring \ {r} : Before(r, s)
        /\ Enqueue(r)
        /\ restoring' = restoring \ {r}
        /\ UNCHANGED <<clock, table, reqs, handler, life, history>>

Serve ==
    /\ phase = "restoring"
    /\ restoring = {}
    /\ phase' = "serving"
    /\ worker' = TRUE
    /\ UNCHANGED <<clock, table, reqs, restoring, queue, handler, startedAt,
                   stoppedAt, history>>

\* SIGTERM: cancel() first, then Shutdown closes the listeners.
\* ListenAndServe failing also cancels, but main still waits for a signal.
MoveOn(from, to) ==
    /\ phase = from
    /\ phase' = to
    /\ UNCHANGED <<clock, table, reqs, restoring, queue, handler, startedAt,
                   stoppedAt, worker, history>>

Signal       == MoveOn("serving", "cancelled") \/ MoveOn("failed", "closing")
Shutdown     == MoveOn("cancelled", "closing")
ServerFails  == MoveOn("serving", "failed")

\* Everything outside the database is gone.
Die ==
    /\ phase' = "down"
    /\ stoppedAt' = clock
    /\ worker' = FALSE
    /\ reqs' = [c \in Clients |-> Idle]
    /\ restoring' = {}
    /\ ch' = <<>> /\ blocked' = Zero
    /\ waiting' = Zero /\ overdue' = Zero /\ marking' = Zero
    /\ UNCHANGED <<clock, table, startedAt, history>>

\* Shutdown returned, with or without its 5 s timeout.
Exit  == phase = "closing" /\ Die
Crash == phase # "down" /\ Die

Tick ==
    /\ clock < MaxTime
    /\ clock' = clock + 1
    /\ UNCHANGED <<table, reqs, restoring, queue, handler, life, history>>

Next ==
    \/ \E c \in Clients :
        \/ BeginCreate(c) \/ BeginUpdate(c)
        \/ Store(c) \/ StoreUnconfirmed(c) \/ StoreFails(c) \/ EnqueueStored(c)
    \/ \E i \in Ids : DeleteEvent(i)
    \/ \E t \in Times : Archive(t)
    \/ \E r \in Revs :
        \/ SenderSends(r) \/ TimerFires(r) \/ OverdueFires(r)
        \/ HandlerCancelled(r) \/ HandlerMarks(r) \/ MarkFails(r)
    \/ WorkerReceives \/ WorkerExits
    \/ Start \/ RestoreNext \/ Serve
    \/ Signal \/ Shutdown \/ ServerFails \/ Exit \/ Crash
    \/ Tick

Spec == Init /\ [][Next]_vars

\* The runtime runs every runnable goroutine and time passes; requests,
\* signals, failures and crashes may never happen.
Fairness ==
    /\ WF_vars(Tick) /\ WF_vars(RestoreNext) /\ WF_vars(Serve)
    /\ WF_vars(WorkerReceives)
    /\ \A c \in Clients : WF_vars(EnqueueStored(c))
    /\ \A r \in Revs : /\ WF_vars(SenderSends(r))
                       /\ WF_vars(TimerFires(r))
                       /\ WF_vars(OverdueFires(r))

FairSpec == Spec /\ Fairness
-----------------------------------------------------------------------------
(* Properties.                                                              *)

InSeq(r, s) == \E k \in DOMAIN s : s[k] = r

\* The copies of revision r in the channel or about to enter it, and all the
\* copies that can still announce it.
Queued(r) == (IF InSeq(r, ch) THEN 1 ELSE 0) + blocked[r]

Copies(r) ==
    (IF r \in restoring THEN 1 ELSE 0) + Queued(r) + waiting[r] + overdue[r]

InRequest(r) == \E c \in Clients : reqs[c] = [pc |-> "enqueue", rev |-> r]

\* A reminder is announced at most once, however the request, the overflow
\* goroutine, the worker, a crash and the restore after it interleave
\* (restorePendingReminders re-reads what an earlier process may have sent).
AtMostOnce == \A r \in Revs : sent[r] <= 1

\* No task is ever in two places at once, and none is left once it was
\* announced: the channel, the overflow goroutines and the handlers hold a
\* reminder exactly once between enqueueReminder and its log line.
SingleCopy == \A r \in Revs : sent[r] + Copies(r) <= 1

\* The rows a reader of the table would expect to be reminded of by a process
\* that queried it at startedAt, whatever reminded_at says.
Expected(i) ==
    /\ Exists(i)
    /\ content[rows[i].rev].remindAt # NoTime
    /\ content[rows[i].rev].remindAt >= startedAt
    /\ ~rows[i].archived
    /\ rows[i].rev \notin untracked

Covered(r) == sent[r] > 0 \/ Copies(r) > 0 \/ InRequest(r)

\* While the process serves, every active row with an unsent reminder that was
\* not yet due at start-up has a task on its way or was announced: neither the
\* overflow path of enqueueReminder nor a restart between the INSERT and the
\* enqueue loses it.  A storage error the code reports does (a failed restore, a
\* commit taken for a failure), but only until the next restore that succeeds.
NoReminderLost ==
    phase = "serving" =>
        \A i \in Ids : Expected(i) /\ rows[i].remindedAt = NoTime
                           => Covered(rows[i].rev)

\* main.go: restorePendingReminders restores the future reminders after a
\* restart.  Same as NoReminderLost, for rows that carry reminded_at too: a
\* reminder that was never announced must have a task.
FutureRemindersRestored ==
    phase = "serving" => \A i \in Ids : Expected(i) => Covered(rows[i].rev)

\* An archived event never becomes active again and is never edited, also by
\* an update request that was validated before the archiver ran; it can only
\* be marked or deleted.
ArchivedIsFinal ==
    [][\A i \in Ids : Exists(i) /\ rows[i].archived =>
          \/ rows'[i] = NoRow
          \/ rows'[i].archived /\ rows'[i].rev = rows[i].rev]_rows

\* The first MarkReminded of a revision wins: a second handler of the same
\* event (a task of an older revision and the current one) does not move
\* reminded_at.
FirstMarkWins ==
    [][\A i \in Ids : Exists(i) /\ rows[i].remindedAt # NoTime =>
          \/ rows'[i] = NoRow
          \/ rows'[i].rev # rows[i].rev
          \/ rows'[i].remindedAt = rows[i].remindedAt]_rows

\* Every enqueued or restored reminder is announced unless the process leaves
\* normal service: no task is stuck behind a full channel or a stopped timer.
EventuallyAnnounced ==
    \A r \in Revs :
        (/\ phase = "serving"
         /\ content[r].remindAt # NoTime
         /\ Copies(r) > 0 \/ InRequest(r))
            ~> (sent[r] > 0 \/ phase # "serving")
=============================================================================
