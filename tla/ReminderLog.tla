----------------------------- MODULE ReminderLog -----------------------------
(***************************************************************************)
(* The reminders of the calendar service (L4.3) together with its log, in  *)
(* one life of the process: an announced reminder is an entry handed to    *)
(* the asynchronous logger, and its mark in the table does not wait for    *)
(* the entry to be written.                                                *)
(***************************************************************************)
EXTENDS Reminders, SequencesExt

CONSTANTS
    LogBuffer,  \* capacity of the log channel
    PerCaller   \* bound: entries of one caller

VARIABLES issued, logCh, parked, spawned, run, written, direct, timedOut, queued

logVars == <<issued, logCh, parked, spawned, run, written, direct, timedOut, queued>>

\* Who logs: the middleware of the requests, the handler of a reminder, the
\* archiver, main.
Http       == <<"http", 0>>
Handler(r) == <<"reminder", r>>
Archiver   == <<"archiver", 0>>
Main       == <<"main", 0>>

Log == INSTANCE AsyncLogger WITH
           Callers <- {Http, Archiver, Main} \cup {Handler(r) : r \in Revs},
           ch <- logCh, cancelled <- CtxDone, exited <- stoppedAt # -1

LoggedInit == Init /\ Log!Init

-----------------------------------------------------------------------------
\* The middleware logs a request when its handler has returned.
RequestEnds ==
    /\ \/ \E c \in Clients : EnqueueStored(c) \/ StoreUnconfirmed(c) \/ StoreFails(c)
       \/ \E i \in Ids : DeleteEvent(i)
       \/ Accepting /\ UNCHANGED vars      \* read-only or refused
    /\ Log!Info(Http)

\* The archiver logs when rows changed, and an error.
ArchiverRuns ==
    \/ \E t \in Times :
        /\ Archive(t)
        /\ IF rows' # rows THEN Log!Info(Archiver) ELSE UNCHANGED logVars
    \/ Alive /\ UNCHANGED vars /\ Log!Info(Archiver)

Reminds(r) ==
    /\ TimerFires(r) \/ OverdueFires(r)
    /\ Log!Info(Handler(r))

\* Only an error of MarkReminded is logged; no row to mark is one.
Marks(r) ==
    /\ HandlerMarks(r) \/ MarkFails(r)
    /\ IF rows' # rows THEN UNCHANGED logVars ELSE Log!Info(Handler(r))

\* The restore logs how it ended, and the serving goroutine that it started.
Restored      == Serve /\ Log!Info(Main)
ServerStarted == Alive /\ issued[Main] = 1 /\ UNCHANGED vars /\ Log!Info(Main)

\* cancel(): by the signal, or by ListenAndServe failing.
Stops ==
    /\ Signal \/ ServerFails
    /\ IF CtxDone THEN UNCHANGED logVars ELSE Log!Cancel

Unlogged ==
    /\ \/ \E c \in Clients : BeginCreate(c) \/ BeginUpdate(c) \/ Store(c)
       \/ \E r \in Revs : SenderSends(r) \/ HandlerCancelled(r)
       \/ WorkerReceives \/ WorkerExits \/ RestoreNext \/ Tick
       \/ stoppedAt = -1 /\ Start
       \/ Shutdown \/ Exit \/ Crash
    /\ UNCHANGED logVars

LoggerRuns ==
    /\ UNCHANGED vars
    /\ phase # "down"
    /\ \/ \E e \in Log!Entries : Log!OverflowSends(e)
       \/ Log!RunWrites \/ Log!RunSeesDone \/ Log!DrainEnds \/ Log!DrainTimesOut

LoggedNext ==
    \/ RequestEnds \/ ArchiverRuns \/ Restored \/ ServerStarted \/ Stops \/ Unlogged \/ LoggerRuns
    \/ \E r \in Revs : Reminds(r) \/ Marks(r)

LoggedSpec == LoggedInit /\ [][LoggedNext]_<<vars, logVars>>
-----------------------------------------------------------------------------
\* postgres.go: MarkReminded marks a reminder that was sent, and sending it is
\* its log entry; logger.go: drain writes the remaining entries.  When Run has
\* returned without the timeout, every reminder the table calls sent is written.
MarkedIsWritten ==
    run = "returned" /\ ~timedOut =>
        \A i \in Ids : Exists(i) /\ rows[i].remindedAt # NoTime =>
            <<Handler(rows[i].rev), 1>> \in ToSet(written)
=============================================================================
