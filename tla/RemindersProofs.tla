--------------------------- MODULE RemindersProofs ---------------------------
(* Type correctness of Reminders; no reminder is ever announced twice, none *)
(* is lost, archived events stay archived and the first mark of a revision  *)
(* stays.                                                                   *)
EXTENDS Reminders, SequenceTheorems, TLAPS

-----------------------------------------------------------------------------
(* Facts about the channel as a sequence without repetitions.               *)

Distinct(s) == \A k, l \in DOMAIN s : s[k] = s[l] => k = l

\* A send: what the channel holds afterwards.
LEMMA AppendMembers ==
    ASSUME NEW S, NEW s \in Seq(S), NEW e \in S
    PROVE  /\ Append(s, e) \in Seq(S)
           /\ Len(Append(s, e)) = Len(s) + 1
           /\ \A r : InSeq(r, Append(s, e)) <=> (InSeq(r, s) \/ r = e)
           /\ Distinct(s) /\ ~InSeq(e, s) => Distinct(Append(s, e))
<1>1. /\ Append(s, e) \in Seq(S)
      /\ Len(Append(s, e)) = Len(s) + 1
      /\ DOMAIN s = 1..Len(s)
      /\ DOMAIN Append(s, e) = 1..(Len(s) + 1)
      /\ \A k \in 1..Len(s) : Append(s, e)[k] = s[k]
      /\ Append(s, e)[Len(s) + 1] = e
      /\ Len(s) \in Nat
  OBVIOUS
<1>2. \A r : InSeq(r, Append(s, e)) <=> (InSeq(r, s) \/ r = e)
  BY <1>1 DEF InSeq
<1>3. Distinct(s) /\ ~InSeq(e, s) => Distinct(Append(s, e))
  BY <1>1 DEF InSeq, Distinct
<1> QED
  BY <1>1, <1>2, <1>3

\* A receive: what the channel holds afterwards.
LEMMA TailMembers ==
    ASSUME NEW S, NEW s \in Seq(S), s # <<>>, Distinct(s)
    PROVE  /\ Head(s) \in S /\ InSeq(Head(s), s)
           /\ Tail(s) \in Seq(S)
           /\ Len(Tail(s)) = Len(s) - 1
           /\ \A r : InSeq(r, Tail(s)) <=> (InSeq(r, s) /\ r # Head(s))
           /\ Distinct(Tail(s))
<1>1. /\ Len(s) \in Nat \ {0}
      /\ Head(s) = s[1] /\ Head(s) \in S
      /\ Tail(s) \in Seq(S)
      /\ Len(Tail(s)) = Len(s) - 1
      /\ DOMAIN s = 1..Len(s)
      /\ DOMAIN Tail(s) = 1..(Len(s) - 1)
      /\ \A k \in 1..(Len(s) - 1) : Tail(s)[k] = s[k + 1]
  OBVIOUS
<1>2. InSeq(Head(s), s)
  BY <1>1 DEF InSeq
<1>3. ASSUME NEW r
      PROVE  InSeq(r, Tail(s)) <=> (InSeq(r, s) /\ r # Head(s))
  <2>1. ASSUME InSeq(r, Tail(s)) PROVE InSeq(r, s) /\ r # Head(s)
    <3>1. PICK k \in 1..(Len(s) - 1) : s[k + 1] = r
      BY <1>1, <2>1 DEF InSeq
    <3>2. k + 1 \in 1..Len(s) /\ k + 1 # 1 /\ 1 \in 1..Len(s)
      BY <1>1
    <3> QED
      BY <1>1, <3>1, <3>2 DEF InSeq, Distinct
  <2>2. ASSUME InSeq(r, s), r # Head(s) PROVE InSeq(r, Tail(s))
    <3>1. PICK k \in 1..Len(s) : s[k] = r
      BY <1>1, <2>2 DEF InSeq
    <3>2. k - 1 \in 1..(Len(s) - 1) /\ (k - 1) + 1 = k
      BY <1>1, <2>2, <3>1
    <3> QED
      BY <1>1, <3>1, <3>2 DEF InSeq
  <2> QED
    BY <2>1, <2>2
<1>4. Distinct(Tail(s))
  <2> SUFFICES ASSUME NEW k \in 1..(Len(s) - 1), NEW l \in 1..(Len(s) - 1),
                      Tail(s)[k] = Tail(s)[l]
               PROVE  k = l
    BY <1>1 DEF Distinct
  <2>1. k + 1 \in 1..Len(s) /\ l + 1 \in 1..Len(s) /\ s[k + 1] = s[l + 1]
    BY <1>1
  <2> QED
    BY <1>1, <2>1 DEF Distinct
<1> QED
  BY <1>1, <1>2, <1>3, <1>4

-----------------------------------------------------------------------------
(* The inductive invariant.                                                 *)

\* A write request of revision r is in flight: it may still enqueue r.
Held(r) == \E c \in Clients : reqs[c].pc # "idle" /\ reqs[c].rev = r

\* The ledger of a revision: it is announced, or somebody still has it, once.
Ledger ==
    \A r \in Revs : sent[r] + Copies(r) + (IF Held(r) THEN 1 ELSE 0) <= 1

\* Every copy is of a reminder with a time; a handler that skipped its timer
\* was late already.
CopiesTimed ==
    \A r \in Revs : /\ Copies(r) > 0 => content[r].remindAt # NoTime
                    /\ overdue[r] > 0 => content[r].remindAt <= clock

\* Nothing refers to a revision that was not handed out yet.
Fresh ==
    /\ \A r \in Revs : r >= nextRev => sent[r] = 0 /\ Copies(r) = 0
    /\ \A i \in Ids : Exists(i) => rows[i].rev < nextRev

Requests ==
    /\ \A c \in Clients : /\ reqs[c].pc = "idle" => reqs[c] = Idle
                          /\ reqs[c].pc # "idle" => reqs[c].rev \in 1..(nextRev - 1)
    /\ \A c, d \in Clients :
           reqs[c].pc # "idle" /\ reqs[c].rev = reqs[d].rev => c = d

LastAlive == IF phase = "down" THEN stoppedAt ELSE clock

\* What was announced was due while the process that announced it lived.
SentDue ==
    /\ \A r \in Revs : sent[r] > 0 => /\ content[r].remindAt # NoTime
                                      /\ content[r].remindAt <= LastAlive
    /\ stoppedAt <= clock

\* A dead process keeps nothing; there are no requests until it serves.
Volatile ==
    /\ phase = "down" => \A r \in Revs : Copies(r) = 0
    /\ phase \in {"down", "restoring"} => \A c \in Clients : reqs[c] = Idle
    /\ phase # "restoring" => restoring = {}

IInv == /\ TypeOK /\ Distinct(ch) /\ Ledger /\ CopiesTimed /\ Fresh /\ Requests
        /\ SentDue /\ Volatile


-----------------------------------------------------------------------------
(* What the steps do to the channel and to the copies of a revision.        *)

\* The counters are naturals and each is a part of Copies.
LEMMA CopiesType ==
    ASSUME TypeOK, NEW r \in Revs
    PROVE  /\ Queued(r) \in Nat /\ Copies(r) \in Nat /\ sent[r] \in Nat
           /\ Queued(r) <= Copies(r) /\ blocked[r] <= Queued(r)
           /\ waiting[r] <= Copies(r) /\ overdue[r] <= Copies(r)
           /\ r \in restoring => 1 <= Copies(r)
           /\ InSeq(r, ch) => 1 <= Queued(r)
<1>1. blocked[r] \in Nat /\ waiting[r] \in Nat /\ overdue[r] \in Nat /\ sent[r] \in Nat
  BY DEF TypeOK
<1> QED
  BY <1>1 DEF Copies, Queued

\* enqueueReminder adds one copy of a revision that had none, or nothing when
\* the revision has no reminder.
LEMMA EnqueueEffect ==
    ASSUME TypeOK, Distinct(ch), NEW r \in Revs, Queued(r) = 0, Enqueue(r)
    PROVE  /\ ch' \in Seq(Revs) /\ Len(ch') <= ReminderBuffer
           /\ blocked' \in [Revs -> Nat]
           /\ Distinct(ch)'
           /\ \A q \in Revs \ {r} : Queued(q)' = Queued(q)
           /\ Queued(r)' = IF content[r].remindAt = NoTime THEN 0 ELSE 1
<1>1. /\ blocked \in [Revs -> Nat] /\ ch \in Seq(Revs) /\ Len(ch) <= ReminderBuffer
      /\ Len(ch) \in Nat /\ ReminderBuffer \in Nat /\ blocked[r] \in Nat
  BY Bounds DEF TypeOK
<1>. ~InSeq(r, ch) /\ blocked[r] = 0
  BY <1>1 DEF Queued
<1>2. CASE content[r].remindAt = NoTime
  BY <1>1, <1>2 DEF Enqueue, queue, Queued
<1>3. CASE content[r].remindAt # NoTime /\ Len(ch) < ReminderBuffer
  <2>1. ch' = Append(ch, r) /\ blocked' = blocked
    BY <1>1, <1>3 DEF Enqueue, queue
  <2>2. /\ ch' \in Seq(Revs) /\ Len(ch') = Len(ch) + 1
        /\ \A q : InSeq(q, ch') <=> (InSeq(q, ch) \/ q = r)
        /\ Distinct(ch')
    BY <1>1, <2>1, AppendMembers
  <2> QED
    BY <1>1, <1>3, <2>1, <2>2 DEF Queued
<1>4. CASE content[r].remindAt # NoTime /\ Len(ch) >= ReminderBuffer
  <2>1. ch' = ch /\ blocked' = [blocked EXCEPT ![r] = @ + 1]
    BY <1>1, <1>4 DEF Enqueue, queue, Inc
  <2> QED
    BY <1>1, <1>4, <2>1 DEF Queued
<1> QED
  BY <1>1, <1>2, <1>3, <1>4

\* What a step may do to revision q, unless it creates or restores q.
Moves(q) ==
    /\ sent'[q] + Copies(q)' + (IF Held(q)' THEN 1 ELSE 0)
          <= sent[q] + Copies(q) + (IF Held(q) THEN 1 ELSE 0)
    /\ Copies(q)' > 0 =>
          Copies(q) > 0 \/ (Held(q) /\ content[q].remindAt # NoTime)
    /\ overdue'[q] > 0 =>
          overdue[q] > 0 \/ (Copies(q) > 0 /\ content[q].remindAt <= clock)
    /\ sent'[q] > 0 =>
          sent[q] > 0 \/ (Copies(q) > 0 /\ content[q].remindAt <= clock)
    /\ content'[q].remindAt = content[q].remindAt

\* The table holds no revision that was not handed out.
RowsKnown ==
    \A i \in Ids : Exists(i)' => \/ Exists(i) /\ rows'[i].rev = rows[i].rev
                                 \/ rows'[i].rev < nextRev

\* Time does not run backwards.
Forward ==
    nextRev' = nextRev /\ clock <= clock' /\ LastAlive <= LastAlive' /\ stoppedAt' <= clock'

\* A step that neither creates nor restores a revision.
Settles == Distinct(ch)' /\ (\A q \in Revs : Moves(q)) /\ RowsKnown /\ Forward

\* Such a step keeps the whole invariant.
LEMMA SettledStep ==
    ASSUME IInv, TypeOK', Requests', Volatile', Settles
    PROVE  IInv'
<1>1. /\ nextRev \in Int /\ clock \in Int /\ clock' \in Int /\ stoppedAt \in Int
      /\ LastAlive \in Int /\ LastAlive' \in Int
      /\ phase # "down" => LastAlive = clock
  BY Bounds DEF IInv, TypeOK, LastAlive, Times
<1>2. ASSUME NEW q \in Revs
      PROVE  /\ sent[q] \in Nat /\ sent'[q] \in Nat
             /\ Copies(q) \in Nat /\ Copies(q)' \in Nat
             /\ q \in Int
             /\ content[q].remindAt \in Int \cup {NoTime}
             /\ Copies(q) > 0 => LastAlive = clock /\ content[q].remindAt # NoTime
             /\ Held(q) => q < nextRev
             /\ overdue[q] \in Nat
             /\ overdue'[q] <= Copies(q)' /\ overdue'[q] \in Nat
             /\ NoTime \notin Int
  <2>1. /\ sent[q] \in Nat /\ Copies(q) \in Nat /\ overdue[q] \in Nat
        /\ q \in Int
        /\ content[q].remindAt \in Int \cup {NoTime}
    <3>1. content[q] \in Content /\ overdue[q] \in Nat
      BY DEF IInv, TypeOK
    <3>2. q \in Int /\ content[q].remindAt \in Int \cup {NoTime}
      BY <3>1, Bounds DEF Content, Revs, Times
    <3> QED
      BY <3>1, <3>2, CopiesType DEF IInv
  <2>2. /\ sent'[q] \in Nat /\ Copies(q)' \in Nat 
        /\ overdue'[q] \in Nat /\ overdue'[q] <= Copies(q)'
    <3>1. /\ sent'[q] \in Nat /\ overdue'[q] \in Nat /\ blocked'[q] \in Nat /\ waiting'[q] \in Nat
      BY DEF TypeOK
    <3> QED
      BY <3>1 DEF Copies, Queued
  <2>3. Copies(q) > 0 => LastAlive = clock /\ content[q].remindAt # NoTime
    BY <2>1 DEF IInv, Volatile, CopiesTimed, LastAlive
  <2>4. Held(q) => q < nextRev
    BY <1>1, <2>1 DEF IInv, Requests, Held
  <2> QED
    BY <2>1, <2>2, <2>3, <2>4, Bounds
<1>3. Ledger'
  BY <1>2 DEF IInv, Ledger, Settles, Moves
<1>4. CopiesTimed'
  BY <1>1, <1>2 DEF IInv, CopiesTimed, Settles, Moves, Forward
<1>5. Fresh'
  BY <1>1, <1>2 DEF IInv, Fresh, Settles, Moves, RowsKnown, Forward
<1>6. SentDue'
  BY <1>1, <1>2 DEF IInv, SentDue, Settles, Moves, Forward
<1> QED
  BY <1>3, <1>4, <1>5, <1>6 DEF IInv, Settles

-----------------------------------------------------------------------------
(* Every step keeps the invariant.                                          *)

\* A revision belongs to one request.
LEMMA RequestsStep == TypeOK /\ Requests /\ [Next]_vars => Requests'
<1> SUFFICES ASSUME TypeOK, Requests, [Next]_vars PROVE Requests'
  OBVIOUS
<1> USE DEF vars, table, handler, queue, life, history
<1>1. ASSUME NEW c \in Clients, NEW op \in {"create", "update"}, NEW i, NEW due, NEW at,
             Begin(c, op, i, due, at)
      PROVE  Requests'
  <2>1. /\ reqs' = [reqs EXCEPT ![c] = [pc |-> op, rev |-> nextRev]]
        /\ nextRev' = nextRev + 1 /\ nextRev \in Nat \ {0}
        /\ op # "idle" /\ reqs \in [Clients -> Request]
    BY <1>1, Bounds DEF Begin, TypeOK
  <2> QED
    BY <2>1 DEF Requests, Idle
<1>2. ASSUME NEW c \in Clients,
             Store(c) \/ StoreUnconfirmed(c) \/ StoreFails(c) \/ EnqueueStored(c)
      PROVE  Requests'
  <2>1. /\ nextRev' = nextRev
        /\ \/ reqs' = [reqs EXCEPT ![c] = Idle]
           \/ reqs' = [reqs EXCEPT ![c].pc = "enqueue"] /\ reqs[c].pc # "idle"
    BY <1>2 DEF Store, StoreUnconfirmed, StoreFails, EnqueueStored, Commit
  <2>2. reqs \in [Clients -> Request]
    BY DEF TypeOK
  <2>3. CASE reqs' = [reqs EXCEPT ![c] = Idle]
    BY <2>1, <2>2, <2>3 DEF Requests, Idle
  <2>4. CASE reqs' = [reqs EXCEPT ![c].pc = "enqueue"] /\ reqs[c].pc # "idle"
    BY <2>1, <2>2, <2>4 DEF Requests, Idle, Request
  <2> QED
    BY <2>1, <2>3, <2>4
<1>3. ASSUME Exit \/ Crash
      PROVE  Requests'
  BY <1>3 DEF Exit, Crash, Die, Requests, Idle
<1>4. ASSUME UNCHANGED <<reqs, nextRev>>
      PROVE  Requests'
  BY <1>4 DEF Requests
<1>5. CASE \E i \in Ids : DeleteEvent(i)
  BY <1>4, <1>5 DEF DeleteEvent
<1>6. CASE \E t \in Times : Archive(t)
  BY <1>4, <1>6 DEF Archive
<1>7. CASE \E r \in Revs :
              \/ SenderSends(r) \/ TimerFires(r) \/ OverdueFires(r)
              \/ HandlerCancelled(r) \/ HandlerMarks(r) \/ MarkFails(r)
  BY <1>4, <1>7 DEF SenderSends, TimerFires, OverdueFires, HandlerCancelled,
                    HandlerMarks, MarkFails, Announce
<1>8. CASE \/ WorkerReceives \/ WorkerExits \/ Start \/ RestoreNext \/ Serve
           \/ Signal \/ Shutdown \/ ServerFails \/ Tick \/ UNCHANGED vars
  BY <1>4, <1>8 DEF WorkerReceives, WorkerExits, Start, RestoreNext, Serve,
                    Signal, Shutdown, ServerFails, MoveOn, Tick
<1> QED
  BY <1>1, <1>2, <1>3, <1>5, <1>6, <1>7, <1>8
  DEF Next, BeginCreate, BeginUpdate

\* Types; the ledger shows that an enqueued or restored task was not queued.
LEMMA TypeStep == TypeOK /\ Distinct(ch) /\ Ledger /\ Requests /\ [Next]_vars => TypeOK'
<1> SUFFICES ASSUME TypeOK, Distinct(ch), Ledger, Requests, [Next]_vars PROVE TypeOK'
  OBVIOUS
<1> USE DEF vars, table, handler, queue, life, history
<1>1. ASSUME NEW c \in Clients, NEW op \in {"create", "update"}, NEW i \in 0..MaxEvents,
             NEW due \in Dues, NEW at \in Times \cup {NoTime}, Begin(c, op, i, due, at)
      PROVE  TypeOK'
  <2>1. /\ nextRev \in 1..MaxRevs /\ nextRev' \in 1..(MaxRevs + 1)
        /\ [id |-> i, due |-> due, remindAt |-> at] \in Content
        /\ [pc |-> op, rev |-> nextRev] \in Request
    BY <1>1, Bounds DEF Begin, TypeOK, Content, Request
  <2>2. content' \in [Revs -> Content] /\ reqs' \in [Clients -> Request]
    BY <1>1, <2>1 DEF Begin, TypeOK
  <2> QED
    BY <1>1, <2>1, <2>2 DEF Begin, TypeOK
<1>2. ASSUME NEW c \in Clients, Commit(c)
      PROVE  /\ content' \in [Revs -> Content]
             /\ rows' \in [Ids -> Row \cup {NoRow}]
             /\ nextId' \in 1..(MaxEvents + 1)
             /\ reqs[c].rev \in Revs
  <2> DEFINE r == reqs[c].rev
  <2>1. r \in Revs
    BY <1>2, Bounds DEF Commit, Requests, TypeOK, Revs
  <2>2. CASE reqs[c].pc = "create"
    <3>1. nextId \in Ids /\ nextId' \in 1..(MaxEvents + 1) /\ nextId \in 0..MaxEvents
      BY <1>2, <2>2, Bounds DEF Commit, TypeOK, Ids
    <3>2. [rev |-> r, remindedAt |-> NoTime, archived |-> FALSE] \in Row
      BY <2>1 DEF Row
    <3>3. rows' \in [Ids -> Row \cup {NoRow}]
      BY <1>2, <2>2, <3>1, <3>2 DEF Commit, TypeOK, Insert
    <3>4. content' = [content EXCEPT ![r].id = nextId] /\ content \in [Revs -> Content]
      BY <1>2, <2>2 DEF Commit, TypeOK
    <3>5. content' \in [Revs -> Content]
      BY <2>1, <3>1, <3>4 DEF Content
    <3> QED
      BY <2>1, <3>1, <3>3, <3>5
  <2>3. CASE reqs[c].pc = "update"
    <3> DEFINE i == content[r].id
    <3>1. i \in Ids /\ rows[i] \in Row
      BY <1>2, <2>1, <2>3 DEF Commit, TypeOK, Updatable, Exists
    <3>2. rows' = [rows EXCEPT ![i] = [[@ EXCEPT !.rev = r] EXCEPT !.remindedAt = NoTime]]
      BY <1>2, <2>3 DEF Commit, Update
    <3>3. [[rows[i] EXCEPT !.rev = r] EXCEPT !.remindedAt = NoTime] \in Row
      BY <2>1, <3>1 DEF Row
    <3>4. rows' \in [Ids -> Row \cup {NoRow}]
      BY <3>1, <3>2, <3>3 DEF TypeOK
    <3> QED
      BY <1>2, <2>1, <2>3, <3>4 DEF Commit, TypeOK
  <2> QED
    BY <1>2, <2>2, <2>3 DEF Commit
<1>3. ASSUME NEW c \in Clients, Store(c)
      PROVE  TypeOK'
  <2>1. reqs' \in [Clients -> Request]
    BY <1>3 DEF Store, TypeOK, Request
  <2> QED
    BY <1>2, <1>3, <2>1 DEF Store, TypeOK
<1>4. ASSUME NEW c \in Clients, StoreUnconfirmed(c)
      PROVE  TypeOK'
  <2>1. Idle \in Request
    BY Bounds DEF Idle, Request
  <2> QED
    BY <1>2, <1>4, <2>1 DEF StoreUnconfirmed, TypeOK
<1>5. ASSUME NEW c \in Clients, StoreFails(c)
      PROVE  TypeOK'
  <2>1. Idle \in Request
    BY Bounds DEF Idle, Request
  <2> QED
    BY <1>5, <2>1 DEF StoreFails, TypeOK
<1>6. ASSUME NEW c \in Clients, EnqueueStored(c)
      PROVE  TypeOK'
  <2>1. Idle \in Request
    BY Bounds DEF Idle, Request
  <2>2. reqs[c].rev \in Revs /\ Held(reqs[c].rev)
    <3>1. reqs[c].pc # "idle"
      BY <1>6 DEF EnqueueStored
    <3>2. reqs[c].rev \in 1..(nextRev - 1) /\ nextRev \in 1..(MaxRevs + 1)
      BY <3>1 DEF Requests, TypeOK
    <3> QED
      BY <3>1, <3>2, Bounds DEF Revs, Held
  <2>3. Queued(reqs[c].rev) = 0
    BY <2>2, CopiesType DEF Ledger
  <2> QED
    BY <1>6, <2>1, <2>2, <2>3, EnqueueEffect DEF EnqueueStored, TypeOK
<1>7. ASSUME NEW i \in Ids, DeleteEvent(i)
      PROVE  TypeOK'
  BY <1>7 DEF DeleteEvent, TypeOK
<1>8. ASSUME NEW t \in Times, Archive(t)
      PROVE  TypeOK'
  <2>1. ASSUME NEW i \in Ids, rows[i] \in Row
        PROVE  [rows[i] EXCEPT !.archived = TRUE] \in Row
    BY <2>1 DEF Row
  <2>2. rows' \in [Ids -> Row \cup {NoRow}]
    BY <1>8, <2>1 DEF Archive, ArchiveOld, TypeOK, Exists
  <2> QED
    BY <1>8, <2>2 DEF Archive, TypeOK
<1>9. ASSUME NEW r \in Revs, SenderSends(r)
      PROVE  TypeOK'
  <2>1. ch' \in Seq(Revs) /\ Len(ch') <= ReminderBuffer
    BY <1>9, AppendMembers, Bounds DEF SenderSends, TypeOK
  <2> QED
    BY <1>9, <2>1 DEF SenderSends, TypeOK, Dec
<1>10. ASSUME NEW r \in Revs,
              \/ TimerFires(r) \/ OverdueFires(r)
              \/ HandlerCancelled(r) \/ MarkFails(r)
       PROVE  TypeOK'
  <2>1. CASE TimerFires(r)
    BY <2>1 DEF TimerFires, Announce, TypeOK, Inc, Dec
  <2>2. CASE OverdueFires(r)
    BY <2>2 DEF OverdueFires, Announce, TypeOK, Inc, Dec
  <2>3. CASE HandlerCancelled(r)
    BY <2>3 DEF HandlerCancelled, TypeOK, Dec
  <2>4. CASE MarkFails(r)
    BY <2>4 DEF MarkFails, TypeOK, Dec
  <2> QED
    BY <1>10, <2>1, <2>2, <2>3, <2>4
<1>11. ASSUME NEW r \in Revs, HandlerMarks(r)
      PROVE  TypeOK'
  <2>1. ASSUME NEW i \in Ids, rows[i] \in Row
        PROVE  [rows[i] EXCEPT !.remindedAt = clock] \in Row
    BY <2>1 DEF Row, TypeOK
  <2>2. rows' \in [Ids -> Row \cup {NoRow}]
    BY <1>11, <2>1 DEF HandlerMarks, MarkReminded, TypeOK, Exists
  <2> QED
    BY <1>11, <2>2 DEF HandlerMarks, TypeOK, Dec
<1>12. ASSUME WorkerReceives
      PROVE  TypeOK'
  <2>1. Head(ch) \in Revs /\ ch' \in Seq(Revs) /\ Len(ch') <= ReminderBuffer
    BY <1>12, TailMembers, Bounds DEF WorkerReceives, TypeOK
  <2>2. waiting' \in [Revs -> Nat] /\ overdue' \in [Revs -> Nat]
    <3>1. /\ waiting' = waiting \/ waiting' = [waiting EXCEPT ![Head(ch)] = @ + 1]
          /\ overdue' = overdue \/ overdue' = [overdue EXCEPT ![Head(ch)] = @ + 1]
      BY <1>12 DEF WorkerReceives, Inc
    <3>2. waiting \in [Revs -> Nat] /\ overdue \in [Revs -> Nat] /\ Head(ch) \in Revs
      BY <2>1 DEF TypeOK
    <3>3. waiting' \in [Revs -> Nat]
      BY <3>1, <3>2
    <3> QED
      BY <3>1, <3>2, <3>3
  <2> QED
    BY <1>12, <2>1, <2>2 DEF WorkerReceives, TypeOK
<1>13. ASSUME WorkerExits \/ Serve \/ Signal \/ Shutdown \/ ServerFails
      PROVE  TypeOK'
  BY <1>13 DEF WorkerExits, Serve, Signal, Shutdown, ServerFails, MoveOn, TypeOK, Phases
<1>14. ASSUME Start
      PROVE  TypeOK'
  <2>1. ListPendingReminders(clock) \subseteq Revs
    BY DEF ListPendingReminders, Pending, Exists, TypeOK, Row
  <2> QED
    BY <1>14, <2>1 DEF Start, TypeOK, Phases
<1>15. ASSUME RestoreNext
      PROVE  TypeOK'
  <2>1. PICK r \in restoring : /\ Enqueue(r)
                               /\ restoring' = restoring \ {r}
                               /\ UNCHANGED <<clock, table, reqs, handler, life, history>>
    BY <1>15 DEF RestoreNext
  <2>2. r \in Revs
    BY DEF TypeOK
  <2>3. Queued(r) = 0
    <3>1. /\ sent[r] \in Nat /\ Queued(r) \in Nat
          /\ sent[r] + Copies(r) + (IF Held(r) THEN 1 ELSE 0) <= 1
          /\ waiting[r] \in Nat /\ overdue[r] \in Nat
      BY <2>2, CopiesType DEF Ledger, TypeOK
    <3> QED
      BY <3>1, <2>1 DEF Copies
  <2> QED
    BY <2>1, <2>2, <2>3, EnqueueEffect DEF TypeOK
<1>16. ASSUME Exit \/ Crash
      PROVE  TypeOK'
  <2>1. Idle \in Request /\ Zero \in [Revs -> Nat] /\ <<>> \in Seq(Revs) /\ Len(<<>>) <= ReminderBuffer
    BY Bounds DEF Idle, Request, Zero
  <2> QED
    BY <1>16, <2>1 DEF Exit, Crash, Die, TypeOK, Phases
<1>17. ASSUME Tick
      PROVE  TypeOK'
  BY <1>17, Bounds DEF Tick, TypeOK, Times
<1>18. ASSUME UNCHANGED vars
      PROVE  TypeOK'
  BY <1>18 DEF TypeOK
<1>19. ASSUME NEW c \in Clients, BeginCreate(c) \/ BeginUpdate(c)
       PROVE  TypeOK'
  <2>1. 0 \in 0..MaxEvents /\ Ids \subseteq 0..MaxEvents
    BY Bounds DEF Ids
  <2> QED
    BY <1>1, <1>19, <2>1 DEF BeginCreate, BeginUpdate
<1> QED
  BY <1>3, <1>4, <1>5, <1>6, <1>7, <1>8, <1>9, <1>10, <1>11, <1>12, <1>13,
     <1>14, <1>15, <1>16, <1>17, <1>18, <1>19 DEF Next


\* The inductive step: BeginCreate/BeginUpdate and Start by hand, the others as
\* settling steps.  Start is the heart of it: what an earlier process announced
\* was due before it died, and only reminders due later are read back.
LEMMA InvStep == IInv /\ [Next]_vars => IInv'
<1> SUFFICES ASSUME IInv, [Next]_vars PROVE IInv'
  OBVIOUS
<1>0. TypeOK' /\ Requests'
  BY TypeStep, RequestsStep DEF IInv
<1>a. ASSUME NEW r \in Revs
      PROVE  /\ sent[r] \in Nat /\ Copies(r) \in Nat /\ r \in Int
             /\ blocked[r] \in Nat /\ waiting[r] \in Nat /\ overdue[r] \in Nat
             /\ sent[r] + Copies(r) + (IF Held(r) THEN 1 ELSE 0) <= 1
             /\ blocked[r] <= Queued(r) /\ Queued(r) <= Copies(r) /\ Queued(r) \in Nat
             /\ waiting[r] <= Copies(r) /\ overdue[r] <= Copies(r)
  <2>1. /\ blocked[r] \in Nat /\ waiting[r] \in Nat /\ overdue[r] \in Nat /\ r \in Int
    BY DEF IInv, TypeOK, Revs
  <2> QED
    BY <2>1, CopiesType DEF IInv, Ledger
<1> USE DEF vars, table, handler, queue, life, history
<1>1. ASSUME NEW c \in Clients, BeginCreate(c) \/ BeginUpdate(c)
      PROVE  IInv'
  <2>1. PICK op \in {"create", "update"}, i \in 0..MaxEvents, due \in Dues,
             at \in Times \cup {NoTime} : Begin(c, op, i, due, at)
    <3>1. 0 \in 0..MaxEvents /\ Ids \subseteq 0..MaxEvents
      BY Bounds DEF Ids
    <3> QED
      BY <1>1, <3>1 DEF BeginCreate, BeginUpdate
  <2> DEFINE n == nextRev
  <2>2. /\ n \in Revs /\ n \in Int /\ nextRev' = n + 1
        /\ \A r \in Revs : r # n => content'[r] = content[r]
    BY <2>1, Bounds DEF Begin, IInv, TypeOK, Revs
  <2>3. /\ \A r \in Revs : Copies(r)' = Copies(r)
        /\ sent' = sent /\ overdue' = overdue /\ clock' = clock
        /\ phase' = phase /\ stoppedAt' = stoppedAt /\ rows' = rows
        /\ restoring' = restoring /\ ch' = ch
    BY <2>1 DEF Begin, Copies, Queued
  <2>4. sent[n] = 0 /\ Copies(n) = 0 /\ overdue[n] = 0
    BY <2>2, <1>a DEF IInv, Fresh
  <2>5. \A r \in Revs : r # n /\ Held(r)' => Held(r)
    BY <2>1 DEF Begin, Held, IInv, TypeOK
  <2>6. Ledger'
    BY <2>2, <2>3, <2>4, <2>5, <1>a DEF Ledger
  <2>7. CopiesTimed'
    BY <2>2, <2>3, <2>4 DEF CopiesTimed, IInv
  <2>8. Fresh'
    <3>1. \A r \in Revs : r >= nextRev' => sent'[r] = 0 /\ Copies(r)' = 0
      BY <2>2, <2>3, <1>a DEF Fresh, IInv
    <3>2. \A k \in Ids : rows[k] # NoRow => rows[k].rev \in Int
      BY DEF IInv, TypeOK, Row, Revs
    <3> QED
      BY <2>2, <2>3, <3>1, <3>2 DEF Fresh, Exists, IInv
  <2>9. SentDue'
    <3>1. LastAlive' = LastAlive
      BY <2>3 DEF LastAlive
    <3>2. \A r \in Revs : sent'[r] > 0 => r # n /\ sent[r] > 0
      BY <2>3, <2>4
    <3> QED
      BY <2>2, <2>3, <3>1, <3>2 DEF SentDue, IInv
  <2>10. Volatile' /\ Distinct(ch)'
    BY <2>1, <2>3 DEF Volatile, Distinct, IInv, Begin, Accepting
  <2> QED
    BY <1>0, <2>6, <2>7, <2>8, <2>9, <2>10 DEF IInv
<1>2. ASSUME Start
      PROVE  IInv'
  <2>1. /\ ch' = ch /\ blocked' = blocked /\ waiting' = waiting /\ overdue' = overdue
        /\ sent' = sent /\ clock' = clock /\ rows' = rows /\ content' = content
        /\ reqs' = reqs /\ nextRev' = nextRev /\ stoppedAt' = stoppedAt
        /\ phase = "down" /\ phase' = "restoring" /\ stoppedAt < clock
    BY <1>2 DEF Start
  <2>2. ASSUME NEW r \in Revs
        PROVE  /\ Copies(r) = 0 /\ restoring = {} /\ blocked[r] = 0 /\ waiting[r] = 0
               /\ overdue[r] = 0 /\ ~InSeq(r, ch) /\ ~Held(r)
    BY <1>a, <2>1 DEF IInv, Volatile, Copies, Queued, Held, Idle
  <2>3. ASSUME NEW r \in Revs, r \in restoring'
        PROVE  /\ content[r].remindAt # NoTime /\ sent[r] = 0 /\ r < nextRev
    <3>1. r \in ListPendingReminders(clock)
      BY <1>2, <2>3 DEF Start
    <3>2. PICK i \in Ids : rows[i] # NoRow /\ rows[i].rev = r /\ Pending(i, clock)
      BY <3>1 DEF ListPendingReminders, Pending, Exists
    <3>3. content[r].remindAt # NoTime /\ content[r].remindAt >= clock /\ r < nextRev
      BY <3>2 DEF Pending, IInv, Fresh, Exists
    <3>4. content[r].remindAt \in Int /\ stoppedAt \in Int /\ clock \in Int
      <4>1. content[r] \in Content /\ stoppedAt \in Times \cup {-1} /\ clock \in Times
        BY DEF IInv, TypeOK
      <4> QED
        BY <3>3, <4>1 DEF Content, Times
    <3>5. ~(sent[r] > 0)
      BY <2>1, <3>3, <3>4 DEF IInv, SentDue, LastAlive
    <3> QED
      BY <3>3, <3>5, <1>a
  <2>4. ASSUME NEW r \in Revs
        PROVE  /\ Copies(r)' = IF r \in restoring' THEN 1 ELSE 0
               /\ Held(r)' = Held(r)
    BY <2>1, <2>2 DEF Copies, Queued, InSeq, Held
  <2>5. Ledger'
    BY <1>a, <2>1, <2>2, <2>3, <2>4 DEF Ledger
  <2>6. CopiesTimed'
    BY <2>1, <2>2, <2>3, <2>4 DEF CopiesTimed
  <2>7. Fresh'
    BY <1>a, <2>1, <2>3, <2>4 DEF Fresh, Exists, IInv, TypeOK
  <2>8. SentDue'
    BY <2>1 DEF SentDue, LastAlive, IInv, TypeOK, Times, Content
  <2>9. Volatile' /\ Distinct(ch)'
    BY <2>1 DEF Volatile, Distinct, IInv
  <2> QED
    BY <1>0, <2>5, <2>6, <2>7, <2>8, <2>9 DEF IInv
<1>b. /\ clock \in Int /\ stoppedAt \in Int /\ LastAlive \in Int /\ nextRev \in Int
      /\ stoppedAt <= clock
  <2>1. clock \in Times /\ stoppedAt \in Times \cup {-1} /\ nextRev \in 1..(MaxRevs + 1)
    BY DEF IInv, TypeOK
  <2>2. clock \in Int /\ stoppedAt \in Int /\ nextRev \in Int
    BY <2>1, Bounds DEF Times
  <2> QED
    BY <2>2 DEF IInv, SentDue, LastAlive
<1>c. UNCHANGED <<nextRev, clock, phase, stoppedAt>> => Forward
  BY <1>b DEF Forward, LastAlive
<1>d. ASSUME NEW q \in Revs, Copies(q)' <= Copies(q), sent'[q] = sent[q], Held(q)' => Held(q),
             overdue'[q] = overdue[q], content'[q].remindAt = content[q].remindAt,
             Copies(q)' \in Nat
      PROVE  Moves(q)
  BY <1>a, <1>d DEF Moves
<1>e. UNCHANGED rows => RowsKnown
  BY DEF RowsKnown, Exists
<1>f. ASSUME Settles, Volatile'
      PROVE  IInv'
  BY <1>0, <1>f, SettledStep
<1>g. ASSUME NEW c \in Clients, Commit(c)
      PROVE  /\ RowsKnown
             /\ \A q \in Revs : content'[q].remindAt = content[q].remindAt
  <2> DEFINE r == reqs[c].rev
  <2>1. reqs[c].pc # "idle" /\ r \in 1..(nextRev - 1)
    BY <1>g DEF Commit, IInv, Requests
  <2>2. r \in Int /\ r < nextRev
    BY <2>1, <1>b
  <2>3. CASE reqs[c].pc = "create"
    <3>1. /\ rows' = [rows EXCEPT ![nextId] =
                         [rev |-> r, remindedAt |-> NoTime, archived |-> FALSE]]
          /\ content' = [content EXCEPT ![r].id = nextId]
      BY <1>g, <2>3 DEF Commit, Insert
    <3>2. RowsKnown
      BY <2>2, <3>1 DEF RowsKnown, Exists, IInv, TypeOK
    <3> QED
      BY <3>1, <3>2 DEF IInv, TypeOK, Content
  <2>4. CASE reqs[c].pc = "update"
    <3>1. /\ rows' = Update(content[r].id, r) /\ content' = content
          /\ Exists(content[r].id)
      BY <1>g, <2>4 DEF Commit, Updatable
    <3>2. RowsKnown
      BY <2>2, <3>1 DEF RowsKnown, Exists, Update, IInv, TypeOK, Row
    <3> QED
      BY <3>1, <3>2
  <2> QED
    BY <1>g, <2>3, <2>4 DEF Commit
<1>3. ASSUME NEW c \in Clients, Store(c) \/ StoreUnconfirmed(c) \/ StoreFails(c)
      PROVE  Settles /\ Volatile'
  <2>1. /\ UNCHANGED <<restoring, ch, queue, handler, sent>>
        /\ UNCHANGED <<nextRev, clock, phase, stoppedAt>>
        /\ phase \notin {"down", "restoring"}
        /\ \/ reqs' = [reqs EXCEPT ![c].pc = "enqueue"] /\ reqs[c].pc # "idle"
           \/ reqs' = [reqs EXCEPT ![c] = Idle]
    BY <1>3 DEF Store, StoreUnconfirmed, StoreFails, Commit, Alive
  <2>2. /\ RowsKnown
        /\ \A q \in Revs : content'[q].remindAt = content[q].remindAt
    BY <1>3, <1>e, <1>g DEF Store, StoreUnconfirmed, StoreFails
  <2>3. ASSUME NEW q \in Revs, Held(q)' PROVE Held(q)
    <3>1. PICK d \in Clients : reqs'[d].pc # "idle" /\ reqs'[d].rev = q
      BY <2>3 DEF Held
    <3>2. reqs \in [Clients -> Request]
      BY DEF IInv, TypeOK
    <3>3. reqs[d].pc # "idle" /\ reqs[d].rev = q
      BY <2>1, <3>1, <3>2 DEF Idle, Request
    <3> QED
      BY <3>3 DEF Held
  <2>4. \A q \in Revs : Copies(q)' = Copies(q)
    BY <2>1 DEF Copies, Queued
  <2>5. ASSUME NEW q \in Revs PROVE Moves(q)
    <3>1. sent'[q] = sent[q] /\ overdue'[q] = overdue[q]
      BY <2>1
    <3> QED
      BY <1>a, <1>d, <2>2, <2>3, <2>4, <3>1
  <2> QED
    BY <1>c, <2>1, <2>2, <2>5 DEF Settles, Distinct, Volatile, IInv
<1>4. ASSUME NEW c \in Clients, EnqueueStored(c)
      PROVE  Settles /\ Volatile'
  <2>1. /\ UNCHANGED <<restoring, waiting, overdue, sent, content, rows>>
        /\ UNCHANGED <<nextRev, clock, phase, stoppedAt>>
        /\ phase \notin {"down", "restoring"}
        /\ reqs' = [reqs EXCEPT ![c] = Idle]
        /\ reqs[c].pc = "enqueue"
        /\ Enqueue(reqs[c].rev)
    BY <1>4 DEF EnqueueStored, Alive
  <2>2. PICK r \in Revs : r = reqs[c].rev /\ Held(r)
    <3>1. reqs[c].rev \in 1..(nextRev - 1) /\ nextRev \in 1..(MaxRevs + 1)
      BY <2>1 DEF Requests, TypeOK, IInv
    <3> QED
      BY <2>1, <3>1, Bounds DEF Revs, Held
  <2>3. Copies(r) = 0 /\ Queued(r) = 0 /\ waiting[r] = 0 /\ overdue[r] = 0 /\ sent[r] = 0
    BY <1>a, <2>2
  <2>4. /\ Distinct(ch)'
        /\ \A q \in Revs \ {r} : Queued(q)' = Queued(q)
        /\ Queued(r)' = IF content[r].remindAt = NoTime THEN 0 ELSE 1
    BY <2>1, <2>2, <2>3, EnqueueEffect DEF IInv
  <2>5. \A q \in Revs \ {r} : Copies(q)' = Copies(q)
    BY <2>1, <2>4 DEF Copies
  <2>6. Copies(r)' = IF content[r].remindAt = NoTime THEN 0 ELSE 1
    <3>1. r \notin restoring
      BY <2>2, <2>3, CopiesType DEF IInv
    <3> QED
      BY <2>1, <2>3, <2>4, <3>1 DEF Copies
  <2>7. ~Held(r)'
    <3>1. SUFFICES ASSUME NEW d \in Clients, reqs'[d].pc # "idle", reqs'[d].rev = r
                   PROVE  FALSE
      BY DEF Held
    <3>2. d # c /\ reqs[d].pc # "idle" /\ reqs[d].rev = reqs[c].rev
      BY <2>1, <2>2, <3>1 DEF Idle, IInv, TypeOK
    <3> QED
      BY <3>2 DEF IInv, Requests
  <2>8. ASSUME NEW q \in Revs, q # r, Held(q)' PROVE Held(q)
    BY <2>1, <2>8 DEF Held, Idle, IInv, TypeOK
  <2>9. ASSUME NEW q \in Revs PROVE Moves(q)
    <3>1. sent'[q] = sent[q] /\ overdue'[q] = overdue[q] /\ content' = content
      BY <2>1
    <3>2. CASE q = r
      BY <2>2, <2>3, <2>6, <2>7, <3>1, <3>2 DEF Moves
    <3>3. CASE q # r
      BY <1>a, <1>d, <2>5, <2>8, <3>1, <3>3
    <3> QED
      BY <3>2, <3>3
  <2> QED
    BY <1>c, <1>e, <2>1, <2>4, <2>9 DEF Settles, Volatile, IInv
<1>5. ASSUME NEW i \in Ids, DeleteEvent(i)
      PROVE  Settles /\ Volatile'
  <2>1. \A q \in Revs : Moves(q)
    BY <1>5, <1>a, <1>d DEF DeleteEvent, Copies, Queued, Held
  <2>2. RowsKnown
    BY <1>5 DEF DeleteEvent, RowsKnown, Exists, IInv, TypeOK
  <2> QED
    BY <1>5, <1>c, <2>1, <2>2 DEF DeleteEvent, Settles, IInv, Volatile, Distinct, Copies, Queued
<1>6. ASSUME NEW t \in Times, Archive(t)
      PROVE  Settles /\ Volatile'
  <2>1. \A q \in Revs : Moves(q)
    BY <1>6, <1>a, <1>d DEF Archive, Copies, Queued, Held
  <2>2. RowsKnown
    BY <1>6 DEF Archive, ArchiveOld, RowsKnown, Exists, IInv, TypeOK, Row
  <2> QED
    BY <1>6, <1>c, <2>1, <2>2 DEF Archive, Settles, IInv, Volatile, Distinct, Copies, Queued
<1>7. ASSUME NEW r \in Revs, SenderSends(r)
      PROVE  Settles /\ Volatile'
  <2>1. ~InSeq(r, ch) /\ blocked[r] = 1
    <3>1. Queued(r) <= 1 /\ blocked[r] > 0 /\ blocked[r] \in Nat
      BY <1>7, <1>a DEF SenderSends
    <3> QED
      BY <3>1 DEF Queued
  <2>2. /\ \A q \in Revs : InSeq(q, ch') <=> (InSeq(q, ch) \/ q = r)
        /\ Distinct(ch')
    BY <1>7, <2>1, AppendMembers DEF SenderSends, IInv, TypeOK
  <2>3. ASSUME NEW q \in Revs
        PROVE  Copies(q)' = Copies(q) /\ (Held(q)' <=> Held(q))
    BY <1>7, <1>a, <2>1, <2>2 DEF SenderSends, Copies, Queued, Held, Dec, IInv, TypeOK
  <2>4. ASSUME NEW q \in Revs PROVE Moves(q)
    <3>1. sent' = sent /\ overdue' = overdue /\ content' = content
      BY <1>7 DEF SenderSends
    <3> QED
      BY <1>a, <1>d, <2>3, <3>1
  <2> QED
    BY <1>7, <1>c, <1>e, <2>2, <2>3, <2>4 DEF SenderSends, Settles, IInv, Volatile
<1>8. ASSUME NEW r \in Revs, TimerFires(r) \/ OverdueFires(r)
      PROVE  Settles /\ Volatile'
  <2>1. /\ restoring' = restoring /\ ch' = ch /\ blocked' = blocked /\ reqs' = reqs
        /\ content' = content /\ rows' = rows /\ phase' = phase
        /\ UNCHANGED <<nextRev, clock, phase, stoppedAt>>
        /\ sent' = [sent EXCEPT ![r] = @ + 1]
        /\ content[r].remindAt <= clock
        /\ \/ waiting[r] > 0 /\ waiting' = [waiting EXCEPT ![r] = @ - 1] /\ overdue' = overdue
           \/ overdue[r] > 0 /\ overdue' = [overdue EXCEPT ![r] = @ - 1] /\ waiting' = waiting
    BY <1>8 DEF TimerFires, OverdueFires, Announce, Inc, Dec, IInv, CopiesTimed
  <2>2. /\ Copies(r) > 0 /\ Copies(r)' = Copies(r) - 1
        /\ \A q \in Revs : q # r => Copies(q)' = Copies(q)
    <3>1. /\ waiting \in [Revs -> Nat] /\ overdue \in [Revs -> Nat]
          /\ \A q \in Revs : Queued(q)' = Queued(q)
      BY <2>1 DEF IInv, TypeOK, Queued
    <3>2. CASE waiting[r] > 0 /\ waiting' = [waiting EXCEPT ![r] = @ - 1] /\ overdue' = overdue
      BY <1>a, <2>1, <3>1, <3>2 DEF Copies
    <3>3. CASE overdue[r] > 0 /\ overdue' = [overdue EXCEPT ![r] = @ - 1] /\ waiting' = waiting
      BY <1>a, <2>1, <3>1, <3>3 DEF Copies
    <3> QED
      BY <2>1, <3>2, <3>3
  <2>3. ASSUME NEW q \in Revs PROVE Moves(q)
    <3>1. Held(q)' <=> Held(q)
      BY <2>1 DEF Held
    <3>2. CASE q = r
      BY <1>a, <2>1, <2>2, <3>1, <3>2 DEF Moves, IInv, TypeOK
    <3>3. CASE q # r
      <4>1. sent'[q] = sent[q] /\ overdue'[q] = overdue[q]
        BY <2>1, <3>3 DEF IInv, TypeOK
      <4> QED
        BY <1>a, <1>d, <2>1, <2>2, <3>1, <3>3, <4>1
    <3> QED
      BY <3>2, <3>3
  <2>4. Volatile'
    BY <2>1, <2>2, <1>a DEF IInv, Volatile
  <2> QED
    BY <1>c, <1>e, <2>1, <2>3, <2>4 DEF Settles, IInv, Distinct
<1>10. ASSUME NEW r \in Revs, HandlerCancelled(r)
      PROVE  Settles /\ Volatile'
  <2>1. /\ UNCHANGED <<restoring, ch, blocked, reqs, content, rows, overdue, sent>>
        /\ UNCHANGED <<nextRev, clock, phase, stoppedAt>>
        /\ waiting[r] > 0 /\ waiting' = [waiting EXCEPT ![r] = @ - 1]
    BY <1>10 DEF HandlerCancelled, Dec
  <2>2. \A q \in Revs : Copies(q)' = IF q = r THEN Copies(q) - 1 ELSE Copies(q)
    <3>1. waiting \in [Revs -> Nat] /\ \A q \in Revs : Queued(q)' = Queued(q)
      BY <2>1 DEF IInv, TypeOK, Queued
    <3> QED
      BY <1>a, <2>1, <3>1 DEF Copies
  <2>3. ASSUME NEW q \in Revs PROVE Moves(q)
    <3>1. Held(q)' <=> Held(q)
      BY <2>1 DEF Held
    <3> QED
      BY <1>a, <1>d, <2>1, <2>2, <3>1
  <2>4. Volatile'
    BY <2>1, <2>2, <1>a DEF IInv, Volatile
  <2> QED
    BY <1>c, <1>e, <2>1, <2>3, <2>4 DEF Settles, IInv, Distinct
<1>11. ASSUME NEW r \in Revs, HandlerMarks(r) \/ MarkFails(r)
      PROVE  Settles /\ Volatile'
  <2>1. /\ UNCHANGED <<restoring, ch, blocked, reqs, content, waiting, overdue, sent>>
        /\ UNCHANGED <<nextRev, clock, phase, stoppedAt>>
    BY <1>11 DEF HandlerMarks, MarkFails
  <2>2. \A q \in Revs : Moves(q)
    BY <1>a, <1>d, <2>1 DEF Copies, Queued, Held
  <2>3. RowsKnown
    <3>1. CASE rows' = rows
      BY <1>e, <3>1
    <3>2. ASSUME NEW k, Exists(k), rows' = [rows EXCEPT ![k].remindedAt = clock]
          PROVE  RowsKnown
      BY <3>2 DEF RowsKnown, Exists, IInv, TypeOK, Row
    <3> QED
      BY <1>11, <3>1, <3>2 DEF HandlerMarks, MarkFails, MarkReminded
  <2> QED
    BY <1>c, <2>1, <2>2, <2>3 DEF Settles, IInv, Distinct, Volatile, Copies, Queued
<1>12. ASSUME WorkerReceives
       PROVE  Settles /\ Volatile'
  <2> DEFINE r == Head(ch)
  <2>1. /\ r \in Revs /\ InSeq(r, ch) /\ Distinct(Tail(ch))
        /\ \A q : InSeq(q, Tail(ch)) <=> (InSeq(q, ch) /\ q # r)
    BY <1>12, TailMembers DEF WorkerReceives, IInv, TypeOK
  <2>2. /\ UNCHANGED <<restoring, blocked, reqs, content, rows, sent>>
        /\ UNCHANGED <<nextRev, clock, phase, stoppedAt>>
        /\ ch' = Tail(ch)
        /\ \/ waiting' = [waiting EXCEPT ![r] = @ + 1] /\ overdue' = overdue
           \/ /\ overdue' = [overdue EXCEPT ![r] = @ + 1] /\ waiting' = waiting
              /\ ~(content[r].remindAt > clock)
    BY <1>12 DEF WorkerReceives, Inc
  <2>3. /\ Copies(r) = 1 /\ content[r].remindAt \in Int
        /\ waiting \in [Revs -> Nat] /\ overdue \in [Revs -> Nat]
        /\ \A q \in Revs : Queued(q)' = IF q = r THEN Queued(q) - 1 ELSE Queued(q)
    <3>1. Copies(r) = 1
      BY <1>a, <2>1, CopiesType DEF IInv
    <3>2. content[r] \in Content /\ content[r].remindAt # NoTime
      <4>1. Copies(r) > 0
        BY <3>1
      <4>2. content[r] \in Content
        BY <2>1 DEF IInv, TypeOK
      <4> QED
        BY <2>1, <4>1, <4>2 DEF IInv, CopiesTimed
    <3>3. content[r].remindAt \in Int
      BY <3>2, Bounds DEF Content, Times
    <3> QED
      <4>1. waiting \in [Revs -> Nat] /\ overdue \in [Revs -> Nat] /\ blocked \in [Revs -> Nat]
        BY DEF IInv, TypeOK
      <4> QED
        BY <2>1, <2>2, <3>1, <3>3, <4>1 DEF Queued
  <2>4. ASSUME NEW q \in Revs PROVE Copies(q)' = Copies(q)
    <3>1. CASE waiting' = [waiting EXCEPT ![r] = @ + 1] /\ overdue' = overdue
      <4>1. waiting'[q] = IF q = r THEN waiting[q] + 1 ELSE waiting[q]
        BY <2>1, <2>3, <3>1
      <4>2. Queued(q) \in Nat /\ waiting[q] \in Nat /\ overdue[q] \in Nat
        BY <1>a
      <4> QED
        BY <2>2, <2>3, <3>1, <4>1, <4>2 DEF Copies
    <3>2. CASE overdue' = [overdue EXCEPT ![r] = @ + 1] /\ waiting' = waiting
      <4>1. overdue'[q] = IF q = r THEN overdue[q] + 1 ELSE overdue[q]
        BY <2>1, <2>3, <3>2
      <4>2. Queued(q) \in Nat /\ waiting[q] \in Nat /\ overdue[q] \in Nat
        BY <1>a
      <4> QED
        BY <2>2, <2>3, <3>2, <4>1, <4>2 DEF Copies
    <3> QED
      BY <2>2, <3>1, <3>2
  <2>5. ASSUME NEW q \in Revs PROVE Moves(q)
    <3>1. Held(q)' <=> Held(q)
      BY <2>2 DEF Held
    <3>2. overdue'[q] = overdue[q] \/ (q = r /\ content[r].remindAt <= clock)
      BY <1>b, <2>1, <2>2, <2>3
    <3> QED
      BY <1>a, <2>2, <2>3, <2>4, <3>1, <3>2 DEF Moves
  <2> QED
    BY <1>c, <1>e, <2>1, <2>2, <2>4, <2>5 DEF Settles, IInv, Distinct, Volatile
<1>13. ASSUME RestoreNext
       PROVE  Settles /\ Volatile'
  <2>1. PICK r \in restoring : /\ Enqueue(r)
                               /\ restoring' = restoring \ {r}
                               /\ UNCHANGED <<clock, table, reqs, handler, life, history>>
    BY <1>13 DEF RestoreNext
  <2>2. r \in Revs /\ phase = "restoring"
    BY DEF IInv, TypeOK, Volatile
  <2>3. Copies(r) = 1 /\ Queued(r) = 0 /\ content[r].remindAt # NoTime
    <3>1. Copies(r) = 1
      BY <1>a, <2>1, <2>2, CopiesType DEF IInv
    <3>2. Queued(r) = 0
      <4>1. Queued(r) \in Nat /\ waiting[r] \in Nat /\ overdue[r] \in Nat
        BY <1>a, <2>2
      <4> QED
        BY <3>1, <4>1 DEF Copies
    <3> QED
      BY <2>2, <3>1, <3>2 DEF IInv, CopiesTimed
  <2>4. /\ Distinct(ch)'
        /\ \A q \in Revs \ {r} : Queued(q)' = Queued(q)
        /\ Queued(r)' = 1
    BY <2>1, <2>2, <2>3, EnqueueEffect DEF IInv
  <2>5. ASSUME NEW q \in Revs PROVE Copies(q)' = Copies(q)
    <3>1. waiting' = waiting /\ overdue' = overdue
      BY <2>1
    <3> QED
      BY <1>a, <2>1, <2>2, <2>3, <2>4, <3>1 DEF Copies
  <2>6. ASSUME NEW q \in Revs PROVE Moves(q)
    BY <1>a, <1>d, <2>1, <2>5 DEF Held
  <2>7. Volatile'
    BY <2>1, <2>2 DEF Volatile, IInv
  <2> QED
    BY <1>c, <1>e, <2>1, <2>4, <2>6, <2>7 DEF Settles
<1>14. ASSUME \/ WorkerExits \/ Serve \/ Signal \/ Shutdown \/ ServerFails \/ Tick \/ UNCHANGED vars
       PROVE  Settles /\ Volatile'
  <2>1. /\ UNCHANGED <<restoring, ch, queue, handler, reqs, table, sent, stoppedAt>>
        /\ clock' = clock \/ clock' = clock + 1
        /\ \/ phase' = phase
           \/ /\ phase # "down" /\ phase' \notin {"down", "restoring"}
              /\ phase = "restoring" => restoring = {}
    BY <1>14 DEF WorkerExits, Serve, Signal, Shutdown, ServerFails, MoveOn, Tick
  <2>2. Forward
    <3>1. clock <= clock' /\ clock' \in Int /\ stoppedAt' <= clock' /\ nextRev' = nextRev
      BY <1>b, <2>1
    <3>2. LastAlive <= LastAlive'
      BY <1>b, <2>1, <3>1 DEF LastAlive
    <3> QED
      BY <3>1, <3>2 DEF Forward
  <2>3. \A q \in Revs : Moves(q) /\ Copies(q)' = Copies(q)
    BY <1>a, <1>d, <2>1 DEF Copies, Queued, Held
  <2>4. Volatile'
    BY <2>1, <2>3 DEF Volatile, IInv
  <2> QED
    BY <1>e, <2>1, <2>2, <2>3, <2>4 DEF Settles, IInv, Distinct
<1>15. ASSUME Exit \/ Crash
       PROVE  Settles /\ Volatile'
  <2>1. /\ restoring' = {} /\ ch' = <<>> /\ blocked' = Zero /\ waiting' = Zero
        /\ overdue' = Zero /\ reqs' = [c \in Clients |-> Idle]
        /\ UNCHANGED <<content, rows, nextRev, sent, clock>>
        /\ phase' = "down" /\ stoppedAt' = clock /\ phase # "down"
    BY <1>15 DEF Exit, Crash, Die
  <2>2. ASSUME NEW q \in Revs PROVE Copies(q)' = 0 /\ ~Held(q)' /\ overdue'[q] = 0
    BY <2>1 DEF Copies, Queued, InSeq, Zero, Held, Idle
  <2>3. ASSUME NEW q \in Revs PROVE Moves(q)
    BY <1>a, <2>1, <2>2 DEF Moves
  <2>4. Forward
    BY <1>b, <2>1 DEF Forward, LastAlive
  <2>5. Volatile' /\ Distinct(ch)'
    BY <2>1, <2>2 DEF Volatile, Distinct, Idle
  <2> QED
    BY <1>e, <2>1, <2>3, <2>4, <2>5 DEF Settles
<1> QED
  BY <1>f, <1>1, <1>2, <1>3, <1>4, <1>5, <1>6, <1>7, <1>8, <1>10, <1>11, <1>12,
     <1>13, <1>14, <1>15 DEF Next

\* The empty table and the process that was never started.
LEMMA InvInit == Init => IInv
<1> SUFFICES ASSUME Init PROVE IInv
  OBVIOUS
<1>1. TypeOK
  <2>1. /\ Zero \in [Revs -> Nat] /\ Idle \in Request /\ <<>> \in Seq(Revs)
        /\ Len(<<>>) <= ReminderBuffer /\ 0 \in Times /\ 0 \in 0..MaxEvents
        /\ 1 \in 1..(MaxRevs + 1) /\ 1 \in 1..(MaxEvents + 1)
    BY Bounds DEF Zero, Idle, Request, Times
  <2> QED
    BY <2>1 DEF Init, TypeOK, Content, Phases
<1>2. \A r \in Revs : sent[r] = 0 /\ Copies(r) = 0 /\ overdue[r] = 0 /\ ~Held(r)
  BY DEF Init, Zero, Copies, Queued, InSeq, Held, Idle
<1>3. Distinct(ch) /\ Ledger /\ CopiesTimed
  BY <1>2 DEF Init, Distinct, Ledger, CopiesTimed
<1>4. Fresh /\ Requests
  BY <1>2 DEF Init, Fresh, Requests, Idle, Exists
<1>5. SentDue /\ Volatile
  BY <1>2 DEF Init, SentDue, Volatile
<1> QED
  BY <1>1, <1>3, <1>4, <1>5 DEF IInv

\* The invariant holds in every reachable state.
LEMMA Invariance == Spec => []IInv
<1> QED
  BY InvInit, InvStep, PTL DEF Spec

-----------------------------------------------------------------------------
(* The theorems.                                                            *)

\* Every variable keeps its type; the channel never exceeds its capacity.
THEOREM TypeCorrect == Spec => []TypeOK
<1>1. IInv => TypeOK
  BY DEF IInv
<1> QED
  BY <1>1, Invariance, PTL

\* enqueueReminder, the overflow goroutines, the worker, the handlers and
\* restorePendingReminders never duplicate a task.
THEOREM NeverDuplicated == Spec => []SingleCopy
<1>1. IInv => SingleCopy
  <2> SUFFICES ASSUME IInv, NEW r \in Revs PROVE sent[r] + Copies(r) <= 1
    BY DEF SingleCopy
  <2>1. sent[r] \in Nat /\ Copies(r) \in Nat
    BY CopiesType DEF IInv
  <2> QED
    BY <2>1 DEF IInv, Ledger
<1> QED
  BY <1>1, Invariance, PTL

\* No revision of an event is announced twice, over all lives of the process:
\* the query of restorePendingReminders (remind_at >= now) cannot bring back
\* what an earlier process announced.
THEOREM AnnouncedAtMostOnce == Spec => []AtMostOnce
<1>1. IInv => AtMostOnce
  <2> SUFFICES ASSUME IInv, NEW r \in Revs PROVE sent[r] <= 1
    BY DEF AtMostOnce
  <2>1. sent[r] \in Nat /\ Copies(r) \in Nat
    BY CopiesType DEF IInv
  <2> QED
    BY <2>1 DEF IInv, Ledger
<1> QED
  BY <1>1, Invariance, PTL

-----------------------------------------------------------------------------
(* What the steps may do to a row of the table: archived events are final,  *)
(* and the first mark of a revision wins.                                   *)

\* A request that has not committed carries a revision no row has, and the
\* sequence is ahead of the rows.
Unstored ==
    /\ \A c \in Clients, i \in Ids :
           reqs[c].pc \in {"create", "update"} /\ Exists(i) => rows[i].rev # reqs[c].rev
    /\ \A i \in Ids : Exists(i) => i < nextId

\* All that may happen to an existing row.
Deleted(i)  == rows'[i] = NoRow
Kept(i)     == rows'[i] = rows[i]
Edited(i)   == ~rows[i].archived /\ rows'[i].rev # rows[i].rev
Marked(i)   == /\ rows[i].remindedAt = NoTime
               /\ rows'[i].rev = rows[i].rev /\ rows'[i].archived = rows[i].archived
Archived(i) == /\ rows'[i].rev = rows[i].rev /\ rows'[i].remindedAt = rows[i].remindedAt
               /\ rows'[i].archived

RowStep ==
    \A i \in Ids : Exists(i) =>
        Deleted(i) \/ Kept(i) \/ Edited(i) \/ Marked(i) \/ Archived(i)

\* A step that commits nothing: rows keep their revision, or go.
SameRevs == \A i \in Ids : Exists(i)' => Exists(i) /\ rows'[i].rev = rows[i].rev

-----------------------------------------------------------------------------
\* The statement of a request: the new row is at an unused id, the edited row
\* is active, and only the revision of the request comes into the table.
LEMMA CommitStep ==
    ASSUME IInv, Unstored, NEW c \in Clients, Commit(c)
    PROVE  /\ RowStep
           /\ \A i \in Ids : Exists(i)' => \/ Exists(i) /\ rows'[i].rev = rows[i].rev
                                           \/ rows'[i].rev = reqs[c].rev
           /\ \A i \in Ids : Exists(i)' => i < nextId'
<1> DEFINE r == reqs[c].rev
<1>1. rows \in [Ids -> Row \cup {NoRow}] /\ nextId \in Int /\ Ids \subseteq Int
  BY Bounds DEF IInv, TypeOK, Ids
<1>2. CASE reqs[c].pc = "create"
  <2>1. rows' = Insert(nextId, r) /\ nextId' = nextId + 1
    BY <1>2 DEF Commit
  <2>2. \A i \in Ids : i # nextId => rows'[i] = rows[i]
    BY <1>1, <2>1 DEF Insert
  <2>3. nextId \in Ids => rows'[nextId].rev = r
    BY <1>1, <2>1 DEF Insert
  <2>4. ASSUME NEW i \in Ids, Exists(i) PROVE i < nextId /\ Kept(i)
    BY <1>1, <2>2, <2>4 DEF Unstored, Kept
  <2>5. ASSUME NEW i \in Ids, Exists(i)'
        PROVE  (Exists(i) /\ rows'[i].rev = rows[i].rev) \/ (i = nextId /\ rows'[i].rev = r)
    BY <2>2, <2>3, <2>5 DEF Exists
  <2> QED
    BY <1>1, <2>1, <2>4, <2>5 DEF RowStep
<1>3. CASE reqs[c].pc = "update"
  <2> DEFINE k == content[r].id
  <2>1. /\ k \in Ids /\ Exists(k) /\ ~rows[k].archived /\ rows[k].rev # r
        /\ rows' = Update(k, r) /\ nextId' = nextId
    BY <1>3 DEF Commit, Updatable, Exists, Unstored
  <2>2. rows[k] \in Row
    BY <1>1, <2>1 DEF Exists
  <2>3. \A i \in Ids : i # k => rows'[i] = rows[i]
    BY <1>1, <2>1 DEF Update
  <2>4. rows'[k].rev = r
    BY <1>1, <2>1, <2>2 DEF Update, Row
  <2>5. ASSUME NEW i \in Ids PROVE (i = k /\ Edited(i)) \/ Kept(i)
    BY <2>1, <2>3, <2>4 DEF Edited, Kept
  <2>6. ASSUME NEW i \in Ids, Exists(i)'
        PROVE  Exists(i) /\ (rows'[i].rev = rows[i].rev \/ rows'[i].rev = r)
    BY <2>1, <2>3, <2>4, <2>6 DEF Exists
  <2> QED
    BY <2>1, <2>5, <2>6 DEF RowStep, Unstored
<1> QED
  BY <1>2, <1>3 DEF Commit

\* DELETE, the archiver's UPDATE and the mark commit no revision.
LEMMA OtherStatements ==
    ASSUME TypeOK,
           \/ \E i \in Ids : DeleteEvent(i)
           \/ \E t \in Times : Archive(t)
           \/ \E r \in Revs : HandlerMarks(r)
    PROVE  RowStep /\ SameRevs
<1>1. rows \in [Ids -> Row \cup {NoRow}] /\ \A i \in Ids : Exists(i) => rows[i] \in Row
  BY DEF TypeOK, Exists
<1>2. ASSUME NEW k \in Ids, DeleteEvent(k) PROVE RowStep /\ SameRevs
  <2>1. /\ rows'[k] = NoRow
        /\ \A i \in Ids : i # k => rows'[i] = rows[i]
    BY <1>1, <1>2 DEF DeleteEvent
  <2> QED
    BY <2>1 DEF RowStep, SameRevs, Deleted, Kept, Exists
<1>3. ASSUME NEW t \in Times, Archive(t) PROVE RowStep /\ SameRevs
  <2>1. ASSUME NEW i \in Ids
        PROVE  \/ rows'[i] = rows[i]
               \/ Exists(i) /\ rows'[i] = [rows[i] EXCEPT !.archived = TRUE]
    BY <1>3 DEF Archive, ArchiveOld
  <2>2. ASSUME NEW i \in Ids, Exists(i), rows'[i] = [rows[i] EXCEPT !.archived = TRUE]
        PROVE  Archived(i)
    BY <1>1, <2>2 DEF Archived, Row
  <2>3. ASSUME NEW i \in Ids, Exists(i)' PROVE Exists(i) /\ rows'[i].rev = rows[i].rev
    BY <2>1, <2>2, <2>3 DEF Exists, Archived
  <2> QED
    BY <2>1, <2>2, <2>3 DEF RowStep, SameRevs, Kept
<1>4. ASSUME NEW r \in Revs, HandlerMarks(r) PROVE RowStep /\ SameRevs
  <2> DEFINE k == content[r].id
  <2>1. \/ rows' = rows
        \/ /\ Exists(k) /\ rows[k].remindedAt = NoTime
           /\ rows' = [rows EXCEPT ![k].remindedAt = clock]
    BY <1>4 DEF HandlerMarks, MarkReminded
  <2>2. CASE rows' = rows
    BY <2>2 DEF RowStep, SameRevs, Kept, Exists
  <2>3. CASE /\ Exists(k) /\ rows[k].remindedAt = NoTime
             /\ rows' = [rows EXCEPT ![k].remindedAt = clock]
    <3>1. k \in Ids /\ rows[k] \in Row
      BY <1>1, <2>3 DEF Exists
    <3>2. \A i \in Ids : i # k => rows'[i] = rows[i]
      BY <1>1, <2>3
    <3>3. Marked(k)
      BY <1>1, <2>3, <3>1 DEF Marked, Row
    <3> QED
      BY <2>3, <3>2, <3>3 DEF RowStep, SameRevs, Kept, Exists, Marked
  <2> QED
    BY <2>1, <2>2, <2>3
<1> QED
  BY <1>2, <1>3, <1>4

\* Every step does one of these to every row.
LEMMA TableStep == IInv /\ Unstored /\ [Next]_vars => RowStep
<1> SUFFICES ASSUME IInv, Unstored, [Next]_vars PROVE RowStep
  OBVIOUS
<1>1. ASSUME NEW c \in Clients, Store(c) \/ StoreUnconfirmed(c) PROVE RowStep
  BY <1>1, CommitStep DEF Store, StoreUnconfirmed
<1>2. ASSUME \/ \E i \in Ids : DeleteEvent(i)
             \/ \E t \in Times : Archive(t)
             \/ \E r \in Revs : HandlerMarks(r)
      PROVE  RowStep
  BY <1>2, OtherStatements DEF IInv
<1>3. ASSUME UNCHANGED rows PROVE RowStep
  BY <1>3 DEF RowStep, Kept
<1>4. ASSUME NEW c \in Clients,
             \/ BeginCreate(c) \/ BeginUpdate(c) \/ StoreFails(c) \/ EnqueueStored(c)
      PROVE  UNCHANGED rows
  BY <1>4 DEF BeginCreate, BeginUpdate, Begin, StoreFails, EnqueueStored, table
<1>5. ASSUME NEW r \in Revs,
             \/ SenderSends(r) \/ TimerFires(r) \/ OverdueFires(r)
             \/ HandlerCancelled(r) \/ MarkFails(r)
      PROVE  UNCHANGED rows
  BY <1>5 DEF SenderSends, TimerFires, OverdueFires, Announce, HandlerCancelled,
              MarkFails, table
<1>6. ASSUME \/ WorkerReceives \/ WorkerExits \/ Start \/ RestoreNext \/ Serve
             \/ Signal \/ Shutdown \/ ServerFails \/ Exit \/ Crash \/ Tick
             \/ UNCHANGED vars
      PROVE  UNCHANGED rows
  BY <1>6 DEF WorkerReceives, WorkerExits, Start, RestoreNext, Serve, Signal, Shutdown,
              ServerFails, MoveOn, Exit, Crash, Die, Tick, vars, table
<1> QED
  BY <1>1, <1>2, <1>3, <1>4, <1>5, <1>6 DEF Next

\* A revision comes into the table with the commit of its only request.
LEMMA UnstoredStep == IInv /\ Unstored /\ [Next]_vars => Unstored'
<1> SUFFICES ASSUME IInv, Unstored, [Next]_vars PROVE Unstored'
  OBVIOUS
<1> USE DEF vars, table
<1>1. ASSUME SameRevs, nextId' = nextId,
             \A c \in Clients : \/ reqs'[c] = reqs[c]
                                \/ reqs'[c].pc \notin {"create", "update"}
      PROVE  Unstored'
  BY <1>1 DEF Unstored, SameRevs
<1>2. ASSUME NEW c \in Clients, NEW op, NEW i, NEW due, NEW at, Begin(c, op, i, due, at)
      PROVE  Unstored'
  <2>1. /\ rows' = rows /\ nextId' = nextId
        /\ reqs' = [reqs EXCEPT ![c] = [pc |-> op, rev |-> nextRev]]
        /\ reqs \in [Clients -> Request]
    BY <1>2 DEF Begin, IInv, TypeOK
  <2>2. \A k \in Ids : Exists(k) => rows[k].rev # nextRev
    <3>1. nextRev \in Int /\ \A k \in Ids : Exists(k) => rows[k].rev \in Int
      BY Bounds DEF IInv, TypeOK, Exists, Row, Revs
    <3> QED
      BY <3>1 DEF IInv, Fresh
  <2>3. \A d \in Clients : reqs'[d] = reqs[d] \/ reqs'[d].rev = nextRev
    BY <2>1
  <2> QED
    BY <2>1, <2>2, <2>3 DEF Unstored, Exists
<1>3. ASSUME NEW c \in Clients, Store(c) \/ StoreUnconfirmed(c)
      PROVE  Unstored'
  <2>1. /\ Commit(c) /\ reqs \in [Clients -> Request]
        /\ \/ reqs' = [reqs EXCEPT ![c].pc = "enqueue"]
           \/ reqs' = [reqs EXCEPT ![c] = Idle]
    BY <1>3 DEF Store, StoreUnconfirmed, IInv, TypeOK
  <2>2. reqs'[c].pc \notin {"create", "update"} /\ \A d \in Clients \ {c} : reqs'[d] = reqs[d]
    <3>1. CASE reqs' = [reqs EXCEPT ![c].pc = "enqueue"]
      BY <2>1, <3>1 DEF Request
    <3>2. CASE reqs' = [reqs EXCEPT ![c] = Idle]
      BY <2>1, <3>2 DEF Idle
    <3> QED
      BY <2>1, <3>1, <3>2
  <2>3. reqs[c].pc # "idle"
    BY <2>1 DEF Commit
  <2>4. ASSUME NEW d \in Clients \ {c}, reqs[d].pc \in {"create", "update"}
        PROVE  reqs[d].rev # reqs[c].rev
    BY <2>3, <2>4 DEF IInv, Requests
  <2>5. /\ \A i \in Ids : Exists(i)' => \/ Exists(i) /\ rows'[i].rev = rows[i].rev
                                        \/ rows'[i].rev = reqs[c].rev
        /\ \A i \in Ids : Exists(i)' => i < nextId'
    BY <2>1, CommitStep
  <2> QED
    BY <2>2, <2>4, <2>5 DEF Unstored
<1>4. ASSUME NEW c \in Clients, StoreFails(c) \/ EnqueueStored(c) PROVE Unstored'
  <2>1. /\ reqs' = [reqs EXCEPT ![c] = Idle] /\ reqs \in [Clients -> Request]
        /\ rows' = rows /\ nextId' = nextId
    BY <1>4 DEF StoreFails, EnqueueStored, IInv, TypeOK
  <2>2. \A d \in Clients : reqs'[d] = reqs[d] \/ reqs'[d].pc = "idle"
    BY <2>1 DEF Idle
  <2> QED
    BY <1>1, <2>1, <2>2 DEF SameRevs, Exists
<1>5. ASSUME \/ \E i \in Ids : DeleteEvent(i)
             \/ \E t \in Times : Archive(t)
             \/ \E r \in Revs : HandlerMarks(r)
      PROVE  Unstored'
  <2>1. SameRevs
    BY <1>5, OtherStatements DEF IInv
  <2>2. reqs' = reqs /\ nextId' = nextId
    BY <1>5 DEF DeleteEvent, Archive, HandlerMarks
  <2> QED
    BY <1>1, <2>1, <2>2
<1>6. ASSUME NEW r \in Revs,
             \/ SenderSends(r) \/ TimerFires(r) \/ OverdueFires(r)
             \/ HandlerCancelled(r) \/ MarkFails(r)
      PROVE  UNCHANGED <<rows, nextId, reqs>>
  BY <1>6 DEF SenderSends, TimerFires, OverdueFires, Announce, HandlerCancelled, MarkFails
<1>7. ASSUME \/ WorkerReceives \/ WorkerExits \/ Start \/ RestoreNext \/ Serve
             \/ Signal \/ Shutdown \/ ServerFails \/ Tick \/ UNCHANGED vars
      PROVE  UNCHANGED <<rows, nextId, reqs>>
  BY <1>7 DEF WorkerReceives, WorkerExits, Start, RestoreNext, Serve, Signal, Shutdown,
              ServerFails, MoveOn, Tick
<1>8. ASSUME Exit \/ Crash PROVE Unstored'
  <2>1. rows' = rows /\ nextId' = nextId /\ \A c \in Clients : reqs'[c].pc = "idle"
    BY <1>8 DEF Exit, Crash, Die, Idle
  <2> QED
    BY <1>1, <2>1 DEF SameRevs, Exists
<1>9. ASSUME UNCHANGED <<rows, nextId, reqs>> PROVE Unstored'
  BY <1>9 DEF Unstored, Exists
<1>10. ASSUME NEW c \in Clients, BeginCreate(c) \/ BeginUpdate(c) PROVE Unstored'
  BY <1>2, <1>10 DEF BeginCreate, BeginUpdate
<1> QED
  BY <1>3, <1>4, <1>5, <1>6, <1>7, <1>8, <1>9, <1>10 DEF Next

\* Both invariants hold in every reachable state.
LEMMA TableInvariance == Spec => [](IInv /\ Unstored)
<1>1. Init => Unstored
  BY DEF Init, Unstored, Exists
<1> QED
  BY <1>1, UnstoredStep, InvInit, InvStep, PTL DEF Spec

-----------------------------------------------------------------------------
\* An archived event is never edited and never becomes active again, also not
\* through an update that was validated before the archiver ran.
THEOREM ArchivedForever == Spec => ArchivedIsFinal
<1>1. IInv /\ Unstored /\ [Next]_vars =>
        [\A i \in Ids : Exists(i) /\ rows[i].archived =>
            \/ rows'[i] = NoRow
            \/ rows'[i].archived /\ rows'[i].rev = rows[i].rev]_rows
  BY TableStep DEF RowStep, Deleted, Kept, Edited, Marked, Archived
<1> QED
  BY <1>1, TableInvariance, PTL DEF Spec, ArchivedIsFinal

\* A second handler of an event does not move reminded_at; only another
\* revision starts again.
THEOREM MarkedOnce == Spec => FirstMarkWins
<1>1. IInv /\ Unstored /\ [Next]_vars =>
        [\A i \in Ids : Exists(i) /\ rows[i].remindedAt # NoTime =>
            \/ rows'[i] = NoRow
            \/ rows'[i].rev # rows[i].rev
            \/ rows'[i].remindedAt = rows[i].remindedAt]_rows
  BY TableStep DEF RowStep, Deleted, Kept, Edited, Marked, Archived
<1> QED
  BY <1>1, TableInvariance, PTL DEF Spec, FirstMarkWins

-----------------------------------------------------------------------------
(* No reminder is lost.                                                     *)

Watching == phase \in {"restoring", "serving"}

\* NoReminderLost, from the query of the restore on.
Watched ==
    Watching =>
        \A i \in Ids : Expected(i) /\ rows[i].remindedAt = NoTime => Covered(rows[i].rev)

\* Where a copy may be.
HasCopy(q) ==
    q \in restoring \/ InSeq(q, ch) \/ blocked[q] > 0 \/ waiting[q] > 0 \/ overdue[q] > 0

Tracked(q) == sent[q] > 0 \/ HasCopy(q) \/ InRequest(q)

-----------------------------------------------------------------------------
\* To be covered is to be announced or to be somewhere.
LEMMA CoveredIsTracked == TypeOK => \A q \in Revs : Covered(q) <=> Tracked(q)
<1> SUFFICES ASSUME TypeOK, NEW q \in Revs PROVE Covered(q) <=> Tracked(q)
  OBVIOUS
<1>1. blocked[q] \in Nat /\ waiting[q] \in Nat /\ overdue[q] \in Nat
  BY DEF TypeOK
<1> QED
  BY <1>1 DEF Covered, Tracked, HasCopy, Copies, Queued

\* The same after a step.
LEMMA CoveredIsTrackedNext == (TypeOK => \A q \in Revs : Covered(q) <=> Tracked(q))'
<1> QED
  BY CoveredIsTracked, PTL

\* A step that brings no revision into the table and drops no reminder.
RowsShrink ==
    \A i \in Ids : Exists(i)' =>
        /\ Exists(i) /\ rows'[i].rev = rows[i].rev
        /\ rows[i].archived => rows'[i].archived
        /\ rows'[i].remindedAt = NoTime => rows[i].remindedAt = NoTime

KeepsTrack ==
    Watching' => \A q \in Revs : Tracked(q) /\ content[q].remindAt # NoTime => Tracked(q)'

\* Such a step keeps Watched.
LEMMA QuietStep ==
    ASSUME TypeOK, TypeOK', Watched, RowsShrink, KeepsTrack,
           Watching' => Watching /\ startedAt' = startedAt,
           untracked \subseteq untracked',
           \A i \in Ids : Exists(i) =>
               content'[rows[i].rev].remindAt = content[rows[i].rev].remindAt
    PROVE  Watched'
<1> SUFFICES ASSUME Watching', NEW i \in Ids, Expected(i)', rows'[i].remindedAt = NoTime
             PROVE  Covered(rows[i].rev)'
  BY DEF Watched
<1> DEFINE q == rows[i].rev
<1>1. /\ Exists(i) /\ rows'[i].rev = q /\ rows[i].remindedAt = NoTime
      /\ ~rows[i].archived /\ q \notin untracked
      /\ content[q].remindAt # NoTime /\ content[q].remindAt >= startedAt
  BY DEF Expected, RowsShrink
<1>2. q \in Revs
  BY <1>1 DEF TypeOK, Exists, Row
<1>3. Tracked(q)
  BY <1>1, <1>2, CoveredIsTracked DEF Watched, Expected
<1>4. Tracked(q)'
  BY <1>1, <1>2, <1>3 DEF KeepsTrack
<1>5. \A p \in Revs : Covered(p)' <=> Tracked(p)'
  BY CoveredIsTrackedNext
<1> QED
  BY <1>1, <1>2, <1>4, <1>5

\* enqueueReminder keeps what is on its way, and puts a revision with a
\* reminder on its way.
LEMMA EnqueueTracks ==
    ASSUME TypeOK, NEW r \in Revs, Enqueue(r)
    PROVE  /\ \A q \in Revs : InSeq(q, ch) => InSeq(q, ch)'
           /\ \A q \in Revs : blocked[q] > 0 => blocked'[q] > 0
           /\ content[r].remindAt # NoTime => InSeq(r, ch)' \/ blocked'[r] > 0
<1>1. ch \in Seq(Revs) /\ blocked \in [Revs -> Nat]
  BY DEF TypeOK
<1>2. CASE UNCHANGED queue /\ content[r].remindAt = NoTime
  BY <1>2 DEF queue
<1>3. CASE ch' = Append(ch, r) /\ blocked' = blocked
  BY <1>1, <1>3, AppendMembers
<1>4. CASE ch' = ch /\ blocked' = Inc(blocked, r)
  BY <1>1, <1>4 DEF Inc
<1> QED
  BY <1>2, <1>3, <1>4 DEF Enqueue

\* A request in flight that this step does not touch.
LEMMA OtherRequests ==
    ASSUME NEW c \in Clients, reqs[c].pc # "enqueue",
           \A d \in Clients \ {c} : reqs'[d] = reqs[d]
    PROVE  \A q \in Revs : InRequest(q) => InRequest(q)'
BY DEF InRequest

-----------------------------------------------------------------------------
\* Every step keeps Watched.  The restore reads exactly the rows that are
\* expected of it; afterwards a row gets its revision from a request that still
\* has to enqueue it, or that reported its failure.
LEMMA WatchedStep == IInv /\ Watched /\ [Next]_vars => Watched'
<1> SUFFICES ASSUME IInv, Watched, [Next]_vars PROVE Watched'
  OBVIOUS
<1>t. TypeOK /\ TypeOK' /\ reqs \in [Clients -> Request] /\ Distinct(ch)
  BY InvStep DEF IInv, TypeOK
<1>s. UNCHANGED rows => RowsShrink
  BY DEF RowsShrink, Exists
<1> USE DEF vars, table, handler, queue, life, history
<1>1. ASSUME NEW c \in Clients, NEW op, NEW k, NEW due, NEW at, Begin(c, op, k, due, at)
      PROVE  Watched'
  <2>1. /\ reqs' = [reqs EXCEPT ![c] = [pc |-> op, rev |-> nextRev]]
        /\ reqs[c].pc # "enqueue"
        /\ UNCHANGED <<rows, restoring, ch, blocked, waiting, overdue, sent, untracked,
                       phase, startedAt>>
    BY <1>1 DEF Begin, Idle
  <2>2. \A d \in Clients \ {c} : reqs'[d] = reqs[d]
    BY <1>t, <2>1
  <2>3. KeepsTrack
    BY <2>1, <2>2, OtherRequests DEF KeepsTrack, Tracked, HasCopy
  <2>4. ASSUME NEW i \in Ids, Exists(i)
        PROVE  content'[rows[i].rev].remindAt = content[rows[i].rev].remindAt
    <3>1. rows[i].rev \in Revs /\ rows[i].rev < nextRev /\ nextRev \in Int
      BY <1>t, <2>4, Bounds DEF TypeOK, Exists, Row, IInv, Fresh
    <3>2. rows[i].rev # nextRev
      BY <3>1 DEF Revs
    <3>3. content \in [Revs -> Content]
      BY <1>t DEF TypeOK
    <3>4. content'[rows[i].rev] = content[rows[i].rev]
      BY <1>1, <3>1, <3>2, <3>3 DEF Begin
    <3> QED
      BY <3>4
  <2> QED
    BY <1>t, <1>s, <2>1, <2>3, <2>4, QuietStep DEF Watching
<1>2. ASSUME NEW c \in Clients, Commit(c)
      PROVE  /\ reqs[c].rev \in Revs /\ reqs[c].pc # "enqueue"
             /\ \A i \in Ids : Exists(i)' =>
                    rows'[i] = rows[i] \/ rows'[i].rev = reqs[c].rev
             /\ \A q \in Revs : content'[q].remindAt = content[q].remindAt
  <2> DEFINE r == reqs[c].rev
  <2>1. r \in Revs /\ rows \in [Ids -> Row \cup {NoRow}] /\ content \in [Revs -> Content]
    <3>1. /\ reqs[c].pc # "idle" /\ nextRev \in 1..(MaxRevs + 1)
          /\ rows \in [Ids -> Row \cup {NoRow}] /\ content \in [Revs -> Content]
      BY <1>2, <1>t DEF Commit, TypeOK
    <3>2. r \in 1..(nextRev - 1)
      BY <3>1 DEF IInv, Requests
    <3> QED
      BY <3>1, <3>2, Bounds DEF Revs
  <2>2. CASE reqs[c].pc = "create"
    <3>1. /\ rows' = [rows EXCEPT ![nextId] =
                         [rev |-> r, remindedAt |-> NoTime, archived |-> FALSE]]
          /\ content' = [content EXCEPT ![r].id = nextId]
      BY <1>2, <2>2 DEF Commit, Insert
    <3>2. \A i \in Ids : rows'[i] = rows[i] \/ rows'[i].rev = r
      BY <2>1, <3>1
    <3>3. \A q \in Revs : content'[q].remindAt = content[q].remindAt
      BY <2>1, <3>1 DEF Content
    <3> QED
      BY <2>1, <2>2, <3>2, <3>3
  <2>3. CASE reqs[c].pc = "update"
    <3> DEFINE k == content[r].id
    <3>1. k \in Ids /\ rows[k] \in Row /\ rows' = Update(k, r) /\ content' = content
      BY <1>2, <2>1, <2>3 DEF Commit, Updatable, Exists
    <3>2. rows'[k].rev = r /\ \A i \in Ids \ {k} : rows'[i] = rows[i]
      BY <2>1, <3>1 DEF Update, Row
    <3> QED
      BY <2>1, <2>3, <3>1, <3>2
  <2> QED
    BY <1>2, <2>2, <2>3 DEF Commit
<1>3. ASSUME NEW c \in Clients, Store(c) PROVE Watched'
  <2>0. PICK r \in Revs : r = reqs[c].rev
    BY <1>2, <1>3 DEF Store
  <2>1. /\ Commit(c) /\ reqs' = [reqs EXCEPT ![c].pc = "enqueue"]
        /\ UNCHANGED <<restoring, ch, blocked, waiting, overdue, sent, untracked,
                       phase, startedAt>>
    BY <1>3 DEF Store
  <2>2. /\ r \in Revs /\ reqs[c].pc # "enqueue"
        /\ \A q \in Revs : content'[q].remindAt = content[q].remindAt
    BY <1>2, <2>1
  <2>3. reqs'[c] = [pc |-> "enqueue", rev |-> r] /\ \A d \in Clients \ {c} : reqs'[d] = reqs[d]
    BY <1>t, <2>0, <2>1 DEF Request
  <2>4. InRequest(r)'
    BY <2>3 DEF InRequest
  <2>5. \A q \in Revs : Tracked(q) => Tracked(q)'
    BY <2>1, <2>2, <2>3, OtherRequests DEF Tracked, HasCopy
  <2>6. \A q \in Revs : Covered(q)' <=> Tracked(q)'
    BY <1>t, CoveredIsTrackedNext
  <2>7. ASSUME Watching', NEW i \in Ids, Expected(i)', rows'[i].remindedAt = NoTime
        PROVE  Covered(rows[i].rev)'
    <3>1. CASE rows'[i].rev = r
      BY <2>3, <3>1 DEF Covered, InRequest
    <3>2. CASE rows'[i] = rows[i]
      <4>1. rows[i].rev \in Revs /\ Exists(i)
        BY <1>t, <2>7, <3>2 DEF TypeOK, Row, Expected, Exists
      <4>2. Covered(rows[i].rev)
        BY <2>1, <2>2, <2>7, <3>2, <4>1 DEF Watched, Watching, Expected
      <4>3. Tracked(rows[i].rev)'
        BY <1>t, <2>5, <3>2, <4>1, <4>2, CoveredIsTracked
      <4> QED
        BY <2>6, <3>2, <4>1, <4>3
    <3> QED
      BY <1>2, <2>0, <2>1, <2>7, <3>1, <3>2 DEF Expected
  <2> QED
    BY <2>7 DEF Watched
<1>4. ASSUME NEW c \in Clients, StoreUnconfirmed(c) PROVE Watched'
  <2>0. PICK r \in Revs : r = reqs[c].rev
    BY <1>2, <1>4 DEF StoreUnconfirmed
  <2>1. /\ Commit(c) /\ reqs' = [reqs EXCEPT ![c] = Idle]
        /\ untracked' = untracked \cup {r}
        /\ UNCHANGED <<restoring, ch, blocked, waiting, overdue, sent, phase, startedAt>>
    BY <2>0, <1>4 DEF StoreUnconfirmed
  <2>2. /\ r \in Revs /\ reqs[c].pc # "enqueue"
        /\ \A q \in Revs : content'[q].remindAt = content[q].remindAt
    BY <1>2, <2>1
  <2>3. \A d \in Clients \ {c} : reqs'[d] = reqs[d]
    BY <1>t, <2>1
  <2>5. \A q \in Revs : Tracked(q) => Tracked(q)'
    BY <2>1, <2>2, <2>3, OtherRequests DEF Tracked, HasCopy
  <2>6. \A q \in Revs : Covered(q)' <=> Tracked(q)'
    BY <1>t, CoveredIsTrackedNext
  <2>7. ASSUME Watching', NEW i \in Ids, Expected(i)', rows'[i].remindedAt = NoTime
        PROVE  Covered(rows[i].rev)'
    <3>1. rows'[i].rev # r
      BY <2>1, <2>7 DEF Expected
    <3>2. rows'[i] = rows[i]
      BY <1>2, <2>0, <2>1, <2>7, <3>1 DEF Expected
    <3>3. rows[i].rev \in Revs /\ Exists(i)
      BY <1>t, <2>7, <3>2 DEF TypeOK, Row, Expected, Exists
    <3>4. Covered(rows[i].rev)
      BY <2>1, <2>2, <2>7, <3>2, <3>3 DEF Watched, Watching, Expected
    <3>5. Tracked(rows[i].rev)'
      BY <1>t, <2>5, <3>2, <3>3, <3>4, CoveredIsTracked
    <3> QED
      BY <2>6, <3>2, <3>3, <3>5
  <2> QED
    BY <2>7 DEF Watched
<1>5. ASSUME NEW c \in Clients, StoreFails(c) PROVE Watched'
  <2>1. /\ reqs' = [reqs EXCEPT ![c] = Idle] /\ reqs[c].pc # "enqueue"
        /\ UNCHANGED <<content, rows, restoring, ch, blocked, waiting, overdue, sent,
                       untracked, phase, startedAt>>
    BY <1>5 DEF StoreFails
  <2>2. \A d \in Clients \ {c} : reqs'[d] = reqs[d]
    BY <1>t, <2>1
  <2>3. KeepsTrack
    BY <2>1, <2>2, OtherRequests DEF KeepsTrack, Tracked, HasCopy
  <2> QED
    BY <1>t, <1>s, <2>1, <2>3, QuietStep DEF Watching
<1>6. ASSUME NEW c \in Clients, EnqueueStored(c) PROVE Watched'
  <2>0. reqs[c].rev \in Revs
    <3>1. /\ reqs[c].rev \in 1..(nextRev - 1) /\ nextRev \in 1..(MaxRevs + 1)
      BY <1>t, <1>6 DEF EnqueueStored, IInv, Requests, TypeOK
    <3> QED
      BY <3>1, Bounds DEF Revs
  <2>2. PICK r \in Revs : r = reqs[c].rev
    BY <2>0
  <2>1. /\ Enqueue(r) /\ reqs' = [reqs EXCEPT ![c] = Idle] /\ reqs[c].pc = "enqueue"
        /\ UNCHANGED <<content, rows, restoring, waiting, overdue, sent,
                       untracked, phase, startedAt>>
    BY <2>2, <1>6 DEF EnqueueStored
  <2>3. /\ \A q \in Revs : InSeq(q, ch) => InSeq(q, ch)'
        /\ \A q \in Revs : blocked[q] > 0 => blocked'[q] > 0
        /\ content[r].remindAt # NoTime => InSeq(r, ch)' \/ blocked'[r] > 0
    BY <1>t, <2>1, <2>2, EnqueueTracks
  <2>4. \A q \in Revs : InRequest(q) => InRequest(q)' \/ q = r
    <3>1. \A d \in Clients \ {c} : reqs'[d] = reqs[d]
      BY <1>t, <2>1
    <3> QED
      BY <2>2, <3>1 DEF InRequest
  <2>5. KeepsTrack
    BY <2>1, <2>3, <2>4 DEF KeepsTrack, Tracked, HasCopy
  <2> QED
    BY <1>t, <1>s, <2>1, <2>5, QuietStep DEF Watching
<1>7. ASSUME NEW k \in Ids, DeleteEvent(k) PROVE RowsShrink
  <2>1. rows \in [Ids -> Row \cup {NoRow}]
    BY <1>t DEF TypeOK
  <2>2. rows'[k] = NoRow /\ \A i \in Ids \ {k} : rows'[i] = rows[i]
    BY <1>7, <2>1 DEF DeleteEvent
  <2> QED
    BY <2>2 DEF RowsShrink, Exists
<1>8. ASSUME NEW t \in Times, Archive(t) PROVE RowsShrink
  <2>1. ASSUME NEW i \in Ids, Exists(i)
        PROVE  rows'[i] = rows[i] \/ rows'[i] = [rows[i] EXCEPT !.archived = TRUE]
    BY <1>8, <2>1 DEF Archive, ArchiveOld
  <2>2. ASSUME NEW i \in Ids, Exists(i)' PROVE Exists(i)
    BY <1>8, <2>2 DEF Archive, ArchiveOld, Exists
  <2>3. \A i \in Ids : Exists(i) => rows[i] \in Row
    BY <1>t DEF TypeOK, Exists
  <2> QED
    BY <2>1, <2>2, <2>3 DEF RowsShrink, Row
<1>9. ASSUME NEW r \in Revs, HandlerMarks(r) PROVE RowsShrink
  <2> DEFINE k == content[r].id
  <2>1. CASE rows' = rows
    BY <1>s, <2>1
  <2>2. CASE /\ Exists(k) /\ rows[k].remindedAt = NoTime
             /\ rows' = [rows EXCEPT ![k].remindedAt = clock]
    <3>1. k \in Ids /\ rows \in [Ids -> Row \cup {NoRow}] /\ rows[k] \in Row
      BY <1>t, <2>2 DEF TypeOK, Exists
    <3>2. \A i \in Ids \ {k} : rows'[i] = rows[i]
      BY <2>2, <3>1
    <3>3. rows'[k].rev = rows[k].rev /\ rows'[k].archived = rows[k].archived
      BY <2>2, <3>1 DEF Row
    <3> QED
      BY <2>2, <3>2, <3>3 DEF RowsShrink, Exists
  <2> QED
    BY <1>9, <2>1, <2>2 DEF HandlerMarks, MarkReminded
<1>10. ASSUME \/ \E i \in Ids : DeleteEvent(i)
              \/ \E t \in Times : Archive(t)
              \/ \E r \in Revs : HandlerMarks(r)
       PROVE  Watched'
  <2>1. UNCHANGED <<content, reqs, restoring, ch, blocked, waiting, overdue, sent,
                    untracked, phase, startedAt>>
    BY <1>10 DEF DeleteEvent, Archive, HandlerMarks
  <2>2. KeepsTrack
    BY <2>1 DEF KeepsTrack, Tracked, HasCopy, InRequest
  <2>3. RowsShrink
    BY <1>7, <1>8, <1>9, <1>10
  <2> QED
    BY <1>t, <2>1, <2>2, <2>3, QuietStep DEF Watching
<1>11. ASSUME NEW r \in Revs, SenderSends(r) PROVE Watched'
  <2>1. /\ ch' = Append(ch, r) /\ blocked' = Dec(blocked, r)
        /\ UNCHANGED <<content, rows, reqs, restoring, waiting, overdue, sent,
                       untracked, phase, startedAt>>
    BY <1>11 DEF SenderSends
  <2>2. \A q \in Revs : InSeq(q, ch') <=> (InSeq(q, ch) \/ q = r)
    BY <1>t, <2>1, AppendMembers DEF TypeOK
  <2>3. \A q \in Revs \ {r} : blocked'[q] = blocked[q]
    BY <1>t, <2>1 DEF TypeOK, Dec
  <2>4. KeepsTrack
    BY <2>1, <2>2, <2>3 DEF KeepsTrack, Tracked, HasCopy, InRequest
  <2> QED
    BY <1>t, <1>s, <2>1, <2>4, QuietStep DEF Watching
<1>12. ASSUME NEW r \in Revs, TimerFires(r) \/ OverdueFires(r) PROVE Watched'
  <2>1. /\ sent' = Inc(sent, r)
        /\ waiting' = waiting \/ waiting' = Dec(waiting, r)
        /\ overdue' = overdue \/ overdue' = Dec(overdue, r)
        /\ UNCHANGED <<content, rows, reqs, restoring, ch, blocked,
                       untracked, phase, startedAt>>
    BY <1>12 DEF TimerFires, OverdueFires, Announce
  <2>2. /\ sent \in [Revs -> Nat] /\ waiting \in [Revs -> Nat] /\ overdue \in [Revs -> Nat]
    BY <1>t DEF TypeOK
  <2>3. sent'[r] > 0 /\ \A q \in Revs \ {r} : sent'[q] = sent[q]
    BY <2>1, <2>2 DEF Inc
  <2>4. \A q \in Revs \ {r} : waiting'[q] = waiting[q] /\ overdue'[q] = overdue[q]
    BY <2>1, <2>2 DEF Dec
  <2>5. KeepsTrack
    BY <2>1, <2>3, <2>4 DEF KeepsTrack, Tracked, HasCopy, InRequest
  <2> QED
    BY <1>t, <1>s, <2>1, <2>5, QuietStep DEF Watching
<1>13. ASSUME NEW r \in Revs, HandlerCancelled(r) PROVE ~Watching'
  BY <1>13 DEF HandlerCancelled, CtxDone, Watching
<1>14. ASSUME WorkerReceives PROVE Watched'
  <2>0. ch # <<>> /\ Head(ch) \in Revs
    BY <1>t, <1>14, TailMembers DEF WorkerReceives, TypeOK
  <2>h. PICK h \in Revs : h = Head(ch)
    BY <2>0
  <2>1. /\ ch # <<>> /\ ch' = Tail(ch)
        /\ \/ waiting' = Inc(waiting, h) /\ overdue' = overdue
           \/ overdue' = Inc(overdue, h) /\ waiting' = waiting
        /\ UNCHANGED <<content, rows, reqs, restoring, blocked, sent,
                       untracked, phase, startedAt>>
    BY <1>14, <2>h DEF WorkerReceives
  <2>2. \A q \in Revs : InSeq(q, ch') <=> (InSeq(q, ch) /\ q # h)
    BY <1>t, <2>1, <2>h, TailMembers DEF TypeOK
  <2>3. waiting \in [Revs -> Nat] /\ overdue \in [Revs -> Nat]
    BY <1>t DEF TypeOK
  <2>4. /\ waiting'[h] > 0 \/ overdue'[h] > 0
        /\ \A q \in Revs : /\ waiting[q] > 0 => waiting'[q] > 0
                           /\ overdue[q] > 0 => overdue'[q] > 0
    <3>1. CASE waiting' = Inc(waiting, h) /\ overdue' = overdue
      BY <2>3, <3>1 DEF Inc
    <3>2. CASE overdue' = Inc(overdue, h) /\ waiting' = waiting
      BY <2>3, <3>2 DEF Inc
    <3> QED
      BY <2>1, <3>1, <3>2
  <2>5. KeepsTrack
    BY <2>1, <2>2, <2>4 DEF KeepsTrack, Tracked, HasCopy, InRequest
  <2> QED
    BY <1>t, <1>s, <2>1, <2>5, QuietStep DEF Watching
<1>15. ASSUME RestoreNext PROVE Watched'
  <2>1. PICK r \in restoring : /\ Enqueue(r)
                               /\ restoring' = restoring \ {r}
                               /\ UNCHANGED <<clock, table, reqs, handler, life, history>>
    BY <1>15 DEF RestoreNext
  <2>2. r \in Revs
    BY <1>t DEF TypeOK
  <2>3. /\ \A q \in Revs : InSeq(q, ch) => InSeq(q, ch)'
        /\ \A q \in Revs : blocked[q] > 0 => blocked'[q] > 0
        /\ content[r].remindAt # NoTime => InSeq(r, ch)' \/ blocked'[r] > 0
    BY <1>t, <2>1, <2>2, EnqueueTracks
  <2>4. KeepsTrack
    BY <2>1, <2>3 DEF KeepsTrack, Tracked, HasCopy, InRequest
  <2> QED
    BY <1>t, <1>s, <2>1, <2>4, QuietStep DEF Watching
<1>16. ASSUME Start PROVE Watched'
  <2>1. /\ startedAt' = clock
        /\ UNCHANGED <<content, rows, reqs, ch, blocked, waiting, overdue, sent>>
        /\ \/ restoring' = ListPendingReminders(clock)
           \/ untracked' = untracked \cup ListPendingReminders(clock)
    BY <1>16 DEF Start
  <2>2. \A q \in Revs : Covered(q)' <=> Tracked(q)'
    BY <1>t, CoveredIsTrackedNext
  <2>3. ASSUME NEW i \in Ids, Expected(i)', rows'[i].remindedAt = NoTime
        PROVE  Covered(rows[i].rev)'
    <3>1. Pending(i, clock) /\ rows[i].rev \notin untracked'
      BY <2>1, <2>3 DEF Expected, Pending, Exists
    <3>2. rows[i].rev \in ListPendingReminders(clock)
      BY <3>1 DEF ListPendingReminders
    <3>3. rows[i].rev \in Revs
      BY <1>t, <3>1 DEF TypeOK, Row, Pending, Exists
    <3>4. rows[i].rev \in restoring'
      BY <2>1, <3>1, <3>2
    <3> QED
      BY <2>1, <2>2, <3>3, <3>4 DEF Tracked, HasCopy
  <2> QED
    BY <2>3 DEF Watched
<1>17. ASSUME \/ WorkerExits \/ Serve \/ Signal \/ Shutdown \/ ServerFails \/ Tick
              \/ (\E r \in Revs : MarkFails(r)) \/ UNCHANGED vars
       PROVE  Watched'
  <2>1. UNCHANGED <<content, rows, reqs, restoring, ch, blocked, waiting, overdue, sent,
                    untracked, startedAt>>
    BY <1>17 DEF WorkerExits, Serve, Signal, Shutdown, ServerFails, MoveOn, Tick, MarkFails
  <2>2. Watching' => Watching
    BY <1>17 DEF WorkerExits, Serve, Signal, Shutdown, ServerFails, MoveOn, Tick, MarkFails,
                 Watching
  <2>3. KeepsTrack
    BY <2>1 DEF KeepsTrack, Tracked, HasCopy, InRequest
  <2> QED
    BY <1>t, <1>s, <2>1, <2>2, <2>3, QuietStep
<1>18. ASSUME Exit \/ Crash PROVE ~Watching'
  BY <1>18 DEF Exit, Crash, Die, Watching
<1>19. ASSUME ~Watching' PROVE Watched'
  BY <1>19 DEF Watched
<1>20. ASSUME NEW c \in Clients, BeginCreate(c) \/ BeginUpdate(c) PROVE Watched'
  BY <1>1, <1>20 DEF BeginCreate, BeginUpdate
<1> QED
  BY <1>3, <1>4, <1>5, <1>6, <1>10, <1>11, <1>12, <1>13, <1>14, <1>15, <1>16, <1>17,
     <1>18, <1>19, <1>20 DEF Next

\* While the process serves, every active row with an unsent reminder that was
\* not yet due at its start is announced or on its way, for every instance.
THEOREM NothingForgotten == Spec => []NoReminderLost
<1>1. Init => Watched
  BY DEF Init, Watched, Watching
<1>2. IInv /\ Watched => NoReminderLost
  BY DEF Watched, Watching, NoReminderLost
<1> QED
  BY <1>1, <1>2, WatchedStep, InvInit, InvStep, PTL DEF Spec
=============================================================================
