------------------------- MODULE CommentEventInbox -------------------------
(***************************************************************************)
(* The comment path of the program in enforce mode, on campaign posts that  *)
(* are ACTIVE: webhook threads and the poller thread hand the same comment  *)
(* to process_comment_event; comment_event_store arbitrates with a claim    *)
(* token and a lease; each effect (private reply, Telegram notice) is       *)
(* bracketed by a STARTED and a DONE or UNKNOWN write; the Airtable record   *)
(* is created directly or by the retry queue; a monitor reports dead tasks. *)
(*                                                                         *)
(* One step is one sqlite transaction, one file write or one network call.  *)
(* A claim token (a uuid) is the number of claims of its row so far, and    *)
(* the columns of a table are functions of the row's key.                   *)
(***************************************************************************)
EXTENDS Naturals, FiniteSets

CONSTANTS
    Events,       \* comment ids
    LeadEvents,   \* those whose text is neither negative nor spam: a reply is tried
    Webhooks,     \* Flask request threads
    Poller,       \* the APScheduler thread of poll_new_comments
    Nobody,       \* no thread, no event
    TaskIds,      \* bound: ids of retry tasks that can be enqueued
    NoTask,       \* NULL in retry_task_id
    MaxAttempts,  \* max_attempts of a retry task (3 in the code)
    MaxCache,     \* MAX_CACHE of the poller's file (2000 in the code)
    MaxFaults     \* bound: failures of the environment in one behaviour

Workers == Webhooks \cup {Poller}
Effects == {"private_reply", "telegram"}

ASSUME ConstantsAssumption ==
    /\ LeadEvents \subseteq Events
    /\ Poller \notin Webhooks
    /\ Nobody \notin Workers \cup Events
    /\ NoTask \notin TaskIds
    /\ MaxAttempts \in Nat \ {0}
    /\ MaxCache \in Nat \ {0}
    /\ MaxFaults \in Nat

VARIABLES
    \* comment_events, one row per event
    status, token, lease, effect, air, review, task,
    \* the threads inside process_comment_event
    pc,       \* where the thread is
    event,    \* the comment it handles
    held,     \* its claim token
    seen,     \* what get_status showed as settled
    fx,       \* the effect it is at
    queued,   \* the task it enqueued
    lock,     \* the holder of comment_safety_guard.REPLY_LOCK
    \* the poller: comments left in this cycle, ids to cache, the cache file
    todo, fresh, cached,
    \* retry_tasks
    taskEvent, tries, taskStatus,
    \* the RetryQueueWorker thread and the dead monitor job
    rqPc, rqTask, monPc, monTask,
    stored,   \* task ids with a SENT row in comment_dead_alerts
    \* the outside world
    records,  \* Lead_Interactions records in Airtable per event
    sent,     \* deliveries per event and effect
    acked,    \* events a webhook answered with 200
    shown,    \* task ids of the alerts Slack delivered
    faults    \* failures so far

store   == <<status, token, lease, effect, air, review, task>>
threads == <<pc, event, held, seen, fx, queued>>
poll    == <<todo, fresh, cached>>
queue   == <<taskEvent, tries, taskStatus>>
rq      == <<rqPc, rqTask>>
mon     == <<monPc, monTask, stored, shown>>

vars == <<store, threads, lock, poll, queue, rq, mon, records, sent, acked, faults>>

EffectStatus   == {"NOT_APPLICABLE", "STARTED", "DONE", "UNKNOWN"}
Settled        == {"DONE", "UNKNOWN"}
AirtableStatus == {"PENDING", "RETRY_PENDING", "RETRY_ENQUEUE_FAILED", "DONE"}

ThreadPc == {"idle", "refused", "claimed", "wait", "begin", "send", "mark_done",
             "mark_unknown", "record", "create", "complete", "enqueue", "hand_over",
             "give_up"}

\* An absent row shows the values an INSERT gives the other columns.
Init ==
    /\ status = [e \in Events |-> "ABSENT"]
    /\ token = [e \in Events |-> 0]
    /\ lease = [e \in Events |-> "live"]
    /\ effect = [e \in Events |-> [x \in Effects |-> "NOT_APPLICABLE"]]
    /\ air = [e \in Events |-> "PENDING"]
    /\ review = {}
    /\ task = [e \in Events |-> NoTask]
    /\ pc = [w \in Workers |-> "idle"]
    /\ event = [w \in Workers |-> Nobody]
    /\ held = [w \in Workers |-> 0]
    /\ seen = [w \in Workers |-> {}]
    /\ fx = [w \in Workers |-> "private_reply"]
    /\ queued = [w \in Workers |-> NoTask]
    /\ lock = Nobody
    /\ todo = {} /\ fresh = {} /\ cached = {}
    /\ taskEvent = [t \in TaskIds |-> Nobody]
    /\ tries = [t \in TaskIds |-> 0]
    /\ taskStatus = [t \in TaskIds |-> "none"]
    /\ rqPc = "idle" /\ rqTask = NoTask
    /\ monPc = "idle" /\ monTask = NoTask
    /\ stored = {} /\ shown = {}
    /\ records = [e \in Events |-> 0]
    /\ sent = [e \in Events |-> [x \in Effects |-> 0]]
    /\ acked = {}
    /\ faults = 0

-----------------------------------------------------------------------------
(* The event store. *)

\* A failure the environment may still inject.
Fault == faults < MaxFaults /\ faults' = faults + 1

Stale(e) == status[e] = "PROCESSING" /\ lease[e] = "expired"

\* Mutant: the INSERT leaves the status to the column's default.
TakeOver_DefaultStatus(e) ==
    /\ status' = [status EXCEPT ![e] = IF @ = "ABSENT" THEN "RECEIVED" ELSE @]
    /\ token' = [token EXCEPT ![e] = @ + 1]
    /\ UNCHANGED <<lease, effect, air, review, task>>

\* Mutant: a reclaim leaves STARTED effects as they are.
TakeOver_KeepsStarted(e) ==
    /\ status' = [status EXCEPT ![e] = "PROCESSING"]
    /\ token' = [token EXCEPT ![e] = @ + 1]
    /\ lease' = [lease EXCEPT ![e] = "live"]
    /\ UNCHANGED <<effect, air, review, task>>

\* A claim or reclaim: a new token and lease, and every effect left STARTED
\* by the previous owner becomes UNKNOWN and asks for a manual review.
TakeOver(e) ==
    /\ status' = [status EXCEPT ![e] = "PROCESSING"]
    /\ token' = [token EXCEPT ![e] = @ + 1]
    /\ lease' = [lease EXCEPT ![e] = "live"]
    /\ effect' = [effect EXCEPT ![e] =
                    [x \in Effects |-> IF @[x] = "STARTED" THEN "UNKNOWN" ELSE @[x]]]
    /\ review' = IF \E x \in Effects : effect[e][x] = "STARTED"
                 THEN review \cup {e} ELSE review
    /\ UNCHANGED <<air, task>>

\* Mutant: updates are not fenced by the token.
Owns_NoFence(w) == held[w] > 0

\* _fenced_update: the thread's token is still the one in the row.
Owns(w) == token[event[w]] = held[w]

\* get_status: what _handle_comment_impl will not do again.
SettledParts(e) ==
    {x \in Effects : effect[e][x] \in Settled}
        \cup (IF air[e] \in {"DONE", "RETRY_PENDING"} THEN {"airtable"} ELSE {})

-----------------------------------------------------------------------------
(* Ingress: a webhook request or the poller's cycle calls the entry point.  *)

\* A webhook receives a comment Meta delivers, for the first time or again;
\* the poller takes the comments of its cycle that its cache does not hold.
Receives(w, e) == w = Poller => e \in todo

Visit(w, e) ==
    /\ pc[w] = "idle"
    /\ Receives(w, e)
    /\ event' = [event EXCEPT ![w] = e]
    /\ todo' = IF w = Poller THEN todo \ {e} ELSE todo
    /\ UNCHANGED <<seen, fx, queued, fresh, cached>>

\* Mutant: the poller caches whatever result it gets.
Return_CachesAll(w, durable) ==
    /\ pc' = [pc EXCEPT ![w] = "idle"]
    /\ event' = [event EXCEPT ![w] = Nobody]
    /\ held' = [held EXCEPT ![w] = 0]
    /\ seen' = [seen EXCEPT ![w] = {}]
    /\ fx' = [fx EXCEPT ![w] = "private_reply"]
    /\ queued' = [queued EXCEPT ![w] = NoTask]
    /\ fresh' = IF w = Poller THEN fresh \cup {event[w]} ELSE fresh
    /\ acked' = IF durable /\ w # Poller THEN acked \cup {event[w]} ELSE acked
    /\ UNCHANGED <<todo, cached>>

\* The thread returns its result. A durable one is answered with 200 or put
\* in the set the poller will cache; any other leaves the comment to redelivery.
Return(w, durable) ==
    /\ pc' = [pc EXCEPT ![w] = "idle"]
    /\ event' = [event EXCEPT ![w] = Nobody]
    /\ held' = [held EXCEPT ![w] = 0]
    /\ seen' = [seen EXCEPT ![w] = {}]
    /\ fx' = [fx EXCEPT ![w] = "private_reply"]
    /\ queued' = [queued EXCEPT ![w] = NoTask]
    /\ fresh' = IF durable /\ w = Poller THEN fresh \cup {event[w]} ELSE fresh
    /\ acked' = IF durable /\ w # Poller THEN acked \cup {event[w]} ELSE acked
    /\ UNCHANGED <<todo, cached>>

\* try_claim inserts the row or takes over a stale one.
Claim(w, e) ==
    /\ status[e] = "ABSENT" \/ Stale(e)
    /\ Visit(w, e)
    /\ TakeOver(e)
    /\ pc' = [pc EXCEPT ![w] = "claimed"]
    /\ held' = [held EXCEPT ![w] = token[e] + 1]
    /\ UNCHANGED <<lock, queue, rq, mon, records, sent, acked, faults>>

\* try_claim returns None; why is read in a transaction of its own.
ClaimRefused(w, e) ==
    /\ status[e] # "ABSENT" /\ ~Stale(e)
    /\ Visit(w, e)
    /\ pc' = [pc EXCEPT ![w] = "refused"]
    /\ UNCHANGED <<held, store, lock, queue, rq, mon, records, sent, acked, faults>>

\* Mutant: IN_PROGRESS is answered like a duplicate.
RefusalIsDurable_InProgress(e) == status[e] # "ABSENT"

\* RETRY_OWNED, IN_PROGRESS or DUPLICATE_COMPLETED: all but IN_PROGRESS are durable.
RefusalIsDurable(e) == air[e] = "RETRY_PENDING" \/ status[e] # "PROCESSING"

ExplainRefusal(w) ==
    /\ pc[w] = "refused"
    /\ Return(w, RefusalIsDurable(event[w]))
    /\ UNCHANGED <<store, lock, queue, rq, mon, records, sent, faults>>

-----------------------------------------------------------------------------
(* _handle_comment_impl: reply, notice, record, each skipped when settled.  *)

\* The thread goes on at a label, inside the same call.
Goto(w, label) ==
    /\ pc' = [pc EXCEPT ![w] = label]
    /\ UNCHANGED <<event, held, seen, fx, queued>>

ReadStatus(w) ==
    /\ pc[w] = "claimed"
    /\ seen' = [seen EXCEPT ![w] = SettledParts(event[w])]
    /\ LET reply  == event[w] \in LeadEvents /\ "private_reply" \notin seen'[w]
           notice == "telegram" \notin seen'[w]
       IN  /\ pc' = [pc EXCEPT ![w] = IF reply THEN "wait"
                                      ELSE IF notice THEN "begin" ELSE "record"]
           /\ fx' = [fx EXCEPT ![w] = IF reply THEN "private_reply" ELSE "telegram"]
    /\ UNCHANGED <<event, held, queued, store, lock, poll, queue, rq, mon, records,
                   sent, acked, faults>>

TakeReplyLock(w) ==
    /\ pc[w] = "wait"
    /\ lock = Nobody
    /\ lock' = w
    /\ Goto(w, "begin")
    /\ UNCHANGED <<store, poll, queue, rq, mon, records, sent, acked, faults>>

\* Where a thread goes from an effect: from the reply to the notice, then to the record.
AfterEffect(w) ==
    /\ pc' = [pc EXCEPT ![w] = IF fx[w] = "private_reply" /\ "telegram" \notin seen[w]
                               THEN "begin" ELSE "record"]
    /\ fx' = [fx EXCEPT ![w] = "telegram"]
    /\ UNCHANGED <<event, held, seen, queued>>

\* Mutant: an early return of the reply keeps the lock.
LeaveEffect_KeepsLock(w) ==
    /\ AfterEffect(w)
    /\ lock' = IF fx[w] = "private_reply" /\ pc[w] # "begin" THEN Nobody ELSE lock

\* Mutant: leaving any effect releases the lock, whoever holds it.
LeaveEffect_ReleasesAny(w) ==
    /\ AfterEffect(w)
    /\ lock' = Nobody

\* The reply lock is held until the reply is left.
LeaveEffect(w) ==
    /\ AfterEffect(w)
    /\ lock' = IF fx[w] = "private_reply" THEN Nobody ELSE lock

\* Not a campaign post, account without private replies, breaker open, user in
\* cooldown, or budget spent.
GuardRefuses(w) ==
    /\ pc[w] = "begin" /\ fx[w] = "private_reply"
    /\ LeaveEffect(w)
    /\ UNCHANGED <<store, poll, queue, rq, mon, records, sent, acked, faults>>

\* mark_effect_started.
BeginEffect(w) ==
    /\ pc[w] = "begin"
    /\ Owns(w)
    /\ effect' = [effect EXCEPT ![event[w]][fx[w]] = "STARTED"]
    /\ Goto(w, "send")
    /\ UNCHANGED <<status, token, lease, air, review, task, lock, poll, queue, rq, mon,
                   records, sent, acked, faults>>

Delivered(w) == sent' = [sent EXCEPT ![event[w]][fx[w]] = @ + 1]

SendEffect(w) ==
    /\ pc[w] = "send"
    /\ Delivered(w)
    /\ Goto(w, "mark_done")
    /\ UNCHANGED <<store, lock, poll, queue, rq, mon, records, acked, faults>>

\* Mutant: an HTTP error is recorded as DONE.
SendEffectFails_MarksDone(w) ==
    /\ pc[w] = "send"
    /\ Fault
    /\ UNCHANGED sent
    /\ Goto(w, "mark_done")
    /\ UNCHANGED <<store, lock, poll, queue, rq, mon, records, acked>>

\* An HTTP error or an exception; after a timeout the message may be out.
SendEffectFails(w) ==
    /\ pc[w] = "send"
    /\ Fault
    /\ UNCHANGED sent \/ Delivered(w)
    /\ Goto(w, "mark_unknown")
    /\ UNCHANGED <<store, lock, poll, queue, rq, mon, records, acked>>

\* mark_effect_done.
MarkDone(w) ==
    /\ pc[w] = "mark_done"
    /\ Owns(w)
    /\ effect' = [effect EXCEPT ![event[w]][fx[w]] = "DONE"]
    /\ LeaveEffect(w)
    /\ UNCHANGED <<status, token, lease, air, review, task, poll, queue, rq, mon,
                   records, sent, acked, faults>>

\* mark_effect_unknown.
MarkUnknown(w) ==
    /\ pc[w] = "mark_unknown"
    /\ Owns(w)
    /\ effect' = [effect EXCEPT ![event[w]][fx[w]] = "UNKNOWN"]
    /\ review' = review \cup {event[w]}
    /\ LeaveEffect(w)
    /\ UNCHANGED <<status, token, lease, air, task, poll, queue, rq, mon, records, sent,
                   acked, faults>>

\* The update is refused: a thread that has not sent yet does not send.
EffectFenced(w) ==
    /\ pc[w] \in {"begin", "mark_done", "mark_unknown"}
    /\ ~Owns(w)
    /\ LeaveEffect(w)
    /\ UNCHANGED <<store, poll, queue, rq, mon, records, sent, acked, faults>>

-----------------------------------------------------------------------------
(* _record_comment: look the record up, create it, or leave it to the queue. *)

RecordSettled(w) ==
    /\ pc[w] = "record" /\ "airtable" \in seen[w]
    /\ Return(w, TRUE)
    /\ UNCHANGED <<store, lock, queue, rq, mon, records, sent, faults>>

FindLead(w) ==
    /\ pc[w] = "record" /\ "airtable" \notin seen[w]
    /\ Goto(w, IF records[event[w]] > 0 THEN "complete" ELSE "create")
    /\ UNCHANGED <<store, lock, poll, queue, rq, mon, records, sent, acked, faults>>

FindLeadFails(w) ==
    /\ pc[w] = "record" /\ "airtable" \notin seen[w]
    /\ Fault
    /\ Goto(w, "enqueue")
    /\ UNCHANGED <<store, lock, poll, queue, rq, mon, records, sent, acked>>

\* POST Lead_Interactions.
Created(e) == records' = [records EXCEPT ![e] = @ + 1]

CreateLead(w) ==
    /\ pc[w] = "create"
    /\ Created(event[w])
    /\ Goto(w, "complete")
    /\ UNCHANGED <<store, lock, poll, queue, rq, mon, sent, acked, faults>>

\* The POST raised; after a timeout the record may exist.
CreateLeadFails(w) ==
    /\ pc[w] = "create"
    /\ Fault
    /\ UNCHANGED records \/ Created(event[w])
    /\ Goto(w, "enqueue")
    /\ UNCHANGED <<store, lock, poll, queue, rq, mon, sent, acked>>

\* Airtable has the record: both columns change in one UPDATE.
Recorded(e) ==
    /\ air' = [air EXCEPT ![e] = "DONE"]
    /\ status' = [status EXCEPT ![e] = "COMPLETED"]
    /\ UNCHANGED <<token, lease, effect, review, task>>

\* mark_airtable_done.
CompleteRow(w) ==
    /\ pc[w] = "complete"
    /\ Owns(w)
    /\ Recorded(event[w])
    /\ Return(w, TRUE)
    /\ UNCHANGED <<lock, queue, rq, mon, records, sent, faults>>

Enqueue(w) ==
    /\ pc[w] = "enqueue"
    /\ \E t \in TaskIds :
         /\ taskStatus[t] = "none"
         /\ taskStatus' = [taskStatus EXCEPT ![t] = "pending"]
         /\ taskEvent' = [taskEvent EXCEPT ![t] = event[w]]
         /\ queued' = [queued EXCEPT ![w] = t]
    /\ pc' = [pc EXCEPT ![w] = "hand_over"]
    /\ UNCHANGED <<event, held, seen, fx, tries, store, lock, poll, rq, mon, records,
                   sent, acked, faults>>

\* No cipher key, or the queue's database failed.
EnqueueFails(w) ==
    /\ pc[w] = "enqueue"
    /\ Fault
    /\ Goto(w, "give_up")
    /\ UNCHANGED <<store, lock, poll, queue, rq, mon, records, sent, acked>>

\* Mutant: the handed-over row is closed at once.
HandOver_Closes(w) ==
    /\ pc[w] = "hand_over"
    /\ Owns(w)
    /\ air' = [air EXCEPT ![event[w]] = "RETRY_PENDING"]
    /\ status' = [status EXCEPT ![event[w]] = "COMPLETED"]
    /\ task' = [task EXCEPT ![event[w]] = queued[w]]
    /\ Return(w, TRUE)
    /\ UNCHANGED <<token, lease, effect, review, lock, queue, rq, mon, records, sent,
                   faults>>

\* mark_airtable_retry_pending.
HandOver(w) ==
    /\ pc[w] = "hand_over"
    /\ Owns(w)
    /\ air' = [air EXCEPT ![event[w]] = "RETRY_PENDING"]
    /\ task' = [task EXCEPT ![event[w]] = queued[w]]
    /\ Return(w, TRUE)
    /\ UNCHANGED <<status, token, lease, effect, review, lock, queue, rq, mon, records,
                   sent, faults>>

\* mark_retry_enqueue_failed.
GiveUp(w) ==
    /\ pc[w] = "give_up"
    /\ Owns(w)
    /\ air' = [air EXCEPT ![event[w]] = "RETRY_ENQUEUE_FAILED"]
    /\ Return(w, FALSE)
    /\ UNCHANGED <<status, token, lease, effect, review, task, lock, queue, rq, mon,
                   records, sent, faults>>

\* The update is refused: the thread reports that the comment is not done.
RecordFenced(w) ==
    /\ pc[w] \in {"complete", "hand_over", "give_up"}
    /\ ~Owns(w)
    /\ Return(w, FALSE)
    /\ UNCHANGED <<store, lock, queue, rq, mon, records, sent, faults>>

-----------------------------------------------------------------------------
(* The poller's cycle. *)

PollBegin ==
    /\ pc[Poller] = "idle" /\ todo = {} /\ fresh = {}
    /\ todo' = Events \ cached
    /\ UNCHANGED <<fresh, cached, store, threads, lock, queue, rq, mon, records, sent,
                   acked, faults>>

\* _save_cache keeps MaxCache ids, an arbitrary choice: the ids form a set.
Trims(ids) == {s \in SUBSET ids : s = ids \/ Cardinality(s) = MaxCache}

PollEnd ==
    /\ pc[Poller] = "idle" /\ todo = {} /\ fresh # {}
    /\ cached' \in {s \in Trims(cached \cup fresh) : Cardinality(s) <= MaxCache}
    /\ fresh' = {}
    /\ UNCHANGED <<todo, store, threads, lock, queue, rq, mon, records, sent, acked,
                   faults>>

-----------------------------------------------------------------------------
(* The retry queue runs comment_airtable_record tasks one at a time.        *)

RqGoto(label) == rqPc' = label /\ UNCHANGED rqTask

\* A pending task whose next_retry has come.
RqTake(t) ==
    /\ rqPc = "idle"
    /\ taskStatus[t] = "pending"
    /\ rqPc' = "find"
    /\ rqTask' = t
    /\ UNCHANGED <<store, threads, lock, poll, queue, mon, records, sent, acked, faults>>

RqFind ==
    /\ rqPc = "find"
    /\ RqGoto(IF records[taskEvent[rqTask]] > 0 THEN "complete" ELSE "create")
    /\ UNCHANGED <<store, threads, lock, poll, queue, mon, records, sent, acked, faults>>

RqCreate ==
    /\ rqPc = "create"
    /\ Created(taskEvent[rqTask])
    /\ RqGoto("complete")
    /\ UNCHANGED <<store, threads, lock, poll, queue, mon, sent, acked, faults>>

\* The payload does not decrypt, the lookup or the POST raised.
RqFails ==
    /\ rqPc \in {"find", "create"}
    /\ Fault
    /\ UNCHANGED records \/ (rqPc = "create" /\ Created(taskEvent[rqTask]))
    /\ RqGoto("failed")
    /\ UNCHANGED <<store, threads, lock, poll, queue, mon, sent, acked>>

\* mark_airtable_retry_completed: not fenced, but only from RETRY_PENDING.
RqComplete ==
    /\ rqPc = "complete"
    /\ IF air[taskEvent[rqTask]] = "RETRY_PENDING"
       THEN Recorded(taskEvent[rqTask]) ELSE UNCHANGED store
    /\ RqGoto("done")
    /\ UNCHANGED <<threads, lock, poll, queue, mon, records, sent, acked, faults>>

\* The outcome of an attempt is written and the thread is free again.
Attempted(s) ==
    /\ taskStatus' = [taskStatus EXCEPT ![rqTask] = s]
    /\ tries' = [tries EXCEPT ![rqTask] = @ + 1]
    /\ rqPc' = "idle"
    /\ rqTask' = NoTask
    /\ UNCHANGED <<taskEvent, store, threads, lock, poll, mon, records, sent, acked,
                   faults>>

RqDone == rqPc = "done" /\ Attempted("done")

\* A failed attempt backs off, the last one makes the task dead.
RqBackOff == rqPc = "failed" /\ tries[rqTask] + 1 < MaxAttempts /\ Attempted("pending")
RqDie     == rqPc = "failed" /\ tries[rqTask] + 1 >= MaxAttempts /\ Attempted("dead")

-----------------------------------------------------------------------------
(* The dead monitor: mark the event DEAD, alert until one alert went out.   *)

\* find_by_retry_task_id, then an unconditional mark_dead: one step, since no
\* thread replaces the task id of a row once it is set.
MarkDead(t) ==
    /\ status' = [e \in Events |-> IF task[e] = t THEN "DEAD" ELSE status[e]]
    /\ UNCHANGED <<token, lease, effect, air, review, task>>

\* Mutant: the alert is recorded as sent before it is sent.
MonitorVisit_AlertFirst(t) ==
    /\ monPc = "idle" /\ taskStatus[t] = "dead" /\ t \notin stored
    /\ MarkDead(t)
    /\ monPc' = "alert" /\ monTask' = t
    /\ stored' = stored \cup {t}
    /\ UNCHANGED <<shown, threads, lock, poll, queue, rq, records, sent, acked, faults>>

MonitorVisit(t) ==
    /\ monPc = "idle" /\ taskStatus[t] = "dead"
    /\ MarkDead(t)
    /\ IF t \in stored THEN UNCHANGED <<monPc, monTask>>
                       ELSE monPc' = "alert" /\ monTask' = t
    /\ UNCHANGED <<stored, shown, threads, lock, poll, queue, rq, records, sent, acked,
                   faults>>

MonitorSend ==
    /\ monPc = "alert"
    /\ shown' = shown \cup {monTask}
    /\ monPc' = "sent"
    /\ UNCHANGED <<monTask, stored, store, threads, lock, poll, queue, rq, records, sent,
                   acked, faults>>

MonitorSendFails ==
    /\ monPc = "alert"
    /\ Fault
    /\ monPc' = "idle" /\ monTask' = NoTask
    /\ UNCHANGED <<stored, shown, store, threads, lock, poll, queue, rq, records, sent,
                   acked>>

MonitorMarkSent ==
    /\ monPc = "sent"
    /\ stored' = stored \cup {monTask}
    /\ monPc' = "idle" /\ monTask' = NoTask
    /\ UNCHANGED <<shown, store, threads, lock, poll, queue, rq, records, sent, acked,
                   faults>>

-----------------------------------------------------------------------------
(* Time, operators and crashes. *)

Alive(e) == \E w \in Workers : event[w] = e /\ held[w] = token[e]

\* Nobody is at work on the row and the retry queue has not got it: progress
\* depends on its lease.
Abandoned(e) == ~Alive(e) /\ air[e] # "RETRY_PENDING"

\* The lease (60 seconds) runs out. While the owner is still at work (network
\* calls, waiting for the reply lock) or the queue holds the comment, that
\* counts as a fault: it is what bounds the number of claims.
LeaseExpires(e) ==
    /\ status[e] = "PROCESSING" /\ lease[e] = "live"
    /\ IF Abandoned(e) THEN UNCHANGED faults ELSE Fault
    /\ lease' = [lease EXCEPT ![e] = "expired"]
    /\ UNCHANGED <<status, token, effect, air, review, task, threads, lock, poll, queue,
                   rq, mon, records, sent, acked>>

\* reclaim_stale, run by hand: takes the lease and gives the token to nobody.
SweepStale(e) ==
    /\ Stale(e)
    /\ Fault
    /\ TakeOver(e)
    /\ UNCHANGED <<threads, lock, poll, queue, rq, mon, records, sent, acked>>

\* The process dies and is started again: only files survive.
Crash ==
    /\ Fault
    /\ pc' = [w \in Workers |-> "idle"]
    /\ event' = [w \in Workers |-> Nobody]
    /\ held' = [w \in Workers |-> 0]
    /\ seen' = [w \in Workers |-> {}]
    /\ fx' = [w \in Workers |-> "private_reply"]
    /\ queued' = [w \in Workers |-> NoTask]
    /\ lock' = Nobody
    /\ todo' = {} /\ fresh' = {}
    /\ rqPc' = "idle" /\ rqTask' = NoTask
    /\ monPc' = "idle" /\ monTask' = NoTask
    /\ UNCHANGED <<store, cached, queue, stored, shown, records, sent, acked>>

-----------------------------------------------------------------------------
EffectStep(w) ==
    \/ TakeReplyLock(w) \/ GuardRefuses(w) \/ BeginEffect(w)
    \/ SendEffect(w) \/ SendEffectFails(w)
    \/ MarkDone(w) \/ MarkUnknown(w) \/ EffectFenced(w)

RecordStep(w) ==
    \/ RecordSettled(w) \/ FindLead(w) \/ FindLeadFails(w)
    \/ CreateLead(w) \/ CreateLeadFails(w) \/ CompleteRow(w)
    \/ Enqueue(w) \/ EnqueueFails(w) \/ HandOver(w) \/ GiveUp(w) \/ RecordFenced(w)

WorkerStep(w) == ExplainRefusal(w) \/ ReadStatus(w) \/ EffectStep(w) \/ RecordStep(w)

Ingress(w, e) == Claim(w, e) \/ ClaimRefused(w, e)

PollStep == PollBegin \/ PollEnd \/ \E e \in Events : Ingress(Poller, e)

QueueStep ==
    \/ \E t \in TaskIds : RqTake(t)
    \/ RqFind \/ RqCreate \/ RqFails \/ RqComplete \/ RqDone \/ RqBackOff \/ RqDie

MonitorStep ==
    \/ \E t \in TaskIds : MonitorVisit(t)
    \/ MonitorSend \/ MonitorSendFails \/ MonitorMarkSent

Next ==
    \/ \E w \in Workers : WorkerStep(w)
    \/ \E w \in Webhooks, e \in Events : Ingress(w, e)
    \/ PollStep \/ QueueStep \/ MonitorStep
    \/ \E e \in Events : LeaseExpires(e) \/ SweepStale(e)
    \/ Crash

Spec == Init /\ [][Next]_vars

\* Every thread keeps running and every network call returns (all have
\* timeouts); the scheduler keeps calling the poller and the monitor, which
\* visits every dead task; leases run out. A webhook need never be called.
Fairness ==
    /\ \A w \in Workers : WF_vars(WorkerStep(w))
    /\ WF_vars(PollStep)
    /\ WF_vars(QueueStep)
    /\ WF_vars(MonitorStep)
    /\ \A e \in Events : WF_vars(LeaseExpires(e) /\ Abandoned(e))

FairSpec == Spec /\ Fairness

-----------------------------------------------------------------------------
(* Safety. *)

\* The columns and the program counters keep to the values the code names.
TypeOK ==
    /\ status \in [Events -> {"ABSENT", "PROCESSING", "COMPLETED", "DEAD"}]
    /\ token \in [Events -> Nat]
    /\ lease \in [Events -> {"live", "expired"}]
    /\ effect \in [Events -> [Effects -> EffectStatus]]
    /\ air \in [Events -> AirtableStatus]
    /\ review \subseteq Events
    /\ task \in [Events -> TaskIds \cup {NoTask}]
    /\ pc \in [Workers -> ThreadPc]
    /\ event \in [Workers -> Events \cup {Nobody}]
    /\ held \in [Workers -> Nat]
    /\ seen \in [Workers -> SUBSET (Effects \cup {"airtable"})]
    /\ fx \in [Workers -> Effects]
    /\ queued \in [Workers -> TaskIds \cup {NoTask}]
    /\ lock \in Workers \cup {Nobody}
    /\ todo \subseteq Events /\ fresh \subseteq Events /\ cached \subseteq Events
    /\ taskEvent \in [TaskIds -> Events \cup {Nobody}]
    /\ tries \in [TaskIds -> 0..MaxAttempts]
    /\ taskStatus \in [TaskIds -> {"none", "pending", "done", "dead"}]
    /\ rqPc \in {"idle", "find", "create", "complete", "done", "failed"}
    /\ rqTask \in TaskIds \cup {NoTask}
    /\ monPc \in {"idle", "alert", "sent"}
    /\ monTask \in TaskIds \cup {NoTask}
    /\ stored \subseteq TaskIds /\ shown \subseteq TaskIds
    /\ records \in [Events -> Nat]
    /\ sent \in [Events -> [Effects -> Nat]]
    /\ acked \subseteq Events
    /\ faults \in 0..MaxFaults

\* At most once: no interleaving of threads, expired leases, reclaims and
\* restarts sends the same private reply or the same notice twice
\* (try_claim, mark_effect_started and the STARTED -> UNKNOWN rule of a reclaim).
AtMostOnce == \A e \in Events, x \in Effects : sent[e][x] <= 1

\* What a webhook acknowledged with 200 or the poller cached is not offered
\* again, so by then its record exists or the retry queue still holds it.
Accepted == acked \cup fresh \cup cached

HeldByQueue(e) ==
    \E t \in TaskIds : taskEvent[t] = e /\ taskStatus[t] \in {"pending", "dead"}

AcceptedIsDurable == \A e \in Accepted : records[e] > 0 \/ HeldByQueue(e)

\* The row never hides what went out: a sent effect has left a trace, a DONE
\* effect was delivered, and an UNKNOWN one asks for a manual review.
EffectEvidence ==
    \A e \in Events, x \in Effects :
        /\ sent[e][x] > 0 => effect[e][x] # "NOT_APPLICABLE"
        /\ effect[e][x] = "DONE" => sent[e][x] > 0
        /\ effect[e][x] = "UNKNOWN" => e \in review

\* A final row tells the truth: COMPLETED has a record, DEAD has a task that
\* used up its attempts.
FinalRowIsTrue ==
    \A e \in Events :
        /\ status[e] = "COMPLETED" => records[e] > 0
        /\ status[e] = "DEAD" =>
              \E t \in TaskIds : taskEvent[t] = e /\ taskStatus[t] = "dead"

\* The guard's decision, the send and the bookkeeping of a reply are one critical
\* section over all comments, so that two threads never decide on the same budget
\* and cooldown (REPLY_LOCK), whichever way threads leave it or lose their claim.
InReply(w) == fx[w] = "private_reply" /\ pc[w] \in {"begin", "send", "mark_done", "mark_unknown"}

ReplySectionIsExclusive ==
    \A v, w \in Workers : InReply(v) /\ InReply(w) => v = w

\* What is settled is never reopened, by any thread, reclaim or queue task:
\* effects stay DONE or UNKNOWN, and a recorded comment stays recorded.
SettledStays ==
    [][\A e \in Events :
         /\ \A x \in Effects : effect[e][x] \in Settled => effect'[e][x] = effect[e][x]
         /\ air[e] = "DONE" => air'[e] = "DONE"]_vars

-----------------------------------------------------------------------------
(* Liveness, under FairSpec. *)

\* Whatever crashes, slow owners and failures leave behind, every comment the
\* poller can see reaches Airtable, or somebody is told that it did not: the next
\* claim takes over, the queue retries, the monitor reports what the queue gave up.
Alerted(e) == \E t \in TaskIds : taskEvent[t] = e /\ t \in shown

EveryCommentIsResolved ==
    \A e \in Events : <>(records[e] > 0 \/ Alerted(e))

\* A thread waiting for the reply lock gets its turn: whichever way a holder
\* leaves the effect (refused, fenced, sent, failed) or dies, the lock is free again.
ReplyLockIsGranted ==
    \A w \in Workers : pc[w] = "wait" ~> pc[w] # "wait"

-----------------------------------------------------------------------------
(* What comments and documents say and the code does not keep. *)

\* "retry_queue.db holds the payload durably: completion is guaranteed whatever
\* crashes": every comment ends COMPLETED or DEAD. The queue may run the task
\* before the thread that enqueued it has marked the row RETRY_PENDING.
EveryCommentSettles ==
    \A e \in Events : <>(status[e] \in {"COMPLETED", "DEAD"})

\* "No duplicate record even when Airtable's answer was lost": the lookup and
\* the creation are two calls.
NoDuplicateRecord == \A e \in Events : records[e] <= 1

\* "A send whose outcome is unclear is isolated as UNKNOWN": an effect that is
\* STARTED is at work in a live thread, or its row can still be reclaimed.
OpenEffectIsIsolated ==
    \A e \in Events, x \in Effects :
        effect[e][x] = "STARTED" => status[e] = "PROCESSING" \/ Alive(e)
=============================================================================
