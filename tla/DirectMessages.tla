-------------------------- MODULE DirectMessages --------------------------
(***************************************************************************)
(* Instagram direct messages: webhook threads record a message as a lead   *)
(* and answer it from the account's reply mode, a pool of workers writes   *)
(* AI replies, the retry queue repeats failed records and replies, and a   *)
(* monitor reports dead tasks and sends that stopped half way.             *)
(*                                                                         *)
(* All messages are of one buyer to one account, because every guard here  *)
(* (burst, hold, handoff, lock) is per account and buyer.  One step is one *)
(* sqlite transaction, one Airtable call or one Graph call.  Alerts that   *)
(* are throttled change nothing the program reads and are left out.        *)
(***************************************************************************)
EXTENDS Naturals, FiniteSets

CONSTANTS
    Messages,      \* message ids (mid)
    TaskIds,       \* bound: ids of retry tasks that can be enqueued
    Nobody,        \* no message, no task
    Modes,         \* reply_mode of the account, one per behaviour
    MaxAttempts,   \* max_attempts of a retry task (3 in the code)
    PoolSize,      \* max_workers of _AI_EXECUTOR (4 in the code)
    MaxPending,    \* DM_AI_MAX_PENDING (20 in the code)
    MaxRequests,   \* bound: requests Meta makes, repeated ones included
    MaxFaults      \* bound: failures of the environment in one behaviour

Requests == 1 .. MaxRequests   \* each request has a thread of its own

AllModes == {"ai_en", "template_en", "handoff_en", "template", "persona"}

ASSUME ConstantsAssumption ==
    /\ Nobody \notin Messages \cup TaskIds
    /\ Modes \subseteq AllModes
    /\ MaxAttempts \in Nat \ {0}
    /\ PoolSize \in Nat \ {0}
    /\ MaxPending \in Nat \ {0}
    /\ MaxRequests \in Nat
    /\ MaxFaults \in Nat

VARIABLES
    mode,      \* Account_Registry.reply_mode
    dedup,     \* DM_EVENT_DEDUP_ENABLED
    \* the row of a message in comment_events
    row, token, lease, reply,
    \* the request threads: label, message, claim token (0: no event), reply_hold
    pc, msg, held, quiet,
    \* memory of the process
    slots,     \* reserved reply slots
    hold,      \* an UNKNOWN hold is on the buyer
    handoff,   \* the buyer was sent to WhatsApp less than 24 hours ago
    \* AI jobs: label of the job of a message, holder of the buyer's lock,
    \* permits taken from _AI_PENDING
    job, aiLock, permits,
    \* retry_tasks; aged holds the tasks created before the last start
    taskKind, taskMsg, tries, taskStatus, aged,
    \* the RetryQueueWorker thread
    rqPc, rqTask,
    \* comment_dead_alerts rows, and what the operators were shown
    deadAlert, told,
    \* outside: lead records, replies delivered, requests answered 200
    leads, replies, acked, requests, faults

store   == <<row, token, lease, reply>>
threads == <<pc, msg, held, quiet>>
memory  == <<slots, hold, handoff>>
ai      == <<job, aiLock, permits>>
queue   == <<taskKind, taskMsg, tries, taskStatus, aged>>
rq      == <<rqPc, rqTask>>
alerts  == <<deadAlert, told>>
outside == <<leads, replies, acked, requests>>

vars == <<mode, dedup, store, threads, memory, ai, queue, rq, alerts, outside, faults>>

WebhookPc == {"idle", "record", "queue_record", "complete_queued", "complete",
              "reply", "start", "send", "mark_done", "doubt", "queue_reply"}
JobPc     == {"none", "queued", "waiting", "begin", "generate", "send", "mark_done",
              "failed", "enqueue", "doubt", "finish"}
RetryPc   == {"idle", "check", "send", "mark_done", "failed", "doubt", "doubt_raise",
              "record", "ok", "failure"}

\* The slot a reply reserves: per inquiry text for the Korean template, per buyer otherwise.
Buyer == "buyer"
Slot(m) == IF mode = "template" THEN m ELSE Buyer

Init ==
    /\ mode \in Modes
    /\ dedup \in BOOLEAN
    /\ row = [m \in Messages |-> "ABSENT"]
    /\ token = [m \in Messages |-> 0]
    /\ lease = [m \in Messages |-> "live"]
    /\ reply = [m \in Messages |-> "NOT_APPLICABLE"]
    /\ pc = [w \in Requests |-> "idle"]
    /\ msg = [w \in Requests |-> Nobody]
    /\ held = [w \in Requests |-> 0]
    /\ quiet = [w \in Requests |-> FALSE]
    /\ slots = {} /\ hold = FALSE /\ handoff = FALSE
    /\ job = [m \in Messages |-> "none"]
    /\ aiLock = Nobody
    /\ permits = 0
    /\ taskKind = [t \in TaskIds |-> "none"]
    /\ taskMsg = [t \in TaskIds |-> Nobody]
    /\ tries = [t \in TaskIds |-> 0]
    /\ taskStatus = [t \in TaskIds |-> "none"]
    /\ aged = {}
    /\ rqPc = "idle" /\ rqTask = Nobody
    /\ deadAlert = [t \in TaskIds |-> "none"]
    /\ told = {}
    /\ leads = [m \in Messages |-> 0]
    /\ replies = [m \in Messages |-> 0]
    /\ acked = {}
    /\ requests = 0
    /\ faults = 0

-----------------------------------------------------------------------------
(* Helpers. *)

Fault == faults < MaxFaults /\ faults' = faults + 1
Fine  == UNCHANGED faults

Owns(w) == held[w] = token[msg[w]]

\* The row's effect column, written under a matching claim token.
SetReply(m, state) == reply' = [reply EXCEPT ![m] = state]

\* A record in Lead_Interactions: made, refused, or made with the answer lost.
Create(m)      == leads' = [leads EXCEPT ![m] = @ + 1]
CreateFails(m) == Create(m) \/ UNCHANGED leads

\* The Graph call: delivered; surely not sent (4xx, as often as it likes); or, a
\* fault, in doubt (exception, 5xx).
Deliver(m)     == replies' = [replies EXCEPT ![m] = @ + 1]
InDoubt(m)     == Deliver(m) \/ UNCHANGED replies

\* _alert_dm without throttle: Slack, then Telegram; it may reach nobody.
Tell(m) == \/ told' = told \cup {m} /\ Fine
           \/ UNCHANGED told /\ Fault

\* RetryQueue.enqueue.
Enqueue(kind, m) ==
    \E t \in TaskIds :
        /\ taskStatus[t] = "none"
        /\ taskKind' = [taskKind EXCEPT ![t] = kind]
        /\ taskMsg' = [taskMsg EXCEPT ![t] = m]
        /\ taskStatus' = [taskStatus EXCEPT ![t] = "pending"]
        /\ UNCHANGED <<tries, aged>>

Goto(w, label) ==
    /\ pc' = [pc EXCEPT ![w] = label]
    /\ UNCHANGED <<msg, held, quiet>>

\* The request ends; what it answers decides whether Meta sends it again.
Leave(w, answered) ==
    /\ pc' = [pc EXCEPT ![w] = "idle"]
    /\ msg' = [msg EXCEPT ![w] = Nobody]
    /\ held' = [held EXCEPT ![w] = 0]
    /\ quiet' = [quiet EXCEPT ![w] = FALSE]
    /\ acked' = IF answered THEN acked \cup {msg[w]} ELSE acked

-----------------------------------------------------------------------------
(* _process_webhook_event: claim, record, complete.                         *)

Arrives(w) ==
    /\ w = requests + 1
    /\ requests' = w

Enter(w, m, claim, mute) ==
    /\ pc' = [pc EXCEPT ![w] = "record"]
    /\ msg' = [msg EXCEPT ![w] = m]
    /\ held' = [held EXCEPT ![w] = claim]
    /\ quiet' = [quiet EXCEPT ![w] = mute]
    /\ UNCHANGED <<leads, replies, acked>>

\* try_claim inserts the row or takes over one whose lease ran out.
Claim(w, m) ==
    /\ dedup
    /\ row[m] = "ABSENT" \/ (row[m] = "PROCESSING" /\ lease[m] = "expired")
    /\ Arrives(w)
    /\ row' = [row EXCEPT ![m] = "PROCESSING"]
    /\ token' = [token EXCEPT ![m] = @ + 1]
    /\ lease' = [lease EXCEPT ![m] = "live"]
    /\ SetReply(m, IF reply[m] = "STARTED" THEN "UNKNOWN" ELSE reply[m])
    /\ Enter(w, m, token[m] + 1, FALSE)
    /\ Fine
    /\ UNCHANGED <<mode, dedup, memory, ai, queue, rq, alerts>>

\* try_claim returns None: a duplicate, answered with 200 and nothing done.
Duplicate(w, m) ==
    /\ dedup
    /\ row[m] # "ABSENT" /\ ~(row[m] = "PROCESSING" /\ lease[m] = "expired")
    /\ Arrives(w)
    /\ acked' = acked \cup {m}
    /\ Fine
    /\ UNCHANGED <<mode, dedup, store, threads, memory, ai, queue, rq, alerts, leads, replies>>

\* The flag is off, or no claim can be had (no mid, store failure): the message is
\* kept and announced, and with the flag on it is not answered.
TakeUnclaimed(w, m) ==
    /\ Arrives(w)
    /\ IF dedup THEN Fault ELSE Fine
    /\ Enter(w, m, 0, dedup)
    /\ UNCHANGED <<mode, dedup, store, memory, ai, queue, rq, alerts>>

\* record_interaction.
Record(w) ==
    /\ pc[w] = "record"
    /\ \/ Create(msg[w]) /\ Goto(w, "complete") /\ Fine
       \/ CreateFails(msg[w]) /\ Goto(w, "queue_record") /\ Fault
    /\ UNCHANGED <<mode, dedup, store, memory, ai, queue, rq, alerts, replies, acked, requests>>

\* The retry queue takes the record over; if it cannot, the request fails with 500.
QueueRecord(w) ==
    /\ pc[w] = "queue_record"
    /\ \/ /\ Enqueue("record", msg[w])
          /\ Goto(w, "complete_queued")
          /\ Fine /\ UNCHANGED acked
       \/ /\ Leave(w, FALSE)
          /\ Fault /\ UNCHANGED queue
    /\ UNCHANGED <<mode, dedup, store, memory, ai, rq, alerts, leads, replies, requests>>

\* _complete_dm_event after the hand-over: whatever it answers, the message is done.
CompleteQueued(w) ==
    /\ pc[w] = "complete_queued"
    /\ \/ /\ row' = IF held[w] > 0 /\ Owns(w)
                    THEN [row EXCEPT ![msg[w]] = "COMPLETED"] ELSE row
          /\ Fine
       \/ held[w] > 0 /\ Fault /\ UNCHANGED row
    /\ Leave(w, TRUE)
    /\ UNCHANGED <<mode, dedup, token, lease, reply, memory, ai, queue, rq, alerts, leads,
                   replies, requests>>

\* _complete_dm_event after the record: a thread that lost its claim stops here;
\* one whose store failed goes on without answering.
Complete(w) ==
    /\ pc[w] = "complete"
    /\ \/ /\ held[w] = 0
          /\ Goto(w, "reply") /\ Fine /\ UNCHANGED <<row, acked>>
       \/ /\ held[w] > 0 /\ Owns(w)
          /\ row' = [row EXCEPT ![msg[w]] = "COMPLETED"]
          /\ Goto(w, "reply") /\ Fine /\ UNCHANGED acked
       \/ /\ held[w] > 0 /\ ~Owns(w)
          /\ Leave(w, TRUE) /\ Fine /\ UNCHANGED row
       \/ /\ held[w] > 0
          /\ pc' = [pc EXCEPT ![w] = "reply"]
          /\ quiet' = [quiet EXCEPT ![w] = TRUE]
          /\ Fault /\ UNCHANGED <<msg, held, row, acked>>
    /\ UNCHANGED <<mode, dedup, token, lease, reply, memory, ai, queue, rq, alerts, leads,
                   replies, requests>>

-----------------------------------------------------------------------------
(* handle_price_inquiry.                                                    *)

\* No reply: reply_hold, the account's policy (disabled, an order, no price asked,
\* blocked words, a recent reply, no base price, no contact), or ai_en without an
\* event or with the pool full.
NoReply(w) ==
    /\ pc[w] = "reply"
    /\ \/ quiet[w]
       \/ mode \in {"template", "persona", "handoff_en"}
       \/ mode = "ai_en" /\ (held[w] = 0 \/ permits = MaxPending)
    /\ Leave(w, TRUE)
    /\ Fine
    /\ UNCHANGED <<mode, dedup, store, memory, ai, queue, rq, alerts, leads, replies, requests>>

\* _dispatch_ai_en: take a permit, submit the job, answer the request.
DispatchAi(w) ==
    /\ pc[w] = "reply" /\ ~quiet[w]
    /\ mode = "ai_en" /\ held[w] > 0
    /\ permits < MaxPending
    /\ permits' = permits + 1
    /\ job' = [job EXCEPT ![msg[w]] = "queued"]
    /\ Leave(w, TRUE)
    /\ Fine
    /\ UNCHANGED <<mode, dedup, store, memory, aiLock, queue, rq, alerts, leads, replies,
                   requests>>

\* The slot is taken, or for English accounts the buyer is held.
SlotRefused(w) ==
    \/ Slot(msg[w]) \in slots
    \/ mode \in {"template_en", "handoff_en"} /\ hold

SkipBusy(w) ==
    /\ pc[w] = "reply" /\ ~quiet[w] /\ mode # "ai_en"
    /\ SlotRefused(w) \/ (mode = "handoff_en" /\ handoff)
    /\ Leave(w, TRUE)
    /\ Fine
    /\ UNCHANGED <<mode, dedup, store, memory, ai, queue, rq, alerts, leads, replies, requests>>

\* _try_reserve_template_en_slot and its siblings, one lock around check and write.
Reserve(w) ==
    /\ pc[w] = "reply" /\ ~quiet[w] /\ mode # "ai_en"
    /\ ~SlotRefused(w)
    /\ mode = "handoff_en" => ~handoff
    /\ slots' = slots \cup {Slot(msg[w])}
    /\ hold' = (hold /\ mode \notin {"template_en", "handoff_en"})
    /\ handoff' = (handoff \/ mode = "handoff_en")
    /\ Goto(w, IF held[w] > 0 THEN "start" ELSE "send")
    /\ Fine
    /\ UNCHANGED <<mode, dedup, store, ai, queue, rq, alerts, outside>>

\* _release_template_en_slot also forgets the 24-hour record.
Release(w) ==
    /\ slots' = slots \ {Slot(msg[w])}
    /\ handoff' = (handoff /\ mode \notin {"template_en", "handoff_en"})
    /\ UNCHANGED hold

\* The row is read and mark_effect_started claims the reply; whoever meets an
\* earlier attempt, a lost claim or a store failure gives the slot back.
StartReply(w) ==
    /\ pc[w] = "start"
    /\ \/ /\ reply[msg[w]] \notin {"STARTED", "UNKNOWN", "DONE"} /\ Owns(w)
          /\ SetReply(msg[w], "STARTED")
          /\ Goto(w, "send")
          /\ Fine /\ UNCHANGED <<memory, acked>>
       \/ /\ Release(w)
          /\ Leave(w, TRUE)
          /\ Fault /\ UNCHANGED reply
    /\ UNCHANGED <<mode, dedup, row, token, lease, ai, queue, rq, alerts, leads, replies,
                   requests>>

\* send_ig_reply.  With an event a doubtful outcome keeps the slot and is never
\* repeated; without one a 5xx counts as a failure, and an exception ends the request.
SendReply(w) ==
    /\ pc[w] = "send"
    /\ \/ /\ Deliver(msg[w]) /\ Fine
          /\ IF held[w] > 0 THEN Goto(w, "mark_done") /\ UNCHANGED acked ELSE Leave(w, TRUE)
          /\ UNCHANGED memory
       \/ /\ UNCHANGED replies /\ Fine
          /\ Goto(w, "queue_reply") /\ Release(w) /\ UNCHANGED acked
       \/ /\ InDoubt(msg[w]) /\ Fault
          /\ IF held[w] > 0
             THEN Goto(w, "doubt") /\ UNCHANGED <<memory, acked>>
             ELSE /\ Release(w)
                  /\ \/ Goto(w, "queue_reply") /\ UNCHANGED acked
                     \/ Leave(w, TRUE)
    /\ UNCHANGED <<mode, dedup, store, ai, queue, rq, alerts, leads, requests>>

\* mark_effect_done; a failure of the store is only logged.
MarkReplied(w) ==
    /\ pc[w] = "mark_done"
    /\ \/ SetReply(msg[w], IF Owns(w) THEN "DONE" ELSE reply[msg[w]]) /\ Fine
       \/ Fault /\ UNCHANGED reply
    /\ Leave(w, TRUE)
    /\ UNCHANGED <<mode, dedup, row, token, lease, memory, ai, queue, rq, alerts, leads,
                   replies, requests>>

\* mark_effect_unknown, the hold and the call for a manual review; after an
\* exception of the send a store failure skips the other two.
MarkDoubt(w) ==
    /\ pc[w] = "doubt"
    /\ \/ /\ SetReply(msg[w], IF Owns(w) THEN "UNKNOWN" ELSE reply[msg[w]])
          /\ hold' = TRUE
          /\ Tell(msg[w])
       \/ /\ Fault /\ UNCHANGED reply
          /\ \/ hold' = TRUE /\ told' = told \cup {msg[w]}
             \/ UNCHANGED <<hold, told>>
    /\ Leave(w, TRUE)
    /\ UNCHANGED <<mode, dedup, row, token, lease, slots, handoff, ai, queue, rq, deadAlert,
                   leads, replies, requests>>

\* The reply that was surely not sent goes to the retry queue.
QueueReply(w) ==
    /\ pc[w] = "queue_reply"
    /\ \/ Enqueue("reply", msg[w]) /\ Fine
       \/ Fault /\ UNCHANGED queue
    /\ Leave(w, TRUE)
    /\ UNCHANGED <<mode, dedup, store, memory, ai, rq, alerts, leads, replies, requests>>

-----------------------------------------------------------------------------
(* _ai_en_worker: jobs of one buyer run one at a time.                      *)

Step(m, label) == job' = [job EXCEPT ![m] = label]

Running == {m \in Messages : job[m] \notin {"none", "queued"}}

\* A thread of the pool takes the job.
AiTake(m) ==
    /\ job[m] = "queued"
    /\ Cardinality(Running) < PoolSize
    /\ Step(m, "waiting")
    /\ Fine
    /\ UNCHANGED <<mode, dedup, store, threads, memory, aiLock, permits, queue, rq, alerts, outside>>

\* Mutant: the lock is per message.
AiLock_PerMessage(m) ==
    /\ job[m] = "waiting"
    /\ aiLock' = m
    /\ Step(m, "begin")
    /\ Fine
    /\ UNCHANGED <<mode, dedup, store, threads, memory, permits, queue, rq, alerts, outside>>

\* _ai_key_lock.
AiLock(m) ==
    /\ job[m] = "waiting"
    /\ aiLock = Nobody
    /\ aiLock' = m
    /\ Step(m, "begin")
    /\ Fine
    /\ UNCHANGED <<mode, dedup, store, threads, memory, permits, queue, rq, alerts, outside>>

\* The hold, then the row's state, then try_begin_effect; a store failure ends the job.
AiBegin(m) ==
    /\ job[m] = "begin"
    /\ \/ ~hold /\ reply[m] = "NOT_APPLICABLE"
          /\ SetReply(m, "SENDING") /\ Step(m, "generate") /\ Fine
       \/ (hold \/ reply[m] # "NOT_APPLICABLE") /\ Step(m, "finish") /\ Fine /\ UNCHANGED reply
       \/ Step(m, "finish") /\ Fault /\ UNCHANGED reply
    /\ UNCHANGED <<mode, dedup, row, token, lease, threads, memory, aiLock, permits, queue, rq,
                   alerts, outside>>

\* generate_b2b_reply: a text; nothing new to say; or an exception on the way.
AiGenerate(m) ==
    /\ job[m] = "generate"
    /\ \/ Step(m, "send") /\ Fine /\ UNCHANGED reply
       \/ SetReply(m, "STARTED") /\ Step(m, "finish") /\ Fine
       \/ Step(m, "doubt") /\ Fault /\ UNCHANGED reply
    /\ UNCHANGED <<mode, dedup, row, token, lease, threads, memory, aiLock, permits, queue, rq,
                   alerts, outside>>

\* Mutant: the answer of send_ig_reply is not looked at.
AiSend_IgnoresAnswer(m) ==
    /\ job[m] = "send"
    /\ \/ Deliver(m) \/ UNCHANGED replies
    /\ Step(m, "mark_done") /\ Fine
    /\ UNCHANGED <<mode, dedup, store, threads, memory, aiLock, permits, queue, rq, alerts,
                   leads, acked, requests>>

\* send_ig_reply, with the text of the AI.
AiSend(m) ==
    /\ job[m] = "send"
    /\ \/ Deliver(m) /\ Step(m, "mark_done") /\ Fine
       \/ UNCHANGED replies /\ Step(m, "failed") /\ Fine
       \/ InDoubt(m) /\ Step(m, "doubt") /\ Fault
    /\ UNCHANGED <<mode, dedup, store, threads, memory, aiLock, permits, queue, rq, alerts,
                   leads, acked, requests>>

AiMarkDone(m) ==
    /\ job[m] = "mark_done"
    /\ \/ SetReply(m, "DONE") /\ Fine
       \/ Fault /\ UNCHANGED reply
    /\ Step(m, "finish")
    /\ UNCHANGED <<mode, dedup, row, token, lease, threads, memory, aiLock, permits, queue, rq,
                   alerts, outside>>

\* finish_effect_failed.
AiFailed(m) ==
    /\ job[m] = "failed"
    /\ \/ SetReply(m, "STARTED") /\ Step(m, "enqueue") /\ Fine
       \/ Step(m, "doubt") /\ Fault /\ UNCHANGED reply
    /\ UNCHANGED <<mode, dedup, row, token, lease, threads, memory, aiLock, permits, queue, rq,
                   alerts, outside>>

AiEnqueue(m) ==
    /\ job[m] = "enqueue"
    /\ \/ Enqueue("reply", m) /\ Step(m, "finish") /\ Fine
       \/ Step(m, "doubt") /\ Fault /\ UNCHANGED queue
    /\ UNCHANGED <<mode, dedup, store, threads, memory, aiLock, permits, rq, alerts, outside>>

\* _mark_unknown.
AiDoubt(m) ==
    /\ job[m] = "doubt"
    /\ \/ SetReply(m, "UNKNOWN") /\ Tell(m)
       \/ Fault /\ UNCHANGED <<reply, told>>
    /\ hold' = TRUE
    /\ Step(m, "finish")
    /\ UNCHANGED <<mode, dedup, row, token, lease, threads, slots, handoff, aiLock, permits,
                   queue, rq, deadAlert, outside>>

\* The lock is left and the permit returned, however the job ended.
AiFinish(m) ==
    /\ job[m] = "finish"
    /\ aiLock' = Nobody
    /\ permits' = permits - 1
    /\ Step(m, "none")
    /\ Fine
    /\ UNCHANGED <<mode, dedup, store, threads, memory, queue, rq, alerts, outside>>

-----------------------------------------------------------------------------
(* The RetryQueueWorker thread: _retry_send_ig_reply, _retry_record_interaction. *)

RqGoto(label) == rqPc' = label /\ UNCHANGED rqTask

RqTake(t) ==
    /\ rqPc = "idle"
    /\ taskStatus[t] = "pending"
    /\ rqTask' = t
    /\ rqPc' = IF taskKind[t] = "record" THEN "record" ELSE IF dedup THEN "check" ELSE "send"
    /\ Fine
    /\ UNCHANGED <<mode, dedup, store, threads, memory, ai, queue, alerts, outside>>

\* Mutant: a reply found SENDING is sent again.
RqCheck_ResendsSending ==
    /\ rqPc = "check"
    /\ LET m == taskMsg[rqTask] IN
       \/ reply[m] \in {"STARTED", "NOT_APPLICABLE", "SENDING"}
          /\ SetReply(m, "SENDING") /\ RqGoto("send") /\ Fine /\ UNCHANGED told
       \/ reply[m] \in {"DONE", "UNKNOWN"}
          /\ RqGoto("ok") /\ Fine /\ UNCHANGED <<reply, told>>
       \/ RqGoto("failure") /\ Fault /\ UNCHANGED <<reply, told>>
    /\ UNCHANGED <<mode, dedup, row, token, lease, threads, memory, ai, queue, deadAlert, outside>>

\* get_status and try_begin_effect: a reply that is DONE, UNKNOWN or SENDING is not
\* repeated, and one found SENDING is reported.
RqCheck ==
    /\ rqPc = "check"
    /\ LET m == taskMsg[rqTask] IN
       \/ reply[m] \in {"STARTED", "NOT_APPLICABLE"}
          /\ SetReply(m, "SENDING") /\ RqGoto("send") /\ Fine /\ UNCHANGED told
       \/ reply[m] \in {"DONE", "UNKNOWN"}
          /\ RqGoto("ok") /\ Fine /\ UNCHANGED <<reply, told>>
       \/ reply[m] = "SENDING"
          /\ Tell(m) /\ RqGoto("ok") /\ UNCHANGED reply
       \/ RqGoto("failure") /\ Fault /\ UNCHANGED <<reply, told>>
    /\ UNCHANGED <<mode, dedup, row, token, lease, threads, memory, ai, queue, deadAlert, outside>>

RqSend ==
    /\ rqPc = "send"
    /\ LET m == taskMsg[rqTask] IN
       \/ Deliver(m) /\ RqGoto(IF dedup THEN "mark_done" ELSE "ok") /\ Fine
       \/ UNCHANGED replies /\ RqGoto(IF dedup THEN "failed" ELSE "failure") /\ Fine
       \/ /\ InDoubt(m) /\ Fault
          /\ RqGoto("doubt") \/ RqGoto("doubt_raise")
          /\ dedup
       \/ InDoubt(m) /\ RqGoto("failure") /\ Fault /\ ~dedup
    /\ UNCHANGED <<mode, dedup, store, threads, memory, ai, queue, alerts, leads, acked, requests>>

RqMarkDone ==
    /\ rqPc = "mark_done"
    /\ \/ SetReply(taskMsg[rqTask], "DONE") /\ Fine
       \/ Fault /\ UNCHANGED reply
    /\ RqGoto("ok")
    /\ UNCHANGED <<mode, dedup, row, token, lease, threads, memory, ai, queue, alerts, outside>>

\* finish_effect_failed opens the row for the next attempt.
RqFailed ==
    /\ rqPc = "failed"
    /\ \/ SetReply(taskMsg[rqTask], "STARTED") /\ Fine
       \/ Fault /\ UNCHANGED reply
    /\ RqGoto("failure")
    /\ UNCHANGED <<mode, dedup, row, token, lease, threads, memory, ai, queue, alerts, outside>>

\* A 5xx answer ends the task, an exception leaves it to the queue; the row, once
\* UNKNOWN (or still SENDING when the store failed), stops the next attempt.
RqDoubt ==
    /\ rqPc \in {"doubt", "doubt_raise"}
    /\ \/ /\ SetReply(taskMsg[rqTask], "UNKNOWN")
          /\ hold' = TRUE
          /\ Tell(taskMsg[rqTask])
          /\ RqGoto(IF rqPc = "doubt" THEN "ok" ELSE "failure")
       \/ RqGoto("failure") /\ Fault /\ UNCHANGED <<reply, hold, told>>
    /\ UNCHANGED <<mode, dedup, row, token, lease, threads, slots, handoff, ai, queue,
                   deadAlert, outside>>

RqRecord ==
    /\ rqPc = "record"
    /\ \/ Create(taskMsg[rqTask]) /\ RqGoto("ok") /\ Fine
       \/ CreateFails(taskMsg[rqTask]) /\ RqGoto("failure") /\ Fault
    /\ UNCHANGED <<mode, dedup, store, threads, memory, ai, queue, alerts, replies, acked, requests>>

\* Mutant: one attempt too many.
RqEnd_OffByOne ==
    /\ rqPc \in {"ok", "failure"}
    /\ tries' = [tries EXCEPT ![rqTask] = @ + 1]
    /\ taskStatus' = [taskStatus EXCEPT ![rqTask] =
                         IF rqPc = "ok" THEN "done"
                         ELSE IF tries'[rqTask] > MaxAttempts THEN "dead" ELSE "pending"]
    /\ rqPc' = "idle" /\ rqTask' = Nobody
    /\ Fine
    /\ UNCHANGED <<mode, dedup, store, threads, memory, ai, taskKind, taskMsg, aged, alerts, outside>>

\* _execute writes the outcome of the attempt.
RqEnd ==
    /\ rqPc \in {"ok", "failure"}
    /\ tries' = [tries EXCEPT ![rqTask] = @ + 1]
    /\ taskStatus' = [taskStatus EXCEPT ![rqTask] =
                         IF rqPc = "ok" THEN "done"
                         ELSE IF tries'[rqTask] >= MaxAttempts THEN "dead" ELSE "pending"]
    /\ rqPc' = "idle" /\ rqTask' = Nobody
    /\ Fine
    /\ UNCHANGED <<mode, dedup, store, threads, memory, ai, taskKind, taskMsg, aged, alerts, outside>>

-----------------------------------------------------------------------------
(* dm_retry_dead_monitor. *)

\* A thread is at an attempt to answer the message.
InHand(m) == job[m] # "none" \/ (rqTask # Nobody /\ taskMsg[rqTask] = m)

\* Mutant: only effects left STARTED are looked for.
ReportStuck_Started(m) ==
    /\ reply[m] = "STARTED"
    /\ m \notin told
    /\ Tell(m)
    /\ UNCHANGED <<mode, dedup, store, threads, memory, ai, queue, rq, deadAlert, outside>>

\* check_stuck_sending: once per process, repeated until an alert is delivered, and
\* only for rows older than 180 seconds, longer than a live attempt takes.
ReportStuck(m) ==
    /\ reply[m] = "SENDING" /\ ~InHand(m)
    /\ m \notin told
    /\ Tell(m)
    /\ UNCHANGED <<mode, dedup, store, threads, memory, ai, queue, rq, deadAlert, outside>>

\* check_dead_dm_tasks, one task: try_claim_dead_alert, the alert, mark_dead_alert_sent.
\* Only tasks created since the program started are looked at.
ReportDead(t) ==
    /\ taskStatus[t] = "dead" /\ t \notin aged
    /\ deadAlert[t] # "SENT"
    /\ \/ /\ told' = told \cup {t}
          /\ deadAlert' = [deadAlert EXCEPT ![t] = "SENT"]
          /\ Fine
       \/ /\ told' \in {told, told \cup {t}}
          /\ deadAlert' = [deadAlert EXCEPT ![t] = "PENDING"]
          /\ Fault
    /\ UNCHANGED <<mode, dedup, store, threads, memory, ai, queue, rq, outside>>

-----------------------------------------------------------------------------
(* Time and restarts. *)

\* 60 seconds pass after the claim of a message.
LeaseExpires(m) ==
    /\ row[m] = "PROCESSING" /\ lease[m] = "live"
    /\ lease' = [lease EXCEPT ![m] = "expired"]
    /\ Fine
    /\ UNCHANGED <<mode, dedup, row, token, reply, threads, memory, ai, queue, rq, alerts, outside>>

\* The burst window, the hold of an hour or the day after a handoff ends.
WindowEnds ==
    /\ \/ \E s \in slots : slots' = slots \ {s} /\ UNCHANGED <<hold, handoff>>
       \/ hold /\ hold' = FALSE /\ UNCHANGED <<slots, handoff>>
       \/ handoff /\ handoff' = FALSE /\ UNCHANGED <<slots, hold>>
    /\ Fine
    /\ UNCHANGED <<mode, dedup, store, threads, ai, queue, rq, alerts, outside>>

\* The process dies and starts again: only the databases survive.
Restart ==
    /\ Fault
    /\ pc' = [w \in Requests |-> "idle"]
    /\ msg' = [w \in Requests |-> Nobody]
    /\ held' = [w \in Requests |-> 0]
    /\ quiet' = [w \in Requests |-> FALSE]
    /\ slots' = {} /\ hold' = FALSE /\ handoff' = FALSE
    /\ job' = [m \in Messages |-> "none"]
    /\ aiLock' = Nobody /\ permits' = 0
    /\ aged' = {t \in TaskIds : taskStatus[t] # "none"}
    /\ rqPc' = "idle" /\ rqTask' = Nobody
    /\ UNCHANGED <<mode, dedup, store, taskKind, taskMsg, tries, taskStatus, alerts, outside>>

Webhook(w) ==
    \/ \E m \in Messages : Claim(w, m) \/ Duplicate(w, m) \/ TakeUnclaimed(w, m)
    \/ Record(w) \/ QueueRecord(w) \/ CompleteQueued(w) \/ Complete(w)
    \/ NoReply(w) \/ DispatchAi(w) \/ SkipBusy(w) \/ Reserve(w)
    \/ StartReply(w) \/ SendReply(w) \/ MarkReplied(w) \/ MarkDoubt(w) \/ QueueReply(w)

AiJob(m) ==
    \/ AiTake(m) \/ AiLock(m) \/ AiBegin(m) \/ AiGenerate(m) \/ AiSend(m)
    \/ AiMarkDone(m) \/ AiFailed(m) \/ AiEnqueue(m) \/ AiDoubt(m) \/ AiFinish(m)

RetryWorker ==
    \/ \E t \in TaskIds : RqTake(t)
    \/ RqCheck \/ RqSend \/ RqMarkDone \/ RqFailed \/ RqDoubt \/ RqRecord \/ RqEnd

Monitor == (\E m \in Messages : ReportStuck(m)) \/ (\E t \in TaskIds : ReportDead(t))

Next ==
    \/ \E w \in Requests : Webhook(w)
    \/ \E m \in Messages : AiJob(m) \/ LeaseExpires(m)
    \/ RetryWorker
    \/ Monitor
    \/ WindowEnds
    \/ Restart

Spec == Init /\ [][Next]_vars

\* Every thread goes on, and the monitor's job runs again and again.
Fairness ==
    /\ WF_vars(\E m \in Messages : AiJob(m))
    /\ WF_vars(RetryWorker)
    /\ WF_vars(Monitor)

FairSpec == Spec /\ Fairness

-----------------------------------------------------------------------------
(* Properties. *)

TypeOK ==
    /\ mode \in Modes /\ dedup \in BOOLEAN
    /\ row \in [Messages -> {"ABSENT", "PROCESSING", "COMPLETED"}]
    /\ token \in [Messages -> Nat]
    /\ lease \in [Messages -> {"live", "expired"}]
    /\ reply \in [Messages -> {"NOT_APPLICABLE", "SENDING", "STARTED", "DONE", "UNKNOWN"}]
    /\ pc \in [Requests -> WebhookPc]
    /\ msg \in [Requests -> Messages \cup {Nobody}]
    /\ held \in [Requests -> Nat]
    /\ quiet \in [Requests -> BOOLEAN]
    /\ slots \subseteq Messages \cup {Buyer}
    /\ hold \in BOOLEAN /\ handoff \in BOOLEAN
    /\ job \in [Messages -> JobPc]
    /\ aiLock \in Messages \cup {Nobody}
    /\ permits \in 0 .. MaxPending
    /\ taskKind \in [TaskIds -> {"none", "record", "reply"}]
    /\ taskMsg \in [TaskIds -> Messages \cup {Nobody}]
    /\ tries \in [TaskIds -> 0 .. MaxAttempts]
    /\ taskStatus \in [TaskIds -> {"none", "pending", "done", "dead"}]
    /\ aged \subseteq TaskIds
    /\ rqPc \in RetryPc /\ rqTask \in TaskIds \cup {Nobody}
    /\ deadAlert \in [TaskIds -> {"none", "PENDING", "SENT"}]
    /\ told \subseteq Messages \cup TaskIds
    /\ leads \in [Messages -> Nat] /\ replies \in [Messages -> Nat]
    /\ acked \subseteq Messages
    /\ requests \in 0 .. MaxRequests
    /\ faults \in 0 .. MaxFaults

\* With DM_EVENT_DEDUP_ENABLED a message gets at most one automatic reply, whatever
\* is redelivered, retried, timed out or restarted.
OneReplyPerMessage == dedup => \A m \in Messages : replies[m] <= 1

\* A message is COMPLETED, so that no redelivery is looked at again, only when it is
\* in Airtable or the retry queue has it (_complete_dm_event); a reply the row calls
\* DONE was delivered, and one it calls NOT_APPLICABLE was not, so what the retry
\* handler decides from is true.
RowTellsTheTruth ==
    \A m \in Messages :
        /\ row[m] = "COMPLETED" =>
               \/ leads[m] > 0
               \/ \E t \in TaskIds : taskKind[t] = "record" /\ taskMsg[t] = m
        /\ dedup /\ reply[m] = "DONE" => replies[m] > 0
        /\ dedup /\ reply[m] = "NOT_APPLICABLE" => replies[m] = 0

\* The AI answers one message of a buyer at a time, so that each answer sees the last,
\* and every permit of _AI_PENDING belongs to a job that will give it back.
AiJobsAreOrderly ==
    /\ Cardinality({m \in Messages : job[m] \notin {"none", "queued", "waiting"}}) <= 1
    /\ permits = Cardinality({m \in Messages : job[m] # "none"})

\* A message the program answered with 200 is recorded, is queued to be, or is still
\* in the hands of a request.
AckedIsKept ==
    \A m \in acked :
        \/ leads[m] > 0
        \/ \E t \in TaskIds : taskKind[t] = "record" /\ taskMsg[t] = m
        \/ \E w \in Requests : msg[w] = m

\* What stops half way reaches an operator: a reply left SENDING, by whatever died in
\* between, is settled or shown, and a task that died in the life of the process that
\* created it is shown.
StoppedIsReported ==
    /\ \A m \in Messages : reply[m] = "SENDING" ~> reply[m] # "SENDING" \/ m \in told
    /\ \A t \in TaskIds :
           taskStatus[t] = "dead" /\ t \notin aged ~> t \in told \/ t \in aged
=============================================================================
