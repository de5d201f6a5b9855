-------------------------- MODULE LeadFollowUps --------------------------
(***************************************************************************)
(* A lead of Lead_Interactions from the direct message it was recorded     *)
(* with: the webhook thread scores it, marks an order or answers a price   *)
(* inquiry, a job sends three follow-ups a day apart, another gives the    *)
(* lead up, the retry queue repeats what failed.  Each of them reads the   *)
(* record and later overwrites bridge_status, unconditionally.             *)
(*                                                                         *)
(* The account answers in persona mode, the only one that schedules        *)
(* follow-ups.  One step is one Airtable call or one Graph call.           *)
(***************************************************************************)
EXTENDS Naturals, FiniteSets

CONSTANTS
    Leads,        \* records of Lead_Interactions
    TaskIds,      \* bound: ids of retry tasks
    Nobody,       \* no lead, no task
    MaxAttempts,  \* max_attempts of a retry task
    DryRun,       \* LOST_DRY_RUN
    MaxFaults     \* bound: failures of the environment in one behaviour

ASSUME ConstantsAssumption ==
    /\ Nobody \notin Leads \cup TaskIds
    /\ MaxAttempts \in Nat \ {0}
    /\ DryRun \in BOOLEAN
    /\ MaxFaults \in Nat

VARIABLES
    \* the record: bridge_status, relay_scheduled_at against the clock, lead_grade,
    \* whether account_code_ref is filled
    status, due, grade, account,
    order,     \* the message asks for a product (detect_order)
    pc,        \* the webhook thread of the lead's message
    \* process_due_followups: label, leads still to do, the status read, the lead in hand
    pollPc, batch, seen, current,
    lostBatch, \* process_lost_candidates: leads still to do
    taskKind, taskLead, taskArg, tries, taskStatus,   \* retry_tasks; the stage or the grade
    rqTask, rqOk,   \* the RetryQueueWorker thread: its task, the outcome of the handler
    \* outside: price replies delivered, follow-ups delivered by stage
    answered, sent, faults

record  == <<status, due, grade>>
origin  == <<account, order>>
poll    == <<pollPc, batch, seen, current>>
queue   == <<taskKind, taskLead, taskArg, tries, taskStatus>>
rq      == <<rqTask, rqOk>>
outside == <<answered, sent>>

vars == <<record, origin, pc, poll, lostBatch, queue, rq, outside, faults>>

\* STAGE_NEXT_STATUS: the stage a status waits for.
StageOf == [auto_replied |-> 1, followup1_sent |-> 2, followup2_sent |-> 3]
Stages == 1 .. 3
Waiting == DOMAIN StageOf
SentStatus == <<"followup1_sent", "followup2_sent", "followup3_sent">>

Statuses == Waiting \cup {"absent", "dm_received", "followup3_sent", "lost", "closed",
                          "converted", "followup_error"}

\* calc_score with its thresholds: 1 cold, 2 warm, 3 hot (0: not scored).  The
\* response delay is never passed.
GradeOf(isOrder, repeat) ==
    IF isOrder THEN 3 ELSE IF repeat THEN 2 ELSE 1

Init ==
    /\ status = [l \in Leads |-> "absent"]
    /\ due = [l \in Leads |-> "never"]
    /\ grade = [l \in Leads |-> 0]
    /\ account \in [Leads -> BOOLEAN]
    /\ order \in [Leads -> BOOLEAN]
    /\ pc = [l \in Leads |-> "none"]
    /\ pollPc = "idle" /\ batch = {} /\ current = Nobody
    /\ seen = [l \in Leads |-> "absent"]
    /\ lostBatch = {}
    /\ taskKind = [t \in TaskIds |-> "none"]
    /\ taskLead = [t \in TaskIds |-> Nobody]
    /\ taskArg = [t \in TaskIds |-> 0]
    /\ tries = [t \in TaskIds |-> 0]
    /\ taskStatus = [t \in TaskIds |-> "none"]
    /\ rqTask = Nobody /\ rqOk = FALSE
    /\ answered = {}
    /\ sent = [l \in Leads |-> [s \in Stages |-> 0]]
    /\ faults = 0

-----------------------------------------------------------------------------
(* Helpers. *)

Fault == faults < MaxFaults /\ faults' = faults + 1
Fine  == UNCHANGED faults

\* _patch_lead_interaction: the columns named are overwritten, whatever they were.
SetStatus(l, s) == status' = [status EXCEPT ![l] = s]
SetDue(l, d)    == due' = [due EXCEPT ![l] = d]

\* fetch_leads_due.
DueLeads(wanted) == {l \in Leads : status[l] \in wanted /\ due[l] = "past"}

Goto(l, label) == pc' = [pc EXCEPT ![l] = label]

Delivered(l, s) == sent' = [sent EXCEPT ![l][s] = @ + 1]

\* RetryQueue.enqueue.
Enqueue(kind, l, arg) ==
    \E t \in TaskIds :
        /\ taskStatus[t] = "none"
        /\ taskKind' = [taskKind EXCEPT ![t] = kind]
        /\ taskLead' = [taskLead EXCEPT ![t] = l]
        /\ taskArg' = [taskArg EXCEPT ![t] = arg]
        /\ taskStatus' = [taskStatus EXCEPT ![t] = "pending"]
        /\ UNCHANGED tries

-----------------------------------------------------------------------------
(* The webhook thread.                                                      *)

\* calc_score and update_lead_score, a column nobody else writes: a failure goes to the
\* retry queue.  The buyer may have other records (is_repeat_inquiry).
Score(l) ==
    \E repeat \in BOOLEAN :
        LET g == GradeOf(order[l], repeat) IN
        \/ grade' = [grade EXCEPT ![l] = g] /\ Fine /\ UNCHANGED queue
        \/ grade' \in {grade, [grade EXCEPT ![l] = g]} /\ Fault /\ Enqueue("score", l, g)

\* create_lead_interaction, whose relay_scheduled_at is the time of the message, and
\* the score.
Record(l) ==
    /\ status[l] = "absent"
    /\ SetStatus(l, "dm_received") /\ SetDue(l, "past")
    /\ Score(l)
    /\ Goto(l, IF order[l] THEN "convert" ELSE "answer")
    /\ UNCHANGED <<origin, poll, lostBatch, rq, outside>>

\* Mutant: a failed mark is only logged.
Convert_LogsOnly(l) ==
    /\ pc[l] = "convert"
    /\ Goto(l, "done")
    /\ \/ SetStatus(l, "converted") /\ Fine
       \/ Fault /\ UNCHANGED status
    /\ UNCHANGED <<due, grade, origin, poll, lostBatch, queue, rq, outside>>

\* handle_order_conversion; handle_price_inquiry leaves an order alone in this mode.
Convert(l) ==
    /\ pc[l] = "convert"
    /\ Goto(l, "done")
    /\ \/ SetStatus(l, "converted") /\ Fine /\ UNCHANGED queue
       \/ /\ SetStatus(l, "converted") \/ UNCHANGED status
          /\ Fault /\ Enqueue("convert", l, 0)
    /\ UNCHANGED <<due, grade, origin, poll, lostBatch, rq, outside>>

\* Mutant: the lead is updated whether or not the reply went out.
Answer_AlwaysUpdates(l) ==
    /\ pc[l] = "answer"
    /\ \/ answered' = answered \cup {l}
       \/ UNCHANGED answered
    /\ Goto(l, "replied")
    /\ Fine
    /\ UNCHANGED <<record, origin, poll, lostBatch, queue, rq, sent>>

\* handle_price_inquiry: no reply (not a price inquiry, blocked, recent, slot taken, no
\* base price), a failed one, which DirectMessages hands to the retry queue and which
\* never updates the lead, or a reply.
Answer(l) ==
    /\ pc[l] = "answer"
    /\ \/ answered' = answered \cup {l} /\ Goto(l, "replied")
       \/ UNCHANGED answered /\ Goto(l, "done")
    /\ Fine
    /\ UNCHANGED <<record, origin, poll, lostBatch, queue, rq, sent>>

\* update_lead_replied; an exception leaves handle_price_inquiry.
UpdateReplied(l) ==
    /\ pc[l] = "replied"
    /\ \/ SetStatus(l, "auto_replied") /\ Goto(l, "schedule") /\ Fine
       \/ /\ SetStatus(l, "auto_replied") \/ UNCHANGED status
          /\ Goto(l, "done") /\ Fault
    /\ UNCHANGED <<due, grade, origin, poll, lostBatch, queue, rq, outside>>

\* set_followup_schedule; a failure is logged.
Schedule(l) ==
    /\ pc[l] = "schedule"
    /\ \/ SetStatus(l, "auto_replied") /\ SetDue(l, "later") /\ Fine
       \/ Fault /\ UNCHANGED <<status, due>>
    /\ Goto(l, "done")
    /\ UNCHANGED <<grade, origin, poll, lostBatch, queue, rq, outside>>

-----------------------------------------------------------------------------
(* process_due_followups.                                                   *)

EndPoll ==
    /\ pollPc' = "idle" /\ batch' = {} /\ current' = Nobody
    /\ seen' = [l \in Leads |-> "absent"]

\* The lead is done; the loop goes on or ends.
NextLead(l) ==
    /\ batch' = batch \ {l}
    /\ current' = Nobody
    /\ pollPc' = IF batch' = {} THEN "idle" ELSE "next"
    /\ seen' = [seen EXCEPT ![l] = "absent"]

\* The run works on a snapshot.
FetchDue ==
    /\ pollPc = "idle"
    /\ LET found == DueLeads(Waiting) IN
       /\ found # {}
       /\ batch' = found
       /\ seen' = [l \in Leads |-> IF l \in found THEN status[l] ELSE "absent"]
    /\ pollPc' = "next"
    /\ Fine
    /\ UNCHANGED <<record, origin, pc, current, lostBatch, queue, rq, outside>>

\* Mutant: a record without account_code_ref is only skipped.
PollSkip_NoMark(l) ==
    /\ pollPc = "next" /\ l \in batch /\ ~account[l]
    /\ NextLead(l) /\ Fine
    /\ UNCHANGED <<record, origin, pc, lostBatch, queue, rq, outside>>

\* A record without account_code_ref is marked and skipped.
PollSkip(l) ==
    /\ pollPc = "next" /\ l \in batch /\ ~account[l]
    /\ \/ /\ SetStatus(l, "followup_error") /\ NextLead(l) /\ Fine
       \/ EndPoll /\ Fault /\ UNCHANGED status
    /\ UNCHANGED <<due, grade, origin, pc, lostBatch, queue, rq, outside>>

\* _send_ig_dm: sent; refused, for the retry queue; or an exception, which ends the run
\* with the record as it was, whether or not the message went out.
PollSend(l) ==
    /\ pollPc = "next" /\ l \in batch /\ account[l]
    /\ LET s == StageOf[seen[l]] IN
       \/ /\ Delivered(l, s)
          /\ pollPc' = "advance" /\ current' = l
          /\ Fine /\ UNCHANGED <<batch, seen, queue>>
       \/ /\ Enqueue("followup", l, s)
          /\ pollPc' = "mark_error" /\ current' = l
          /\ Fault /\ UNCHANGED <<batch, seen, sent>>
       \/ /\ Delivered(l, s) \/ UNCHANGED sent
          /\ EndPoll
          /\ Fault /\ UNCHANGED queue
    /\ UNCHANGED <<record, origin, pc, lostBatch, rq, answered>>

\* update_followup_status: the stage after the one that was read, and its time.
PollAdvance ==
    /\ pollPc = "advance"
    /\ LET s == SentStatus[StageOf[seen[current]]] IN
       \/ SetStatus(current, s) /\ SetDue(current, "later") /\ NextLead(current) /\ Fine
       \/ /\ \/ SetStatus(current, s) /\ SetDue(current, "later")
             \/ UNCHANGED <<status, due>>
          /\ EndPoll /\ Fault
    /\ UNCHANGED <<grade, origin, pc, lostBatch, queue, rq, outside>>

\* bridge_status = followup_error: no later run looks at the lead.
PollError ==
    /\ pollPc = "mark_error"
    /\ \/ SetStatus(current, "followup_error") /\ NextLead(current) /\ Fine
       \/ EndPoll /\ Fault /\ UNCHANGED status
    /\ UNCHANGED <<due, grade, origin, pc, lostBatch, queue, rq, outside>>

-----------------------------------------------------------------------------
(* process_lost_candidates.                                                 *)

LostFetch ==
    /\ lostBatch = {} /\ ~DryRun
    /\ lostBatch' = DueLeads({"followup3_sent"})
    /\ lostBatch' # {}
    /\ Fine
    /\ UNCHANGED <<record, origin, pc, poll, queue, rq, outside>>

\* mark_lost; an exception ends the run.
LostMark(l) ==
    /\ l \in lostBatch
    /\ \/ SetStatus(l, "lost") /\ lostBatch' = lostBatch \ {l} /\ Fine
       \/ lostBatch' = {} /\ Fault /\ UNCHANGED status
    /\ UNCHANGED <<due, grade, origin, pc, poll, queue, rq, outside>>

-----------------------------------------------------------------------------
(* The retry queue: _retry_followup, _retry_mark_converted,                 *)
(* _retry_update_lead_score.                                                *)

\* What the handler of a task does: it sends the text, or writes the columns.
Handle(t) ==
    LET l == taskLead[t] IN
    /\ sent' = IF taskKind[t] = "followup"
               THEN [sent EXCEPT ![l][taskArg[t]] = @ + 1] ELSE sent
    /\ status' = IF taskKind[t] = "convert" THEN [status EXCEPT ![l] = "converted"] ELSE status
    /\ grade' = IF taskKind[t] = "score" THEN [grade EXCEPT ![l] = taskArg[t]] ELSE grade

\* It may raise after its call was carried out.
RqRun(t) ==
    /\ rqTask = Nobody
    /\ taskStatus[t] = "pending"
    /\ rqTask' = t
    /\ \/ Handle(t) /\ rqOk' = TRUE /\ Fine
       \/ /\ Handle(t) \/ UNCHANGED <<sent, status, grade>>
          /\ rqOk' = FALSE /\ Fault
    /\ UNCHANGED <<due, origin, pc, poll, lostBatch, queue, answered>>

\* RetryQueue._execute writes the outcome of the attempt.
RqEnd ==
    /\ rqTask # Nobody
    /\ tries' = [tries EXCEPT ![rqTask] = @ + 1]
    /\ taskStatus' = [taskStatus EXCEPT ![rqTask] =
                         IF rqOk THEN "done"
                         ELSE IF tries'[rqTask] >= MaxAttempts THEN "dead" ELSE "pending"]
    /\ rqTask' = Nobody /\ rqOk' = FALSE
    /\ Fine
    /\ UNCHANGED <<record, origin, pc, poll, lostBatch, taskKind, taskLead, taskArg, outside>>

-----------------------------------------------------------------------------
(* The world. *)

\* The time of the next step comes.
TimePasses(l) ==
    /\ due[l] = "later"
    /\ SetDue(l, "past")
    /\ Fine
    /\ UNCHANGED <<status, grade, origin, pc, poll, lostBatch, queue, rq, outside>>

\* A person closes the deal in Airtable and clears the time.
Close(l) ==
    /\ status[l] \in Waiting \cup {"dm_received", "followup3_sent"}
    /\ SetStatus(l, "closed") /\ SetDue(l, "never")
    /\ Fault
    /\ UNCHANGED <<grade, origin, pc, poll, lostBatch, queue, rq, outside>>

\* The process dies and starts again; Airtable and retry_tasks survive.
Restart ==
    /\ Fault
    /\ pc' = [l \in Leads |-> IF pc[l] \in {"none", "done"} THEN pc[l] ELSE "died"]
    /\ EndPoll /\ lostBatch' = {}
    /\ rqTask' = Nobody /\ rqOk' = FALSE
    /\ UNCHANGED <<record, origin, queue, outside>>

Webhook(l) ==
    \/ Record(l) \/ Convert(l) \/ Answer(l) \/ UpdateReplied(l) \/ Schedule(l)

PollJob ==
    \/ FetchDue \/ PollAdvance \/ PollError
    \/ \E l \in Leads : PollSkip(l) \/ PollSend(l)

LostJob == LostFetch \/ \E l \in Leads : LostMark(l)

RetryWorker == RqEnd \/ \E t \in TaskIds : RqRun(t)

Next ==
    \/ \E l \in Leads : Webhook(l) \/ TimePasses(l) \/ Close(l)
    \/ PollJob
    \/ LostJob
    \/ RetryWorker
    \/ Restart

Spec == Init /\ [][Next]_vars

\* The job runs every five minutes, and time passes.
Fairness ==
    /\ WF_vars(PollJob)
    /\ \A l \in Leads : WF_vars(TimePasses(l))

FairSpec == Spec /\ Fairness

-----------------------------------------------------------------------------
(* Properties. *)

TypeOK ==
    /\ status \in [Leads -> Statuses]
    /\ due \in [Leads -> {"never", "later", "past"}]
    /\ grade \in [Leads -> 0 .. 3]
    /\ account \in [Leads -> BOOLEAN] /\ order \in [Leads -> BOOLEAN]
    /\ pc \in [Leads -> {"none", "convert", "answer", "replied", "schedule",
                         "done", "died"}]
    /\ pollPc \in {"idle", "next", "advance", "mark_error"}
    /\ batch \subseteq Leads /\ lostBatch \subseteq Leads
    /\ seen \in [Leads -> Statuses]
    /\ current \in Leads \cup {Nobody}
    /\ pollPc = "advance" => current \in Leads /\ seen[current] \in Waiting
    /\ taskKind \in [TaskIds -> {"none", "followup", "convert", "score"}]
    /\ taskLead \in [TaskIds -> Leads \cup {Nobody}]
    /\ taskArg \in [TaskIds -> 0 .. 3]
    /\ tries \in [TaskIds -> 0 .. MaxAttempts]
    /\ taskStatus \in [TaskIds -> {"none", "pending", "done", "dead"}]
    /\ rqTask \in TaskIds \cup {Nobody} /\ rqOk \in BOOLEAN
    /\ answered \subseteq Leads
    /\ sent \in [Leads -> [Stages -> Nat]]
    /\ faults \in 0 .. MaxFaults

\* Whoever writes over whom, a follow-up goes out only to a buyer whose price inquiry
\* was answered, never for an order and never after a reply that failed (Gate C); no
\* stage is skipped, and a lead is given up only after all three went out.
FollowUpsInOrder ==
    /\ TypeOK
    /\ \A l \in Leads :
        /\ (\E s \in Stages : sent[l][s] > 0) => l \in answered /\ ~order[l]
        /\ \A s \in Stages \ {1} : sent[l][s] > 0 => sent[l][s - 1] > 0
        /\ status[l] = "lost" => \A s \in Stages : sent[l][s] > 0

\* When the thread of a message that is an order or has a score is through, the record
\* says so or the retry queue has the write (ERR-086, ERR-088).
WritesAreKept ==
    \A l \in Leads : pc[l] = "done" =>
        /\ order[l] => \/ status[l] \in {"converted", "closed"}
                       \/ \E t \in TaskIds : taskKind[t] = "convert" /\ taskLead[t] = l
        /\ \/ grade[l] # 0
           \/ \E t \in TaskIds : taskKind[t] = "score" /\ taskLead[t] = l

\* A lead with a follow-up to come does not stay half way, whatever fails: the three go
\* out, or it ends in error or is closed by a person.
Planned(l) == status[l] \in Waiting /\ due[l] # "never"
FollowUpsEnd == \A l \in Leads : Planned(l) ~> ~Planned(l)
=============================================================================
