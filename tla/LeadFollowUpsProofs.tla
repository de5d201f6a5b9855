------------------------- MODULE LeadFollowUpsProofs -------------------------
(***************************************************************************)
(* What the followed-up leads are promised, for any number of leads, retry *)
(* tasks and failures.  Everyone who writes a record writes from what it   *)
(* read earlier, so the record alone proves nothing.  The invariant says   *)
(* of every place where a stage is remembered - the record, the snapshot   *)
(* of the polling job, the batch of the job that gives leads up, a task of *)
(* the retry queue - that the stages before it really went out.  What went *)
(* out stays out, so no stale reader can be wrong about it.                *)
(***************************************************************************)
EXTENDS LeadFollowUps, TLAPS

\* Stage s is the lead's turn or past: the buyer was answered, the message is no order,
\* and every stage before s went out.
Ready(l, s) ==
    /\ l \in answered /\ ~order[l]
    /\ \A k \in Stages : k < s => sent[l][k] > 0

\* A task is what it was enqueued as; only a pending one runs, and it has attempts left.
TaskOk(t) ==
    /\ taskKind[t] # "none" <=> taskStatus[t] # "none"
    /\ taskKind[t] # "none" => taskLead[t] \in Leads
    /\ taskKind[t] \in {"followup", "score"} => taskArg[t] \in 1 .. 3
    /\ taskStatus[t] \in {"none", "pending"} => tries[t] < MaxAttempts
    /\ taskKind[t] = "followup" => Ready(taskLead[t], taskArg[t])

QueueInv ==
    /\ \A t \in TaskIds : TaskOk(t)
    /\ rqTask # Nobody => taskStatus[rqTask] = "pending"

\* What the record of a lead, its thread and the two jobs believe of it is true.
Believed(l) ==
    /\ \A s \in Stages : sent[l][s] > 0 => Ready(l, s)
    /\ status[l] \in Waiting => Ready(l, StageOf[status[l]])
    /\ status[l] \in {"followup3_sent", "lost"} => Ready(l, 4)
    /\ l \in batch => seen[l] \in Waiting /\ Ready(l, StageOf[seen[l]])
    /\ l \in lostBatch => Ready(l, 4)
    /\ pc[l] \in {"replied", "schedule"} => Ready(l, 1)
    /\ pc[l] = "answer" => ~order[l]

\* The lead in hand is one of the batch, and its stage has gone out.
HandInv ==
    /\ pollPc \in {"advance", "mark_error"} => current \in batch
    /\ pollPc = "advance" => Ready(current, StageOf[seen[current]] + 1)

StageInv == TypeOK /\ QueueInv /\ (\A l \in Leads : Believed(l)) /\ HandInv

\* The queue holds a write of this kind for the lead.
InQueue(kind, l) == \E t \in TaskIds : taskKind[t] = kind /\ taskLead[t] = l

\* An order is touched by nobody but its thread, the queue and a person.
Written(l) ==
    /\ pc[l] # "none" => grade[l] # 0 \/ InQueue("score", l)
    /\ order[l] => /\ status[l] \in {"absent", "dm_received", "converted", "closed"}
                   /\ pc[l] \in {"none", "convert", "done", "died"}
    /\ order[l] /\ pc[l] = "done" =>
           status[l] \in {"converted", "closed"} \/ InQueue("convert", l)

LeadInv == StageInv /\ \A l \in Leads : Written(l)

-----------------------------------------------------------------------------
(* The stages, and what a delivery does to the counts.                      *)

LEMMA StageFacts ==
    /\ Waiting = {"auto_replied", "followup1_sent", "followup2_sent"}
    /\ StageOf["auto_replied"] = 1
    /\ StageOf["followup1_sent"] = 2
    /\ StageOf["followup2_sent"] = 3
    /\ SentStatus[1] = "followup1_sent"
    /\ SentStatus[2] = "followup2_sent"
    /\ SentStatus[3] = "followup3_sent"
    /\ Stages = 1 .. 3
    /\ Waiting \subseteq Statuses
BY DEF Waiting, StageOf, SentStatus, Stages, Statuses

LEMMA StageOfType ==
    ASSUME NEW s \in Waiting
    PROVE  /\ StageOf[s] \in Stages
           /\ SentStatus[StageOf[s]] \in Statuses
           /\ SentStatus[StageOf[s]] \in Waiting =>
                  StageOf[SentStatus[StageOf[s]]] = StageOf[s] + 1
           /\ SentStatus[StageOf[s]] = "followup3_sent" => StageOf[s] = 3
           /\ SentStatus[StageOf[s]] # "lost"
           /\ SentStatus[StageOf[s]] # "absent"
BY StageFacts DEF Statuses

LEMMA CountUp ==
    ASSUME NEW f \in [Leads -> [Stages -> Nat]], NEW l \in Leads, NEW s \in Stages,
           NEW g, g = [f EXCEPT ![l][s] = @ + 1]
    PROVE  /\ g \in [Leads -> [Stages -> Nat]]
           /\ \A m \in Leads, k \in Stages :
                  g[m][k] = IF m = l /\ k = s THEN f[m][k] + 1 ELSE f[m][k]
<1> DEFINE h == [f[l] EXCEPT ![s] = @ + 1]
<1>1. f[l] \in [Stages -> Nat]
  OBVIOUS
<1>2. h \in [Stages -> Nat]
  BY <1>1
<1>3. g = [f EXCEPT ![l] = h]
  OBVIOUS
<1>4. \A k \in Stages : h[k] = IF k = s THEN f[l][k] + 1 ELSE f[l][k]
  BY <1>1
<1> QED
  BY <1>2, <1>3, <1>4

LEMMA InitLead == Init => LeadInv
<1> SUFFICES ASSUME Init PROVE LeadInv
  OBVIOUS
<1>1. faults \in 0 .. MaxFaults /\ tries \in [TaskIds -> 0 .. MaxAttempts]
  BY ConstantsAssumption DEF Init
<1>2. sent \in [Leads -> [Stages -> Nat]] /\ grade \in [Leads -> 0 .. 3]
      /\ taskArg \in [TaskIds -> 0 .. 3]
  BY DEF Init
<1>3. /\ status \in [Leads -> Statuses] /\ seen \in [Leads -> Statuses]
      /\ due \in [Leads -> {"never", "later", "past"}]
      /\ pc \in [Leads -> {"none", "convert", "answer", "replied", "schedule",
                           "done", "died"}]
  BY DEF Init, Statuses
<1>4. TypeOK
  BY <1>1, <1>2, <1>3 DEF Init, TypeOK
<1>5. QueueInv
  BY ConstantsAssumption DEF Init, QueueInv, TaskOk
<1>6. ASSUME NEW l \in Leads PROVE Believed(l) /\ Written(l)
  <2>1. \A s \in Stages : ~(sent[l][s] > 0)
    BY DEF Init
  <2>2. status[l] = "absent" /\ pc[l] = "none" /\ l \notin batch /\ l \notin lostBatch
    BY DEF Init
  <2> QED
    BY <2>1, <2>2, StageFacts DEF Believed, Written
<1>7. HandInv
  BY DEF Init, HandInv
<1> QED
  BY <1>4, <1>5, <1>6, <1>7 DEF LeadInv, StageInv

-----------------------------------------------------------------------------
(* Types. *)

LEMMA FaultType ==
    ASSUME faults \in 0 .. MaxFaults, Fine \/ Fault
    PROVE  faults' \in 0 .. MaxFaults
BY ConstantsAssumption DEF Fine, Fault

\* What Enqueue does to the queue.
LEMMA EnqueueType ==
    ASSUME TypeOK, NEW kind \in {"followup", "convert", "score"}, NEW l \in Leads,
           NEW arg \in 0 .. 3, Enqueue(kind, l, arg)
    PROVE  /\ taskKind' \in [TaskIds -> {"none", "followup", "convert", "score"}]
           /\ taskLead' \in [TaskIds -> Leads \cup {Nobody}]
           /\ taskArg' \in [TaskIds -> 0 .. 3]
           /\ tries' \in [TaskIds -> 0 .. MaxAttempts]
           /\ taskStatus' \in [TaskIds -> {"none", "pending", "done", "dead"}]
BY DEF TypeOK, Enqueue

\* Every step counts its failure, or is no failure.
LEMMA FaultsCounted == Next => Fine \/ Fault
BY DEF Next, Webhook, PollJob, LostJob, RetryWorker, Record, Score, Convert, Answer,
       UpdateReplied, Schedule, FetchDue, PollSkip, PollSend, PollAdvance, PollError,
       LostFetch, LostMark, RqRun, RqEnd, TimePasses, Close, Restart, Fine, Fault

LEMMA QueueType ==
    ASSUME StageInv, Next
    PROVE  /\ taskKind' \in [TaskIds -> {"none", "followup", "convert", "score"}]
           /\ taskLead' \in [TaskIds -> Leads \cup {Nobody}]
           /\ taskArg' \in [TaskIds -> 0 .. 3]
           /\ tries' \in [TaskIds -> 0 .. MaxAttempts]
           /\ taskStatus' \in [TaskIds -> {"none", "pending", "done", "dead"}]
<1> DEFINE Typed == /\ taskKind' \in [TaskIds -> {"none", "followup", "convert", "score"}]
                    /\ taskLead' \in [TaskIds -> Leads \cup {Nobody}]
                    /\ taskArg' \in [TaskIds -> 0 .. 3]
                    /\ tries' \in [TaskIds -> 0 .. MaxAttempts]
                    /\ taskStatus' \in [TaskIds -> {"none", "pending", "done", "dead"}]
<1>1. TypeOK
  BY DEF StageInv
<1>2. CASE UNCHANGED queue
  BY <1>1, <1>2 DEF TypeOK, queue
<1>3. ASSUME NEW l \in Leads, Record(l) PROVE Typed
  <2>1. GradeOf(order[l], TRUE) \in 0 .. 3 /\ GradeOf(order[l], FALSE) \in 0 .. 3
    BY DEF GradeOf
  <2>2. UNCHANGED queue \/ \E repeat \in BOOLEAN : Enqueue("score", l, GradeOf(order[l], repeat))
    BY <1>3 DEF Record, Score
  <2> QED
    BY <1>1, <1>2, <2>1, <2>2, EnqueueType
<1>4. ASSUME NEW l \in Leads, Convert(l) PROVE Typed
  <2>1. 0 \in 0 .. 3
    OBVIOUS
  <2> QED
    BY <1>1, <1>2, <1>4, <2>1, EnqueueType DEF Convert
<1>5. ASSUME NEW l \in Leads, PollSend(l) PROVE Typed
  <2>1. StageOf[seen[l]] \in 0 .. 3
    BY <1>5, StageOfType, StageFacts DEF StageInv, Believed, PollSend
  <2> QED
    BY <1>1, <1>2, <1>5, <2>1, EnqueueType DEF PollSend
<1>6. CASE RqEnd
  <2>1. rqTask \in TaskIds /\ tries[rqTask] \in 0 .. MaxAttempts /\ tries[rqTask] < MaxAttempts
    BY <1>1, <1>6 DEF TypeOK, RqEnd, StageInv, QueueInv, TaskOk
  <2>2. tries[rqTask] + 1 \in 0 .. MaxAttempts
    BY <2>1, ConstantsAssumption
  <2> QED
    BY <1>1, <1>6, <2>1, <2>2 DEF TypeOK, RqEnd
<1>7. CASE ~RqEnd /\ ~(\E l \in Leads : Record(l) \/ Convert(l) \/ PollSend(l))
  <2>1. UNCHANGED queue
    BY <1>7 DEF Next, Webhook, PollJob, LostJob, RetryWorker, Answer,
       UpdateReplied, Schedule, FetchDue, PollSkip, PollAdvance, PollError,
       LostFetch, LostMark, RqRun, TimePasses, Close, Restart
  <2> QED
    BY <1>2, <2>1
<1> QED
  BY <1>3, <1>4, <1>5, <1>6, <1>7

-----------------------------------------------------------------------------
(* What went out stays out.                                                 *)

\* A delivery, or none; what is counted is only counted up.
LEMMA SentStep ==
    ASSUME LeadInv, Next
    PROVE  UNCHANGED sent \/ \E l \in Leads, s \in Stages : Delivered(l, s) /\ Ready(l, s)
<1>0. TypeOK /\ StageInv
  BY DEF LeadInv, StageInv
<1>1. CASE RetryWorker
  BY <1>0, <1>1, StageFacts DEF RetryWorker, RqEnd, RqRun, Handle, Delivered, TypeOK, outside,
     StageInv, QueueInv, TaskOk
<1>2. CASE PollJob
  <2>1. \A l \in batch : StageOf[seen[l]] \in Stages /\ Ready(l, StageOf[seen[l]])
    BY <1>0, StageOfType DEF StageInv, Believed, TypeOK
  <2> QED
    BY <1>2, <2>1 DEF PollJob, FetchDue, PollAdvance, PollError, PollSkip, PollSend, outside
<1>3. CASE ~RetryWorker /\ ~PollJob
  BY <1>3 DEF Next, Webhook, LostJob, Record, Convert, Answer, UpdateReplied, Schedule,
       LostFetch, LostMark, TimePasses, Close, Restart, outside
<1> QED
  BY <1>1, <1>2, <1>3

LEMMA LeadTypeNext == LeadInv /\ Next => TypeOK'
<1> SUFFICES ASSUME LeadInv, Next PROVE TypeOK'
  OBVIOUS
<1>0. TypeOK /\ StageInv
  BY DEF LeadInv, StageInv
<1>1. faults' \in 0 .. MaxFaults
  BY <1>0, FaultsCounted, FaultType DEF TypeOK
<1>2. current \in batch => /\ StageOf[seen[current]] \in Stages
                           /\ SentStatus[StageOf[seen[current]]] \in Statuses
  BY <1>0, StageOfType DEF TypeOK, StageInv, Believed
<1>3. status' \in [Leads -> Statuses] /\ due' \in [Leads -> {"never", "later", "past"}]
  <2>1. PollAdvance => SentStatus[StageOf[seen[current]]] \in Statuses
    BY <1>0, <1>2 DEF StageInv, HandInv, PollAdvance
  <2>2. \/ UNCHANGED status
        \/ \E l \in Leads : \E s \in Statuses : status' = [status EXCEPT ![l] = s]
    <3>1. {"dm_received", "auto_replied", "converted", "closed", "lost", "followup_error"}
              \subseteq Statuses
      BY StageFacts DEF Statuses
    <3>2. CASE RetryWorker
      <4>1. ASSUME NEW t \in TaskIds, RqRun(t)
            PROVE  \/ UNCHANGED status
                   \/ /\ taskLead[t] \in Leads
                      /\ status' = [status EXCEPT ![taskLead[t]] = "converted"]
        BY <1>0, <4>1 DEF RqRun, Handle, TypeOK, StageInv, QueueInv, TaskOk
      <4> QED
        BY <3>1, <3>2, <4>1 DEF RetryWorker, RqEnd, record
    <3>3. CASE PollJob
      <4>1. PollAdvance \/ PollError => current \in Leads
        BY <1>0 DEF StageInv, HandInv, TypeOK, PollAdvance, PollError
      <4> QED
        BY <1>0, <2>1, <3>1, <3>3, <4>1 DEF PollJob, FetchDue, PollAdvance, PollError, PollSkip, PollSend,
           SetStatus, record, StageInv, HandInv
    <3>4. CASE ~RetryWorker /\ ~PollJob
      BY <3>1, <3>4 DEF Next, Webhook, LostJob, Record, Convert, Answer,
         UpdateReplied, Schedule, LostFetch, LostMark, TimePasses, Close, Restart,
         record, SetStatus
    <3> QED
      BY <3>2, <3>3, <3>4
  <2>3. \/ UNCHANGED due
        \/ \E l \in Leads : \E d \in {"never", "later", "past"} : due' = [due EXCEPT ![l] = d]
    <3>1. PollAdvance => current \in Leads
      BY <1>0 DEF StageInv, HandInv, TypeOK, PollAdvance
    <3> QED
      BY <3>1 DEF Next, Webhook, PollJob, LostJob, RetryWorker, Record, Convert, Answer,
       UpdateReplied, Schedule, FetchDue, PollSkip, PollSend, PollAdvance, PollError,
       LostFetch, LostMark, RqRun, RqEnd, TimePasses, Close, Restart, record, SetDue
  <2> QED
    BY <1>0, <2>2, <2>3 DEF TypeOK
<1>4. grade' \in [Leads -> 0 .. 3]
  <2>1. \A l \in Leads : GradeOf(order[l], TRUE) \in 0 .. 3 /\ GradeOf(order[l], FALSE) \in 0 .. 3
    BY DEF GradeOf
  <2>2. \/ UNCHANGED grade
        \/ \E l \in Leads : \E g \in 0 .. 3 : grade' = [grade EXCEPT ![l] = g]
    <3>1. CASE RetryWorker
      BY <1>0, <3>1 DEF RetryWorker, RqEnd, RqRun, Handle, TypeOK, record, StageInv,
           QueueInv, TaskOk
    <3>2. CASE \E l \in Leads : Record(l)
      BY <2>1, <3>2 DEF Record, Score
    <3>3. CASE ~RetryWorker /\ ~(\E l \in Leads : Record(l))
      BY <3>3 DEF Next, Webhook, PollJob, LostJob, Convert, Answer,
       UpdateReplied, Schedule, FetchDue, PollSkip, PollSend, PollAdvance, PollError,
       LostFetch, LostMark, TimePasses, Close, Restart, record
    <3> QED
      BY <3>1, <3>2, <3>3
  <2> QED
    BY <1>0, <2>2 DEF TypeOK
<1>5. UNCHANGED origin
  BY DEF Next, Webhook, PollJob, LostJob, RetryWorker, Record, Convert, Answer,
       UpdateReplied, Schedule, FetchDue, PollSkip, PollSend, PollAdvance, PollError,
       LostFetch, LostMark, RqRun, RqEnd, TimePasses, Close, Restart
<1>6. pc' \in [Leads -> {"none", "convert", "answer", "replied", "schedule",
                         "done", "died"}]
  <2>1. CASE Restart
    BY <1>0, <2>1 DEF Restart, TypeOK
  <2>2. CASE ~Restart
    <3>1. \/ UNCHANGED pc
          \/ \E l \in Leads : \E p \in {"convert", "answer", "replied", "schedule", "done"} :
                 pc' = [pc EXCEPT ![l] = p]
      BY <2>2 DEF Next, Webhook, PollJob, LostJob, RetryWorker, Record, Convert, Answer,
       UpdateReplied, Schedule, FetchDue, PollSkip, PollSend, PollAdvance, PollError,
       LostFetch, LostMark, RqRun, RqEnd, TimePasses, Close, Goto
    <3> QED
      BY <1>0, <3>1 DEF TypeOK
  <2> QED
    BY <2>1, <2>2
<1>7. /\ pollPc' \in {"idle", "next", "advance", "mark_error"}
      /\ batch' \subseteq Leads /\ lostBatch' \subseteq Leads
      /\ seen' \in [Leads -> Statuses]
      /\ current' \in Leads \cup {Nobody}
  <2>1. "absent" \in Statuses
    BY DEF Statuses
  <2>2. pollPc' \in {"idle", "next", "advance", "mark_error"}
    BY <1>0 DEF Next, Webhook, PollJob, LostJob, RetryWorker, Record, Convert, Answer,
       UpdateReplied, Schedule, FetchDue, PollSkip, PollSend, PollAdvance, PollError,
       LostFetch, LostMark, RqRun, RqEnd, TimePasses, Close, Restart, EndPoll, NextLead,
       poll, TypeOK
  <2>3. batch' \subseteq Leads /\ lostBatch' \subseteq Leads
    BY <1>0 DEF Next, Webhook, PollJob, LostJob, RetryWorker, Record, Convert, Answer,
       UpdateReplied, Schedule, FetchDue, PollSkip, PollSend, PollAdvance, PollError,
       LostFetch, LostMark, RqRun, RqEnd, TimePasses, Close, Restart, EndPoll, NextLead,
       poll, TypeOK, DueLeads
  <2>4. current' \in Leads \cup {Nobody}
    BY <1>0 DEF Next, Webhook, PollJob, LostJob, RetryWorker, Record, Convert, Answer,
       UpdateReplied, Schedule, FetchDue, PollSkip, PollSend, PollAdvance, PollError,
       LostFetch, LostMark, RqRun, RqEnd, TimePasses, Close, Restart, EndPoll, NextLead,
       poll, TypeOK
  <2>5. seen' \in [Leads -> Statuses]
    <3>1. CASE FetchDue
      BY <1>0, <2>1, <3>1 DEF FetchDue, TypeOK
    <3>2. CASE EndPoll
      BY <2>1, <3>2 DEF EndPoll
    <3>3. ASSUME NEW l \in Leads, NextLead(l) PROVE seen' \in [Leads -> Statuses]
      BY <1>0, <2>1, <3>3 DEF NextLead, TypeOK
    <3>4. PollAdvance \/ PollError => current \in Leads
      BY <1>0 DEF StageInv, HandInv, TypeOK, PollAdvance, PollError
    <3>5. FetchDue \/ EndPoll \/ UNCHANGED seen \/ \E l \in Leads : NextLead(l)
      BY <3>4 DEF Next, Webhook, PollJob, LostJob, RetryWorker, Record, Convert, Answer,
       UpdateReplied, Schedule, PollSkip, PollSend, PollAdvance, PollError,
       LostFetch, LostMark, RqRun, RqEnd, TimePasses, Close, Restart, poll
    <3> QED
      BY <1>0, <3>1, <3>2, <3>3, <3>5 DEF TypeOK
  <2> QED
    BY <2>2, <2>3, <2>4, <2>5
<1>8. rqTask' \in TaskIds \cup {Nobody} /\ rqOk' \in BOOLEAN
  BY <1>0 DEF Next, Webhook, PollJob, LostJob, RetryWorker, Record, Convert, Answer,
       UpdateReplied, Schedule, FetchDue, PollSkip, PollSend, PollAdvance, PollError,
       LostFetch, LostMark, RqRun, RqEnd, TimePasses, Close, Restart, rq, TypeOK
<1>9. answered' \subseteq Leads
  BY <1>0 DEF Next, Webhook, PollJob, LostJob, RetryWorker, Record, Convert, Answer,
       UpdateReplied, Schedule, FetchDue, PollSkip, PollSend, PollAdvance, PollError,
       LostFetch, LostMark, RqRun, RqEnd, TimePasses, Close, Restart, outside, TypeOK
<1>10. sent' \in [Leads -> [Stages -> Nat]]
  <2>1. ASSUME NEW l \in Leads, NEW s \in Stages, Delivered(l, s)
        PROVE  sent' \in [Leads -> [Stages -> Nat]]
    BY <1>0, <2>1, CountUp DEF Delivered, TypeOK
  <2> QED
    BY <1>0, <2>1, SentStep DEF TypeOK
<1>11. pollPc' = "advance" => current' \in Leads /\ seen'[current'] \in Waiting
  <2>1. ASSUME pollPc' = "advance", NEW l \in Leads, PollSend(l)
        PROVE  current' \in Leads /\ seen'[current'] \in Waiting
    BY <1>0, <2>1 DEF PollSend, EndPoll, StageInv, Believed
  <2>2. ASSUME pollPc' = "advance", ~(\E l \in Leads : PollSend(l))
        PROVE  UNCHANGED poll
    BY <2>2 DEF Next, Webhook, PollJob, LostJob, RetryWorker, Record, Convert, Answer,
       UpdateReplied, Schedule, FetchDue, PollSkip, PollAdvance, PollError,
       LostFetch, LostMark, RqRun, RqEnd, TimePasses, Close, Restart, EndPoll, NextLead, poll
  <2> QED
    BY <1>0, <2>1, <2>2 DEF poll, TypeOK
<1> QED
  BY <1>0, <1>1, <1>3, <1>4, <1>5, <1>6, <1>7, <1>8, <1>9, <1>10, <1>11, QueueType
     DEF TypeOK, origin

LEMMA SentStays ==
    ASSUME LeadInv, Next, NEW l \in Leads, NEW s \in Stages, sent[l][s] > 0
    PROVE  sent'[l][s] > 0
<1>1. sent \in [Leads -> [Stages -> Nat]] /\ sent[l][s] \in Nat
  BY DEF LeadInv, StageInv, TypeOK
<1>2. CASE UNCHANGED sent
  BY <1>2
<1>3. ASSUME NEW m \in Leads, NEW k \in Stages, Delivered(m, k) PROVE sent'[l][s] > 0
  <2>1. sent'[l][s] = IF l = m /\ s = k THEN sent[l][s] + 1 ELSE sent[l][s]
    BY <1>1, <1>3, CountUp DEF Delivered
  <2> QED
    BY <1>1, <2>1
<1> QED
  BY <1>2, <1>3, SentStep

\* So a lead that is ready for a stage stays ready for it.
LEMMA ReadyStays ==
    ASSUME LeadInv, Next, NEW l \in Leads, NEW s, Ready(l, s)
    PROVE  Ready(l, s)'
<1>1. answered \subseteq answered'
  BY DEF Next, Webhook, PollJob, LostJob, RetryWorker, Record, Convert, Answer,
       UpdateReplied, Schedule, FetchDue, PollSkip, PollSend, PollAdvance, PollError,
       LostFetch, LostMark, RqRun, RqEnd, TimePasses, Close, Restart, outside
<1>2. UNCHANGED order
  BY DEF Next, Webhook, PollJob, LostJob, RetryWorker, Record, Convert, Answer,
       UpdateReplied, Schedule, FetchDue, PollSkip, PollSend, PollAdvance, PollError,
       LostFetch, LostMark, RqRun, RqEnd, TimePasses, Close, Restart, origin
<1> QED
  BY <1>1, <1>2, SentStays DEF Ready

\* The stage just sent was the lead's turn, so the next one is.
LEMMA DeliveredReady ==
    ASSUME LeadInv, Next, NEW l \in Leads, NEW s \in Stages, Delivered(l, s), Ready(l, s)
    PROVE  Ready(l, s + 1)'
<1>1. Ready(l, s)'
  BY ReadyStays
<1>2. sent'[l][s] > 0
  BY CountUp DEF LeadInv, StageInv, TypeOK, Delivered
<1>3. \A k \in Stages : k < s + 1 => k < s \/ k = s
  BY StageFacts
<1> QED
  BY <1>1, <1>2, <1>3 DEF Ready

\* No stage is skipped.
LEMMA SentReadyNext ==
    ASSUME LeadInv, Next, NEW l \in Leads, NEW s \in Stages, sent'[l][s] > 0
    PROVE  Ready(l, s)'
<1>1. sent \in [Leads -> [Stages -> Nat]] /\ (sent[l][s] > 0 => Ready(l, s))
  BY DEF LeadInv, StageInv, TypeOK, Believed
<1>2. CASE UNCHANGED sent
  BY <1>1, <1>2, ReadyStays
<1>3. ASSUME NEW m \in Leads, NEW k \in Stages, Delivered(m, k), Ready(m, k)
      PROVE  Ready(l, s)'
  <2>1. sent'[l][s] = IF l = m /\ s = k THEN sent[l][s] + 1 ELSE sent[l][s]
    BY <1>1, <1>3, CountUp DEF Delivered
  <2> QED
    BY <1>1, <1>3, <2>1, ReadyStays
<1> QED
  BY <1>2, <1>3, SentStep

-----------------------------------------------------------------------------
(* The queue and the jobs.                                                  *)

\* What Enqueue does, task by task: one task is new, the others are as they were.
LEMMA Enqueued ==
    ASSUME TypeOK, NEW kind \in {"followup", "convert", "score"}, NEW l \in Leads,
           NEW arg \in 0 .. 3, Enqueue(kind, l, arg)
    PROVE  \E t \in TaskIds :
             /\ taskStatus[t] = "none"
             /\ taskKind'[t] = kind /\ taskLead'[t] = l /\ taskArg'[t] = arg
             /\ taskStatus'[t] = "pending"
             /\ \A u \in TaskIds \ {t} :
                    /\ taskKind'[u] = taskKind[u] /\ taskLead'[u] = taskLead[u]
                    /\ taskArg'[u] = taskArg[u] /\ taskStatus'[u] = taskStatus[u]
             /\ UNCHANGED tries
BY DEF TypeOK, Enqueue

\* A step enqueues what it may enqueue, writes one outcome, or leaves the queue alone.
LEMMA QueueStep ==
    ASSUME LeadInv, Next
    PROVE  \/ UNCHANGED queue
           \/ RqEnd
           \/ \E l \in Leads : \E g \in 1 .. 3 : Enqueue("score", l, g)
           \/ \E l \in Leads : Enqueue("convert", l, 0)
           \/ \E l \in Leads : \E s \in 1 .. 3 : Enqueue("followup", l, s) /\ Ready(l, s)
<1>0. TypeOK /\ StageInv
  BY DEF LeadInv, StageInv
<1>1. ASSUME NEW l \in Leads, Record(l)
      PROVE  UNCHANGED queue \/ \E g \in 1 .. 3 : Enqueue("score", l, g)
  <2>1. GradeOf(order[l], TRUE) \in 1 .. 3 /\ GradeOf(order[l], FALSE) \in 1 .. 3
    BY DEF GradeOf
  <2> QED
    BY <1>1, <2>1 DEF Record, Score
<1>2. ASSUME NEW l \in Leads, PollSend(l)
      PROVE  UNCHANGED queue \/ \E s \in 1 .. 3 : Enqueue("followup", l, s) /\ Ready(l, s)
  <2>1. StageOf[seen[l]] \in 1 .. 3 /\ Ready(l, StageOf[seen[l]])
    BY <1>0, <1>2, StageOfType, StageFacts DEF PollSend, StageInv, Believed
  <2> QED
    BY <1>2, <2>1 DEF PollSend
<1>3. ASSUME NEW l \in Leads, Convert(l)
      PROVE  UNCHANGED queue \/ Enqueue("convert", l, 0)
  BY <1>3 DEF Convert
<1>4. CASE ~(\E l \in Leads : Record(l) \/ PollSend(l) \/ Convert(l)) /\ ~RqEnd
  BY <1>4 DEF Next, Webhook, PollJob, LostJob, RetryWorker, Answer,
       UpdateReplied, Schedule, FetchDue, PollSkip, PollAdvance, PollError,
       LostFetch, LostMark, RqRun, TimePasses, Close, Restart
<1> QED
  BY <1>1, <1>2, <1>3, <1>4

LEMMA QueueInvNext == LeadInv /\ Next => QueueInv'
<1> SUFFICES ASSUME LeadInv, Next PROVE QueueInv'
  OBVIOUS
<1>0. TypeOK /\ StageInv /\ TypeOK' /\ QueueInv
  BY LeadTypeNext DEF LeadInv, StageInv
<1>1. ASSUME NEW t \in TaskIds, taskKind[t] = "followup", taskLead[t] \in Leads
      PROVE  Ready(taskLead[t], taskArg[t])'
             \/ taskArg'[t] # taskArg[t] \/ taskLead'[t] # taskLead[t]
  <2>1. \A s : Ready(taskLead[t], s) => \A l \in Leads : l = taskLead[t] => Ready(l, s)'
    BY ReadyStays
  <2>2. Ready(taskLead[t], taskArg[t])
    BY <1>0, <1>1 DEF QueueInv, TaskOk
  <2> QED
    BY <1>1, <2>1, <2>2 DEF Ready
<1>2. ASSUME NEW t \in TaskIds,
             /\ taskKind'[t] = taskKind[t] /\ taskLead'[t] = taskLead[t]
             /\ taskArg'[t] = taskArg[t]
             /\ taskStatus'[t] = taskStatus[t] /\ tries'[t] = tries[t]
      PROVE  TaskOk(t)'
  BY <1>0, <1>1, <1>2 DEF QueueInv, TaskOk
<1>3. ASSUME NEW kind \in {"followup", "convert", "score"}, NEW l \in Leads,
             NEW arg \in 0 .. 3, Enqueue(kind, l, arg),
             kind \in {"followup", "score"} => arg \in 1 .. 3,
             kind = "followup" => Ready(l, arg)
      PROVE  \A t \in TaskIds : TaskOk(t)'
  <2>1. PICK t \in TaskIds :
             /\ taskStatus[t] = "none"
             /\ taskKind'[t] = kind /\ taskLead'[t] = l /\ taskArg'[t] = arg
             /\ taskStatus'[t] = "pending"
             /\ \A u \in TaskIds \ {t} :
                    /\ taskKind'[u] = taskKind[u] /\ taskLead'[u] = taskLead[u]
                    /\ taskArg'[u] = taskArg[u] /\ taskStatus'[u] = taskStatus[u]
             /\ UNCHANGED tries
    BY <1>0, <1>3, Enqueued
  <2>2. \A u \in TaskIds \ {t} : TaskOk(u)'
    BY <1>2, <2>1
  <2>3. tries'[t] < MaxAttempts
    BY <1>0, <2>1 DEF QueueInv, TaskOk
  <2>4. kind = "followup" => Ready(taskLead[t], taskArg[t])'
    <3>1. kind = "followup" => Ready(l, arg)'
      BY <1>3, ReadyStays
    <3> QED
      BY <2>1, <3>1 DEF Ready
  <2>5. TaskOk(t)'
    BY <1>3, <2>1, <2>3, <2>4 DEF TaskOk
  <2> QED
    BY <2>2, <2>5
<1>4. CASE RqEnd
  <2>1. rqTask \in TaskIds /\ taskStatus[rqTask] = "pending" /\ rqTask' = Nobody
    BY <1>0, <1>4 DEF QueueInv, RqEnd, TypeOK
  <2>2. ASSUME NEW u \in TaskIds, u # rqTask PROVE TaskOk(u)'
    BY <1>0, <1>2, <1>4, <2>1, <2>2 DEF RqEnd, TypeOK
  <2>3. ASSUME NEW u \in TaskIds, u = rqTask PROVE TaskOk(u)'
    <3>1. /\ taskKind'[u] = taskKind[u] /\ taskLead'[u] = taskLead[u]
          /\ taskArg'[u] = taskArg[u] /\ taskKind[u] # "none"
      BY <1>0, <1>4, <2>1, <2>3 DEF RqEnd, QueueInv, TaskOk
    <3>2. /\ taskStatus'[u] \in {"done", "dead", "pending"}
          /\ taskStatus'[u] = "pending" => ~(tries'[u] >= MaxAttempts)
      BY <1>0, <1>4, <2>1, <2>3 DEF RqEnd, TypeOK
    <3>3. taskStatus'[u] = "pending" => tries'[u] < MaxAttempts
      BY <1>0, <3>2, ConstantsAssumption DEF TypeOK
    <3> QED
      BY <1>0, <1>1, <2>3, <3>1, <3>2, <3>3 DEF QueueInv, TaskOk
  <2> QED
    BY <2>1, <2>2, <2>3 DEF QueueInv
<1>5. CASE UNCHANGED queue
  <2>1. \A t \in TaskIds : TaskOk(t)'
    BY <1>2, <1>5 DEF queue
  <2>2. rqTask' \in {rqTask, Nobody} \/ \E t \in TaskIds : RqRun(t)
    BY DEF Next, Webhook, PollJob, LostJob, RetryWorker, Record, Convert, Answer,
       UpdateReplied, Schedule, FetchDue, PollSkip, PollSend, PollAdvance, PollError,
       LostFetch, LostMark, RqEnd, TimePasses, Close, Restart, rq
  <2> QED
    BY <1>0, <1>5, <2>1, <2>2 DEF queue, QueueInv, RqRun
<1>6. ASSUME \A t \in TaskIds : TaskOk(t)', ~RqEnd, taskStatus' # taskStatus PROVE QueueInv'
  <2>1. UNCHANGED rqTask
    BY <1>6 DEF Next, Webhook, PollJob, LostJob, RetryWorker, Record, Convert, Answer,
       UpdateReplied, Schedule, FetchDue, PollSkip, PollSend, PollAdvance, PollError,
       LostFetch, LostMark, RqRun, TimePasses, Close, Restart, rq, queue
  <2>2. rqTask # Nobody => taskStatus'[rqTask] = "pending"
    <3>1. \A k, l, a : Enqueue(k, l, a) /\ rqTask # Nobody => taskStatus'[rqTask] = "pending"
      BY <1>0 DEF Enqueue, QueueInv, TypeOK
    <3> QED
      BY <1>6, <3>1, QueueStep DEF queue
  <2> QED
    BY <1>6, <2>1, <2>2 DEF QueueInv
<1>7. CASE ~UNCHANGED queue /\ ~RqEnd
  <2>1. /\ 0 \in 0 .. 3 /\ 1 .. 3 \subseteq 0 .. 3
        /\ {"followup", "score", "convert"} = {"followup", "convert", "score"}
    OBVIOUS
  <2>2. \A t \in TaskIds : TaskOk(t)'
    <3>1. ASSUME NEW l \in Leads, NEW g \in 1 .. 3, Enqueue("score", l, g)
          PROVE  \A t \in TaskIds : TaskOk(t)'
      BY <1>3, <2>1, <3>1
    <3>2. ASSUME NEW l \in Leads, Enqueue("convert", l, 0)
          PROVE  \A t \in TaskIds : TaskOk(t)'
      BY <1>3, <2>1, <3>2
    <3>3. ASSUME NEW l \in Leads, NEW s \in 1 .. 3, Enqueue("followup", l, s), Ready(l, s)
          PROVE  \A t \in TaskIds : TaskOk(t)'
      BY <1>3, <2>1, <3>3
    <3> QED
      BY <1>7, <3>1, <3>2, <3>3, QueueStep
  <2>3. taskStatus' # taskStatus
    <3>1. \A k, l, a : Enqueue(k, l, a) => taskStatus' # taskStatus
      BY <1>0 DEF Enqueue, TypeOK
    <3> QED
      BY <1>7, <3>1, QueueStep
  <2> QED
    BY <1>6, <1>7, <2>2, <2>3
<1> QED
  BY <1>4, <1>5, <1>7

\* A task of the queue is never forgotten.
LEMMA InQueueStays ==
    ASSUME LeadInv, Next, NEW kind \in {"convert", "score"}, NEW l \in Leads,
           InQueue(kind, l)
    PROVE  InQueue(kind, l)'
<1>0. TypeOK /\ QueueInv
  BY DEF LeadInv, StageInv
<1>1. PICK t \in TaskIds : taskKind[t] = kind /\ taskLead[t] = l
  BY DEF InQueue
<1>2. taskStatus[t] # "none"
  BY <1>0, <1>1 DEF QueueInv, TaskOk
<1>3. taskKind'[t] = taskKind[t] /\ taskLead'[t] = taskLead[t]
  <2>1. \A k, m, a : Enqueue(k, m, a) => taskKind'[t] = taskKind[t] /\ taskLead'[t] = taskLead[t]
    BY <1>0, <1>2 DEF Enqueue, TypeOK
  <2> QED
    BY <2>1, QueueStep DEF queue, RqEnd
<1> QED
  BY <1>1, <1>3 DEF InQueue

-----------------------------------------------------------------------------
(* Whoever writes a record writes what is true.                             *)

\* Who may change the status of a lead, and to what.
LEMMA StatusStep ==
    ASSUME LeadInv, Next, NEW l \in Leads
    PROVE  \/ status'[l] = status[l]
           \/ pc[l] \in {"replied", "schedule"} /\ status'[l] = "auto_replied"
           \/ /\ pollPc = "advance" /\ current = l
              /\ status'[l] = SentStatus[StageOf[seen[l]]]
           \/ l \in lostBatch /\ status'[l] = "lost"
           \/ status'[l] \in {"converted", "closed"}
           \/ status[l] = "absent" /\ status'[l] = "dm_received"
           \/ l \in batch /\ status'[l] = "followup_error"
<1>0. TypeOK /\ StageInv
  BY DEF LeadInv, StageInv
<1>1. CASE RetryWorker
  <2>1. ASSUME NEW t \in TaskIds, RqRun(t)
        PROVE  \/ UNCHANGED status
               \/ /\ taskLead[t] \in Leads
                  /\ status' = [status EXCEPT ![taskLead[t]] = "converted"]
    BY <1>0, <2>1 DEF RqRun, Handle, TypeOK, StageInv, QueueInv, TaskOk
  <2> QED
    BY <1>0, <1>1, <2>1 DEF RetryWorker, RqEnd, record, TypeOK
<1>2. CASE PollJob
  <2>1. PollAdvance \/ PollError => current \in batch /\ current \in Leads
    BY <1>0 DEF StageInv, HandInv, TypeOK, PollAdvance, PollError
  <2> QED
    BY <1>0, <1>2, <2>1 DEF PollJob, FetchDue, PollAdvance, PollError, PollSkip, PollSend,
           SetStatus, record, TypeOK
<1>3. CASE ~RetryWorker /\ ~PollJob
  BY <1>0, <1>3 DEF Next, Webhook, LostJob, Record, Convert, Answer,
         UpdateReplied, Schedule, LostFetch, LostMark, TimePasses, Close, Restart,
         record, SetStatus, TypeOK
<1> QED
  BY <1>1, <1>2, <1>3

\* How the thread of a lead goes on.
LEMMA PcStep ==
    ASSUME LeadInv, Next, NEW l \in Leads
    PROVE  \/ pc'[l] = pc[l]
           \/ pc'[l] = "died" /\ pc[l] # "none"
           \/ pc'[l] = "convert" /\ Record(l) /\ order[l]
           \/ pc'[l] = "answer" /\ Record(l) /\ ~order[l]
           \/ pc'[l] = "done" /\ Convert(l)
           \/ pc'[l] = "replied" /\ pc[l] = "answer" /\ l \in answered'
           \/ pc'[l] = "schedule" /\ pc[l] = "replied"
           \/ pc'[l] = "done" /\ pc[l] \in {"answer", "replied", "schedule"}
<1>0. TypeOK
  BY DEF LeadInv, StageInv
<1>1. CASE Restart
  BY <1>0, <1>1 DEF Restart, TypeOK
<1>2. CASE ~Restart
  BY <1>0, <1>2 DEF Next, Webhook, PollJob, LostJob, RetryWorker, Record, Convert, Answer,
       UpdateReplied, Schedule, FetchDue, PollSkip, PollSend, PollAdvance, PollError,
       LostFetch, LostMark, RqRun, RqEnd, TimePasses, Close, Goto, TypeOK
<1> QED
  BY <1>1, <1>2

\* The snapshot of the polling job is taken from the records, and only shrinks.
LEMMA BatchStep ==
    ASSUME LeadInv, Next, NEW l \in batch'
    PROVE  \/ l \in batch /\ seen'[l] = seen[l]
           \/ FetchDue /\ status[l] \in Waiting /\ seen'[l] = status[l]
<1>0. TypeOK /\ StageInv /\ l \in Leads
  BY LeadTypeNext DEF LeadInv, StageInv, TypeOK
<1>1. CASE FetchDue
  BY <1>0, <1>1 DEF FetchDue, DueLeads
<1>2. CASE EndPoll
  BY <1>2 DEF EndPoll
<1>3. ASSUME NEW m \in Leads, NextLead(m) PROVE l \in batch /\ seen'[l] = seen[l]
  BY <1>0, <1>3 DEF NextLead, TypeOK
<1>4. PollAdvance \/ PollError => current \in Leads
  BY <1>0 DEF StageInv, HandInv, TypeOK, PollAdvance, PollError
<1>5. FetchDue \/ EndPoll \/ (UNCHANGED <<batch, seen>>) \/ \E m \in Leads : NextLead(m)
  BY <1>4 DEF Next, Webhook, PollJob, LostJob, RetryWorker, Record, Convert, Answer,
       UpdateReplied, Schedule, PollSkip, PollSend, PollAdvance, PollError,
       LostFetch, LostMark, RqRun, RqEnd, TimePasses, Close, Restart, poll
<1> QED
  BY <1>1, <1>2, <1>3, <1>5

LEMMA BelievedNext ==
    ASSUME LeadInv, Next, NEW l \in Leads
    PROVE  Believed(l)'
<1>0. TypeOK /\ StageInv /\ Believed(l) /\ UNCHANGED order
  BY DEF LeadInv, StageInv, Next, Webhook, PollJob, LostJob, RetryWorker, Record, Convert,
       Answer, UpdateReplied, Schedule, FetchDue, PollSkip, PollSend, PollAdvance, PollError,
       LostFetch, LostMark, RqRun, RqEnd, TimePasses, Close, Restart, origin
<1>1. \A s \in Stages : sent'[l][s] > 0 => Ready(l, s)'
  BY SentReadyNext
<1>2. pollPc = "advance" /\ current = l =>
          seen[l] \in Waiting /\ Ready(l, StageOf[seen[l]] + 1)
  BY <1>0 DEF StageInv, HandInv, Believed
<1>3. (status[l] \in Waiting => Ready(l, StageOf[status[l]]))'
  <2>1. \A s : Ready(l, s) => Ready(l, s)'
    BY ReadyStays
  <2>2. status'[l] \in Waiting => Ready(l, StageOf[status'[l]])
    BY <1>0, <1>2, StatusStep, StageOfType, StageFacts DEF Believed
  <2> QED
    BY <2>1, <2>2 DEF Ready
<1>4. status'[l] \in {"followup3_sent", "lost"} => Ready(l, 4)'
  <2>1. Ready(l, 4) => Ready(l, 4)'
    BY ReadyStays
  <2>2. status'[l] \in {"followup3_sent", "lost"} => Ready(l, 4)
    BY <1>0, <1>2, StatusStep, StageOfType DEF Believed
  <2> QED
    BY <2>1, <2>2
<1>5. (l \in batch => seen[l] \in Waiting /\ Ready(l, StageOf[seen[l]]))'
  <2>1. \A s : Ready(l, s) => Ready(l, s)'
    BY ReadyStays
  <2>2. l \in batch' => seen'[l] \in Waiting /\ Ready(l, StageOf[seen'[l]])
    BY <1>0, BatchStep DEF Believed
  <2> QED
    BY <2>1, <2>2 DEF Ready
<1>6. l \in lostBatch' => Ready(l, 4)'
  <2>1. Ready(l, 4) => Ready(l, 4)'
    BY ReadyStays
  <2>2. l \in lostBatch' => l \in lostBatch \/ status[l] = "followup3_sent"
    BY DEF Next, Webhook, PollJob, LostJob, RetryWorker, Record, Convert, Answer,
       UpdateReplied, Schedule, FetchDue, PollSkip, PollSend, PollAdvance, PollError,
       LostFetch, LostMark, RqRun, RqEnd, TimePasses, Close, Restart, DueLeads
  <2> QED
    BY <1>0, <2>1, <2>2 DEF Believed
<1>7. pc'[l] \in {"replied", "schedule"} => Ready(l, 1)'
  <2>1. Ready(l, 1) => Ready(l, 1)'
    BY ReadyStays
  <2>2. ASSUME l \in answered', ~order[l] PROVE Ready(l, 1)'
    BY <1>0, <2>2, StageFacts DEF Ready
  <2> QED
    BY <1>0, <2>1, <2>2, PcStep DEF Believed
<1>8. pc'[l] = "answer" => ~order'[l]
  BY <1>0, PcStep DEF Believed
<1> QED
  BY <1>1, <1>3, <1>4, <1>5, <1>6, <1>7, <1>8 DEF Believed

LEMMA HandInvNext == LeadInv /\ Next => HandInv'
<1> SUFFICES ASSUME LeadInv, Next PROVE HandInv'
  OBVIOUS
<1>0. TypeOK /\ StageInv /\ HandInv
  BY DEF LeadInv, StageInv
<1>1. ASSUME NEW l \in Leads, PollSend(l) PROVE HandInv'
  <2>1. l \in batch /\ seen[l] \in Waiting /\ StageOf[seen[l]] \in Stages
    BY <1>0, <1>1, StageOfType DEF PollSend, StageInv, Believed
  <2>2. Ready(l, StageOf[seen[l]])
    BY <1>0, <2>1 DEF StageInv, Believed
  <2>3. CASE /\ Delivered(l, StageOf[seen[l]])
             /\ pollPc' = "advance" /\ current' = l /\ UNCHANGED <<batch, seen>>
    <3>1. Ready(l, StageOf[seen[l]] + 1)'
      <4>1. \A s \in Stages : Delivered(l, s) /\ Ready(l, s) => Ready(l, s + 1)'
        BY DeliveredReady
      <4> QED
        BY <2>1, <2>2, <2>3, <4>1 DEF Ready
    <3> QED
      BY <2>1, <2>3, <3>1 DEF HandInv, Ready
  <2>4. CASE pollPc' = "mark_error" /\ current' = l /\ UNCHANGED <<batch, seen>>
    BY <2>1, <2>4 DEF HandInv
  <2>5. CASE EndPoll
    BY <2>5 DEF EndPoll, HandInv
  <2> QED
    BY <1>1, <2>3, <2>4, <2>5 DEF PollSend
<1>2. CASE UNCHANGED poll
  <2>1. ASSUME pollPc = "advance" PROVE Ready(current, StageOf[seen[current]] + 1)'
    <3>1. \A l \in Leads : \A s : Ready(l, s) => Ready(l, s)'
      BY ReadyStays
    <3>2. current \in Leads /\ Ready(current, StageOf[seen[current]] + 1)
      BY <1>0, <2>1 DEF HandInv, TypeOK
    <3> QED
      BY <1>2, <3>1, <3>2 DEF Ready, poll
  <2> QED
    BY <1>0, <1>2, <2>1 DEF HandInv, poll
<1>3. CASE pollPc' \in {"idle", "next"}
  BY <1>3 DEF HandInv
<1>4. CASE ~(UNCHANGED poll) /\ ~(pollPc' \in {"idle", "next"}) /\ ~(\E l \in Leads : PollSend(l))
  BY <1>4 DEF Next, Webhook, PollJob, LostJob, RetryWorker, Record, Convert, Answer,
       UpdateReplied, Schedule, FetchDue, PollSkip, PollAdvance, PollError,
       LostFetch, LostMark, RqRun, RqEnd, TimePasses, Close, Restart, EndPoll, NextLead, poll
<1> QED
  BY <1>1, <1>2, <1>3, <1>4

LEMMA WrittenNext ==
    ASSUME LeadInv, Next, NEW l \in Leads
    PROVE  Written(l)'
<1>0. TypeOK /\ StageInv /\ Believed(l) /\ Written(l) /\ HandInv /\ QueueInv /\ UNCHANGED order
  BY DEF LeadInv, StageInv, Next, Webhook, PollJob, LostJob, RetryWorker, Record, Convert,
       Answer, UpdateReplied, Schedule, FetchDue, PollSkip, PollSend, PollAdvance, PollError,
       LostFetch, LostMark, RqRun, RqEnd, TimePasses, Close, Restart, origin
<1>1. ASSUME Record(l) PROVE grade'[l] # 0 \/ InQueue("score", l)'
  <2>1. GradeOf(order[l], TRUE) \in 1 .. 3 /\ GradeOf(order[l], FALSE) \in 1 .. 3
    BY DEF GradeOf
  <2>2. \A g \in 1 .. 3 : Enqueue("score", l, g) => InQueue("score", l)'
    <3>1. 1 .. 3 \subseteq 0 .. 3
      OBVIOUS
    <3> QED
      BY <1>0, <3>1, Enqueued DEF InQueue
  <2>3. \A g \in 1 .. 3 : grade' = [grade EXCEPT ![l] = g] => grade'[l] # 0
    BY <1>0 DEF TypeOK
  <2> QED
    BY <1>1, <2>1, <2>2, <2>3 DEF Record, Score
<1>2. ASSUME grade[l] # 0, ~Record(l) PROVE grade'[l] # 0
  <2>1. ASSUME NEW t \in TaskIds, RqRun(t) PROVE grade'[l] # 0
    <3>1. taskKind[t] = "score" => taskArg[t] \in 1 .. 3 /\ taskLead[t] \in Leads
      BY <1>0, <2>1 DEF QueueInv, TaskOk
    <3> QED
      BY <1>0, <1>2, <2>1, <3>1 DEF RqRun, Handle, TypeOK
  <2>2. ASSUME NEW m \in Leads, m # l, Record(m) PROVE grade'[l] # 0
    BY <1>0, <1>2, <2>2 DEF Record, Score, TypeOK
  <2>3. CASE ~(\E t \in TaskIds : RqRun(t)) /\ ~(\E m \in Leads : Record(m))
    BY <1>2, <2>3 DEF Next, Webhook, PollJob, LostJob, RetryWorker, Convert, Answer,
       UpdateReplied, Schedule, FetchDue, PollSkip, PollSend, PollAdvance, PollError,
       LostFetch, LostMark, RqEnd, TimePasses, Close, Restart, record
  <2> QED
    BY <1>2, <2>1, <2>2, <2>3
<1>3. pc'[l] # "none" => grade'[l] # 0 \/ InQueue("score", l)'
  <2>1. InQueue("score", l) => InQueue("score", l)'
    BY InQueueStays
  <2>2. pc[l] = "none" /\ pc'[l] # "none" => Record(l)
    BY PcStep DEF Convert
  <2> QED
    BY <1>0, <1>1, <1>2, <2>1, <2>2 DEF Written
<1>4. order[l] => status'[l] \in {"absent", "dm_received", "converted", "closed"}
  <2>1. pollPc = "advance" /\ current = l => ~order[l]
    BY <1>0 DEF HandInv, Ready
  <2> QED
    BY <1>0, <2>1, StatusStep DEF Believed, Written, Ready
<1>5. order[l] => pc'[l] \in {"none", "convert", "done", "died"}
  BY <1>0, PcStep DEF Written
<1>6. ASSUME Convert(l)
      PROVE  status'[l] \in {"converted", "closed"} \/ InQueue("convert", l)'
  <2>1. 0 \in 0 .. 3
    OBVIOUS
  <2>2. Enqueue("convert", l, 0) => InQueue("convert", l)'
    BY <1>0, <2>1, Enqueued DEF InQueue
  <2> QED
    BY <1>0, <1>6, <2>2 DEF Convert, SetStatus, TypeOK
<1>7. ASSUME order[l], status[l] \in {"converted", "closed"}
      PROVE  status'[l] \in {"converted", "closed"}
  <2>1. pollPc = "advance" /\ current = l => ~order[l]
    BY <1>0 DEF HandInv, Ready
  <2> QED
    BY <1>0, <1>7, <2>1, StatusStep DEF Believed, Written, Ready
<1>8. order[l] /\ pc'[l] = "done" =>
          status'[l] \in {"converted", "closed"} \/ InQueue("convert", l)'
  <2>1. InQueue("convert", l) => InQueue("convert", l)'
    BY InQueueStays
  <2>2. order[l] /\ pc'[l] = "done" => pc[l] = "done" \/ Convert(l)
    BY <1>0, PcStep DEF Written
  <2> QED
    BY <1>0, <1>6, <1>7, <2>1, <2>2 DEF Written
<1> QED
  BY <1>0, <1>3, <1>4, <1>5, <1>8 DEF Written

-----------------------------------------------------------------------------
(* The theorems.                                                            *)

LEMMA LeadInvStep == LeadInv /\ [Next]_vars => LeadInv'
<1> SUFFICES ASSUME LeadInv, [Next]_vars PROVE LeadInv'
  OBVIOUS
<1>1. CASE Next
  <2>1. \A l \in Leads : Believed(l)' /\ Written(l)'
    BY <1>1, BelievedNext, WrittenNext
  <2> QED
    BY <1>1, <2>1, LeadTypeNext, QueueInvNext, HandInvNext DEF LeadInv, StageInv
<1>2. CASE UNCHANGED vars
  BY <1>2 DEF vars, record, origin, poll, queue, rq, outside, LeadInv, StageInv, TypeOK,
       QueueInv, TaskOk, Believed, HandInv, Written, InQueue, Ready
<1> QED
  BY <1>1, <1>2

\* Wherever a stage of a lead is remembered, the stages before it went out.
THEOREM LeadsHold == Spec => []LeadInv
<1>1. Init => LeadInv
  BY InitLead
<1>2. LeadInv /\ [Next]_vars => LeadInv'
  BY LeadInvStep
<1> QED
  BY <1>1, <1>2, PTL DEF Spec

\* However the webhook thread, the two jobs, the retry queue and a person write over each
\* other, a follow-up goes out only to a buyer who was answered and ordered nothing, no
\* stage is skipped and a lead is given up only after all three (process_due_followups,
\* process_lost_candidates, _retry_followup).
THEOREM FollowUpsAreInOrder == Spec => []FollowUpsInOrder
<1>1. LeadInv => FollowUpsInOrder
  <2> SUFFICES ASSUME LeadInv, NEW l \in Leads
               PROVE  /\ (\E s \in Stages : sent[l][s] > 0) => l \in answered /\ ~order[l]
                      /\ \A s \in Stages \ {1} : sent[l][s] > 0 => sent[l][s - 1] > 0
                      /\ status[l] = "lost" => \A s \in Stages : sent[l][s] > 0
    BY DEF LeadInv, StageInv, FollowUpsInOrder
  <2>1. Believed(l)
    BY DEF LeadInv, StageInv
  <2>2. \A s \in Stages \ {1} : s - 1 \in Stages /\ s - 1 < s
    BY StageFacts
  <2>3. \A s \in Stages : s < 4
    BY StageFacts
  <2> QED
    BY <2>1, <2>2, <2>3 DEF Believed, Ready
<1> QED
  BY <1>1, LeadsHold, PTL

\* A finished webhook thread leaves no order and no score behind that neither the record
\* nor the retry queue knows of (ERR-086, ERR-088), whatever failed, whoever overwrote
\* the status and however often the process died.
THEOREM WritesAreKeptHolds == Spec => []WritesAreKept
<1>1. LeadInv => WritesAreKept
  BY DEF LeadInv, Written, InQueue, WritesAreKept
<1> QED
  BY <1>1, LeadsHold, PTL

=============================================================================
