-------------------- MODULE CommentEventInboxDurability --------------------
(***************************************************************************)
(* Proof that CommentEventInbox loses no comment it took responsibility for *)
(* (AcceptedIsDurable) and that a final row tells the truth (FinalRowIsTrue).*)
(* What a comment rests on, its Airtable record or a task of the queue, is   *)
(* never taken away, and every column, thread and job that promises it has   *)
(* seen it.                                                                 *)
(***************************************************************************)
EXTENDS CommentEventInboxProofs

Stored(e) == records[e] > 0 \/ HeldByQueue(e)

\* A task that is done has created or found its record, and so has a job that
\* is about to say so.
TaskInv ==
    /\ \A t \in TaskIds :
          /\ taskStatus[t] # "none" => taskEvent[t] \in Events
          /\ taskStatus[t] = "done" => records[taskEvent[t]] > 0
    /\ rqPc \in {"complete", "done"} => records[taskEvent[rqTask]] > 0

\* What the columns of a row promise.
RowInv ==
    \A e \in Events :
        /\ status[e] = "COMPLETED" => records[e] > 0
        /\ status[e] = "DEAD" => \E t \in TaskIds : taskEvent[t] = e /\ taskStatus[t] = "dead"
        /\ air[e] \in {"DONE", "RETRY_PENDING"} => Stored(e)
        /\ task[e] # NoTask => taskEvent[task[e]] = e /\ taskStatus[task[e]] # "none"

\* What a thread knows when it comes to a promise.
PromiseInv ==
    \A w \in Workers :
        /\ pc[w] = "refused" => status[event[w]] # "ABSENT"
        /\ Active(w) /\ pc[w] # "claimed" /\ "airtable" \in seen[w] => Stored(event[w])
        /\ pc[w] = "complete" => records[event[w]] > 0
        /\ pc[w] = "hand_over" =>
              /\ queued[w] \in TaskIds
              /\ taskEvent[queued[w]] = event[w] /\ taskStatus[queued[w]] # "none"

DurableInv == TaskInv /\ RowInv /\ PromiseInv /\ AcceptedIsDurable

-----------------------------------------------------------------------------
(* What a comment rests on stays.                                           *)

\* A record is never deleted; a task keeps its event, and a dead one stays dead.
Kept ==
    /\ \A e \in Events : records'[e] >= records[e]
    /\ \A t \in TaskIds : taskStatus[t] # "none" =>
          /\ taskEvent'[t] = taskEvent[t] /\ taskStatus'[t] # "none"
          /\ taskStatus[t] = "dead" => taskStatus'[t] = "dead"

\* Only the actions named here touch a record or a task.
LEMMA StepKeeps ==
  ASSUME TypeInv, [Next]_vars
  PROVE  Kept
<1> USE DEF Kept, TypeInv, TypeOK, JobInv
<1>1. CASE UNCHANGED <<records, queue>>
  BY <1>1 DEF queue
<1>2. ASSUME NEW w \in Workers, RecordStep(w) \/ ExplainRefusal(w) PROVE Kept
  <2>1. CASE CreateLead(w)       BY <2>1 DEF CreateLead, Created, queue
  <2>2. CASE CreateLeadFails(w)
    <3>1. CASE UNCHANGED records  BY <2>2, <3>1 DEF CreateLeadFails, queue
    <3>2. CASE Created(event[w])  BY <2>2, <3>2 DEF CreateLeadFails, Created, queue
    <3> QED BY <2>2, <3>1, <3>2 DEF CreateLeadFails
  <2>3. CASE Enqueue(w)          BY <2>3 DEF Enqueue
  <2>4. UNCHANGED <<records, queue>> \/ CreateLead(w) \/ CreateLeadFails(w) \/ Enqueue(w)
    BY <1>2 DEF RecordStep, ExplainRefusal, RecordSettled, FindLead, FindLeadFails,
       CompleteRow, EnqueueFails, HandOver, GiveUp, RecordFenced
  <2> QED BY <1>1, <2>1, <2>2, <2>3, <2>4
<1>3. CASE Background
  <2>1. CASE RqCreate            BY <2>1 DEF RqCreate, Created, queue
  <2>2. CASE RqFails
    <3>1. CASE UNCHANGED records           BY <2>2, <3>1 DEF RqFails, queue
    <3>2. CASE Created(taskEvent[rqTask])  BY <2>2, <3>2 DEF RqFails, Created, queue
    <3> QED BY <2>2, <3>1, <3>2 DEF RqFails
  <2>3. CASE RqDone              BY <2>3 DEF RqDone, Attempted
  <2>4. CASE RqBackOff           BY <2>4 DEF RqBackOff, Attempted
  <2>5. CASE RqDie               BY <2>5 DEF RqDie, Attempted
  <2>6. \/ UNCHANGED <<records, queue>>
        \/ RqCreate \/ RqFails \/ RqDone \/ RqBackOff \/ RqDie
    BY <1>3 DEF Background, vars, PollBegin, PollEnd, QueueStep, RqTake, RqFind, RqComplete,
       MonitorStep, MonitorVisit, MonitorSend, MonitorSendFails, MonitorMarkSent,
       LeaseExpires
  <2> QED BY <1>1, <2>1, <2>2, <2>3, <2>4, <2>5, <2>6
<1>4. ASSUME NEW w \in Workers, EffectStep(w) PROVE UNCHANGED <<records, queue>>
  BY <1>4 DEF EffectStep, TakeReplyLock, GuardRefuses, BeginEffect, SendEffect,
     SendEffectFails, MarkDone, MarkUnknown, EffectFenced
<1>5. ASSUME NEW w \in Workers, ReadStatus(w) PROVE UNCHANGED <<records, queue>>
  BY <1>5 DEF ReadStatus
<1>6. ASSUME NEW w \in Workers, NEW e \in Events, Ingress(w, e)
      PROVE  UNCHANGED <<records, queue>>
  BY <1>6 DEF Ingress, Claim, ClaimRefused
<1>7. ASSUME NEW e \in Events, SweepStale(e) PROVE UNCHANGED <<records, queue>>
  BY <1>7 DEF SweepStale
<1>8. CASE Crash
  BY <1>1, <1>8 DEF Crash
<1> QED BY NextKinds, <1>1, <1>2, <1>3, <1>4, <1>5, <1>6, <1>7, <1>8

\* A task is done only by the step that follows its record.
LEMMA TaskStep ==
  ASSUME TypeInv, TypeInv', TaskInv, [Next]_vars
  PROVE  TaskInv'
<1> USE DEF TaskInv, TypeInv, TypeOK, JobInv
<1>1. Kept
  BY ONLY TypeInv, [Next]_vars, StepKeeps
<1> USE DEF Kept
<1>2. CASE UNCHANGED <<queue, rq>>
  BY <1>1, <1>2 DEF queue, rq
<1>3. CASE QueueStep
  <2>1. ASSUME NEW t \in TaskIds, RqTake(t) PROVE TaskInv'
    BY <2>1 DEF RqTake, queue
  <2>2. CASE RqFind      BY <2>2 DEF RqFind, RqGoto, queue
  <2>3. CASE RqCreate    BY <2>3 DEF RqCreate, RqGoto, Created, queue
  <2>4. CASE RqFails     BY <1>1, <2>4 DEF RqFails, RqGoto, queue
  <2>5. CASE RqComplete  BY <2>5 DEF RqComplete, RqGoto, queue
  <2>6. CASE RqDone      BY <2>6 DEF RqDone, Attempted
  <2>7. CASE RqBackOff   BY <2>7 DEF RqBackOff, Attempted
  <2>8. CASE RqDie       BY <2>8 DEF RqDie, Attempted
  <2> QED BY <1>3, <2>1, <2>2, <2>3, <2>4, <2>5, <2>6, <2>7, <2>8 DEF QueueStep
<1>4. ASSUME NEW w \in Workers, Enqueue(w) PROVE TaskInv'
  BY <1>4 DEF Enqueue, rq
<1>5. CASE Crash
  BY <1>5 DEF Crash, queue
<1>6. \/ UNCHANGED <<queue, rq>> \/ QueueStep \/ Crash
      \/ \E w \in Workers : Enqueue(w)
  BY DEF Next, vars, WorkerStep, ExplainRefusal, ReadStatus, EffectStep, TakeReplyLock,
     GuardRefuses, BeginEffect, SendEffect, SendEffectFails, MarkDone, MarkUnknown,
     EffectFenced, RecordStep, RecordSettled, FindLead, FindLeadFails, CreateLead,
     CreateLeadFails, CompleteRow, EnqueueFails, HandOver, GiveUp, RecordFenced, PollStep,
     PollBegin, PollEnd, Ingress, Claim, ClaimRefused, MonitorStep, MonitorVisit,
     MonitorSend, MonitorSendFails, MonitorMarkSent, LeaseExpires, SweepStale
<1> QED BY <1>2, <1>3, <1>4, <1>5, <1>6

LEMMA StoredStays ==
  ASSUME TypeInv, TypeInv', TaskInv', Kept, NEW e \in Events, Stored(e)
  PROVE  Stored(e)'
<1>1. CASE records[e] > 0
  BY <1>1 DEF Stored, Kept, TypeInv, TypeOK
<1>2. CASE HeldByQueue(e)
  <2>1. PICK t \in TaskIds : taskEvent[t] = e /\ taskStatus[t] \in {"pending", "dead"}
    BY <1>2 DEF HeldByQueue
  <2>2. taskEvent'[t] = e /\ taskStatus'[t] \in {"pending", "done", "dead"}
    BY <2>1 DEF Kept, TypeInv, TypeOK
  <2> QED BY <2>2 DEF Stored, HeldByQueue, TaskInv
<1> QED BY <1>1, <1>2 DEF Stored

\* A task that exists stands for its comment.
LEMMA TaskStores ==
  ASSUME TypeInv, TaskInv, NEW t \in TaskIds, taskStatus[t] # "none"
  PROVE  Stored(taskEvent[t])
BY DEF TypeInv, TypeOK, TaskInv, Stored, HeldByQueue

-----------------------------------------------------------------------------
(* Rows, threads and what was accepted.                                     *)

\* A step keeps what all its promises rest on.
LEMMA StepStores ==
  ASSUME TypeInv, TypeInv', TaskInv, [Next]_vars
  PROVE  /\ Kept /\ TaskInv'
         /\ \A e \in Events : Stored(e) => Stored(e)'
<1>1. Kept     BY StepKeeps
<1>2. TaskInv' BY TaskStep
<1> QED BY <1>1, <1>2, StoredStays

\* What a row's columns say stays true while they say it.
LEMMA StatusKept ==
  ASSUME TypeInv, TypeInv', RowInv, Kept, NEW e \in Events
  PROVE  /\ status[e] = "COMPLETED" => records'[e] > 0
         /\ status[e] = "DEAD" =>
               \E t \in TaskIds : taskEvent'[t] = e /\ taskStatus'[t] = "dead"
<1>1. ASSUME status[e] = "COMPLETED" PROVE records'[e] > 0
  <2>1. records[e] > 0                                BY <1>1 DEF RowInv
  <2>2. records'[e] >= records[e]                     BY DEF Kept
  <2>3. records[e] \in Nat /\ records'[e] \in Nat     BY DEF TypeInv, TypeOK
  <2> QED BY <2>1, <2>2, <2>3
<1>2. ASSUME status[e] = "DEAD"
      PROVE  \E t \in TaskIds : taskEvent'[t] = e /\ taskStatus'[t] = "dead"
  BY ONLY RowInv, Kept, e \in Events, <1>2 DEF RowInv, Kept
<1> QED BY <1>1, <1>2

LEMMA TaskColumnKept ==
  ASSUME TypeInv, RowInv, Kept, NEW e \in Events, task[e] # NoTask
  PROVE  taskEvent'[task[e]] = e /\ taskStatus'[task[e]] # "none"
BY DEF RowInv, Kept, TypeInv, TypeOK

\* What RowInv says of one row, after a step.
RowTrueNext(e) ==
    /\ status'[e] = "COMPLETED" => records'[e] > 0
    /\ status'[e] = "DEAD" => \E t \in TaskIds : taskEvent'[t] = e /\ taskStatus'[t] = "dead"
    /\ air'[e] \in {"DONE", "RETRY_PENDING"} => Stored(e)'
    /\ task'[e] # NoTask => taskEvent'[task'[e]] = e /\ taskStatus'[task'[e]] # "none"

\* A row that keeps its status, its Airtable column and its task keeps its word.
LEMMA RowKeeps ==
  ASSUME TypeInv, TypeInv', TaskInv, RowInv, [Next]_vars, NEW e \in Events,
         status'[e] = status[e], air'[e] = air[e], task'[e] = task[e]
  PROVE  RowTrueNext(e)
<1>1. Kept /\ (Stored(e) => Stored(e)')
  BY StepStores
<1>2. air'[e] \in {"DONE", "RETRY_PENDING"} => Stored(e)'
  BY <1>1 DEF RowInv
<1> QED BY <1>1, <1>2, StatusKept, TaskColumnKept DEF RowTrueNext

LEMMA RowStep ==
  ASSUME TypeInv, TypeInv', TaskInv, RowInv, PromiseInv, [Next]_vars
  PROVE  RowInv'
<1>1. Kept /\ TaskInv' /\ \A e \in Events : Stored(e) => Stored(e)'
  BY StepStores
<1> SUFFICES ASSUME NEW e \in Events PROVE RowTrueNext(e)
  BY DEF RowInv, RowTrueNext
<1>2. CASE status'[e] = status[e] /\ air'[e] = air[e] /\ task'[e] = task[e]
  BY <1>2, RowKeeps
<1>3. CASE status'[e] = "PROCESSING" /\ air'[e] = air[e] /\ task'[e] = task[e]
  <2>1. air[e] \in {"DONE", "RETRY_PENDING"} => Stored(e)'
    BY <1>1 DEF RowInv
  <2> QED BY <1>1, <1>3, <2>1, TaskColumnKept DEF RowTrueNext
<1>4. CASE status'[e] = "COMPLETED" /\ records'[e] > 0 /\ task'[e] = task[e]
  BY <1>1, <1>4, TaskColumnKept DEF RowTrueNext, Stored
<1>5. ASSUME NEW w \in Workers, CompleteRow(w) PROVE RowTrueNext(e)
  <2>1. records'[event[w]] > 0
    BY <1>5 DEF CompleteRow, PromiseInv
  <2>2. CASE event[w] = e  BY <1>4, <1>5, <2>1, <2>2 DEF CompleteRow, Recorded, TypeInv, TypeOK
  <2>3. CASE event[w] # e  BY <1>2, <1>5, <2>3 DEF CompleteRow, Recorded, TypeInv, TypeOK
  <2> QED BY <2>2, <2>3
<1>6. CASE RqComplete
  <2> DEFINE d == taskEvent[rqTask]
  <2>1. records'[d] > 0
    BY <1>6 DEF RqComplete, TaskInv
  <2>2. CASE UNCHANGED store          BY <1>2, <2>2 DEF store
  <2>3. CASE Recorded(d) /\ d = e     BY <1>4, <2>1, <2>3 DEF Recorded, TypeInv, TypeOK
  <2>4. CASE Recorded(d) /\ d # e     BY <1>2, <2>4 DEF Recorded, TypeInv, TypeOK
  <2> QED BY <1>6, <2>2, <2>3, <2>4 DEF RqComplete
<1>7. ASSUME NEW w \in Workers, HandOver(w) PROVE RowTrueNext(e)
  <2>1. CASE event[w] # e  BY <1>2, <1>7, <2>1 DEF HandOver, TypeInv, TypeOK
  <2>2. CASE event[w] = e
    <3>1. PICK t \in TaskIds : t = queued[w] /\ taskEvent[t] = e /\ taskStatus[t] # "none"
      BY <1>7, <2>2 DEF HandOver, PromiseInv
    <3>2. status'[e] = status[e] /\ task'[e] = t
      BY <1>7, <2>2, <3>1 DEF HandOver, TypeInv, TypeOK
    <3>3. taskEvent'[t] = e /\ taskStatus'[t] # "none"
      BY <1>1, <3>1 DEF Kept
    <3>4. Stored(e)'
      BY <1>1, <3>1, TaskStores
    <3> QED BY <1>1, <3>2, <3>3, <3>4, StatusKept DEF RowTrueNext
  <2> QED BY <2>1, <2>2
<1>8. ASSUME NEW w \in Workers, GiveUp(w) PROVE RowTrueNext(e)
  <2>1. CASE event[w] # e  BY <1>2, <1>8, <2>1 DEF GiveUp, TypeInv, TypeOK
  <2>2. CASE event[w] = e
    <3>1. status'[e] = status[e] /\ task'[e] = task[e] /\ air'[e] = "RETRY_ENQUEUE_FAILED"
      BY <1>8, <2>2 DEF GiveUp, TypeInv, TypeOK
    <3> QED BY <1>1, <3>1, StatusKept, TaskColumnKept DEF RowTrueNext
  <2> QED BY <2>1, <2>2
<1>9. ASSUME NEW t \in TaskIds, MonitorVisit(t) PROVE RowTrueNext(e)
  <2>1. CASE task[e] # t  BY <1>2, <1>9, <2>1 DEF MonitorVisit, MarkDead, TypeInv, TypeOK
  <2>2. CASE task[e] = t
    <3>1. status'[e] = "DEAD" /\ air'[e] = air[e] /\ task'[e] = task[e]
      BY <1>9, <2>2 DEF MonitorVisit, MarkDead, TypeInv, TypeOK
    <3>2. t # NoTask /\ taskEvent[t] = e /\ taskStatus[t] = "dead"
      BY <1>9, <2>2, ConstantsAssumption DEF MonitorVisit, RowInv
    <3>3. taskEvent'[t] = e /\ taskStatus'[t] = "dead"
      BY <1>1, <3>2 DEF Kept
    <3>4. air'[e] \in {"DONE", "RETRY_PENDING"} => Stored(e)'
      BY <1>1, <3>1 DEF RowInv
    <3> QED BY <2>2, <3>1, <3>3, <3>4 DEF RowTrueNext
  <2> QED BY <2>1, <2>2
<1>10. ASSUME NEW d \in Events, TakeOver(d) PROVE RowTrueNext(e)
  <2>1. CASE d = e  BY <1>3, <1>10, <2>1 DEF TakeOver, TypeInv, TypeOK
  <2>2. CASE d # e  BY <1>2, <1>10, <2>2 DEF TakeOver, TypeInv, TypeOK
  <2> QED BY <2>1, <2>2
<1>11. CASE UNCHANGED <<status, air, task>>
  BY <1>2, <1>11
<1>12. \/ UNCHANGED <<status, air, task>>
       \/ \E d \in Events : TakeOver(d)
       \/ \E w \in Workers : CompleteRow(w) \/ HandOver(w) \/ GiveUp(w)
       \/ RqComplete
       \/ \E t \in TaskIds : MonitorVisit(t)
  BY DEF Next, vars, store, WorkerStep, ExplainRefusal, ReadStatus, EffectStep,
     TakeReplyLock, GuardRefuses, BeginEffect, SendEffect, SendEffectFails, MarkDone,
     MarkUnknown, EffectFenced, RecordStep, RecordSettled, FindLead, FindLeadFails,
     CreateLead, CreateLeadFails, Enqueue, EnqueueFails, RecordFenced, PollStep, PollBegin,
     PollEnd, Ingress, Claim, ClaimRefused, QueueStep, RqTake, RqFind, RqCreate, RqFails,
     RqDone, RqBackOff, RqDie, Attempted, MonitorStep, MonitorSend, MonitorSendFails,
     MonitorMarkSent, LeaseExpires, SweepStale, Crash
<1> QED BY <1>5, <1>6, <1>7, <1>8, <1>9, <1>10, <1>11, <1>12

\* A row is never deleted.
LEMMA RowStays ==
  ASSUME TypeInv, [Next]_vars, NEW e \in Events, status[e] # "ABSENT"
  PROVE  status'[e] # "ABSENT"
<1> USE DEF TypeInv, TypeOK
<1>1. ASSUME NEW d \in Events, TakeOver(d) PROVE status'[e] # "ABSENT"
  BY <1>1 DEF TakeOver
<1>2. ASSUME NEW d, Recorded(d) PROVE status'[e] # "ABSENT"
  BY <1>2 DEF Recorded
<1>3. ASSUME NEW t \in TaskIds, MonitorVisit(t) PROVE status'[e] # "ABSENT"
  BY <1>3 DEF MonitorVisit, MarkDead
<1>4. \/ UNCHANGED status
      \/ \E d \in Events : TakeOver(d)
      \/ \E w \in Workers : Recorded(event[w])
      \/ Recorded(taskEvent[rqTask])
      \/ \E t \in TaskIds : MonitorVisit(t)
  BY DEF Next, vars, store, WorkerStep, ExplainRefusal, ReadStatus, EffectStep,
     TakeReplyLock, GuardRefuses, BeginEffect, SendEffect, SendEffectFails, MarkDone,
     MarkUnknown, EffectFenced, RecordStep, RecordSettled, FindLead, FindLeadFails,
     CreateLead, CreateLeadFails, CompleteRow, HandOver, GiveUp, Enqueue, EnqueueFails,
     RecordFenced, PollStep, PollBegin, PollEnd, Ingress, Claim, ClaimRefused, QueueStep,
     RqTake, RqFind, RqCreate, RqFails, RqComplete, RqDone, RqBackOff, RqDie, Attempted,
     MonitorStep, MonitorSend, MonitorSendFails, MonitorMarkSent, LeaseExpires, SweepStale,
     Crash
<1> QED BY <1>1, <1>2, <1>3, <1>4

\* What PromiseInv says of one thread, after a step.
PromiseNext(w) ==
    /\ pc'[w] = "refused" => status'[event'[w]] # "ABSENT"
    /\ Active(w)' /\ pc'[w] # "claimed" /\ "airtable" \in seen'[w] => Stored(event[w])'
    /\ pc'[w] = "complete" => records'[event'[w]] > 0
    /\ pc'[w] = "hand_over" =>
          /\ queued'[w] \in TaskIds
          /\ taskEvent'[queued'[w]] = event'[w] /\ taskStatus'[queued'[w]] # "none"

\* A thread that does not move keeps its promises.
LEMMA PromiseKeeps ==
  ASSUME TypeInv, TypeInv', TaskInv, PromiseInv, [Next]_vars, NEW w \in Workers,
         pc'[w] = pc[w], event'[w] = event[w], seen'[w] = seen[w], queued'[w] = queued[w]
  PROVE  PromiseNext(w)
<1>1. Kept /\ \A e \in Events : Stored(e) => Stored(e)'
  BY StepStores
<1>2. CASE pc[w] = "idle"
  BY <1>2 DEF PromiseNext, Active
<1>3. CASE pc[w] # "idle"
  <2>1. PICK e \in Events : e = event[w] /\ e = event'[w]
    BY <1>3 DEF TypeInv, JobInv
  <2>2. pc[w] = "refused" => status'[e] # "ABSENT"
    BY <2>1, RowStays DEF PromiseInv
  <2>3. Active(w)' /\ pc'[w] # "claimed" /\ "airtable" \in seen'[w] => Stored(e)'
    BY <1>1, <2>1 DEF PromiseInv, Active
  <2>4. pc[w] = "complete" => records'[e] > 0
    <3>1. records'[e] >= records[e] /\ records[e] \in Nat /\ records'[e] \in Nat
      BY <1>1 DEF Kept, TypeInv, TypeOK
    <3> QED BY <2>1, <3>1 DEF PromiseInv
  <2>5. pc[w] = "hand_over" =>
          /\ queued[w] \in TaskIds
          /\ taskEvent'[queued[w]] = e /\ taskStatus'[queued[w]] # "none"
    BY <1>1, <2>1 DEF PromiseInv, Kept
  <2> QED BY <2>1, <2>2, <2>3, <2>4, <2>5 DEF PromiseNext, Stored, HeldByQueue
<1> QED BY <1>2, <1>3

LEMMA PromiseStep ==
  ASSUME TypeInv, TypeInv', TaskInv, RowInv, PromiseInv, [Next]_vars
  PROVE  PromiseInv'
<1>1. Kept /\ \A e \in Events : Stored(e) => Stored(e)'
  BY StepStores
<1> SUFFICES ASSUME NEW v \in Workers PROVE PromiseNext(v)
  BY DEF PromiseInv, PromiseNext
<1>2. CASE UNCHANGED threads
  BY <1>2, PromiseKeeps DEF threads
<1>3. CASE pc'[v] \in {"idle", "claimed"}
  BY <1>3 DEF PromiseNext, Active
<1>4. ASSUME NEW w \in Workers, EffectStep(w) PROVE PromiseNext(v)
  <2>1. CASE v # w  BY <1>4, <2>1, EffectFrame, PromiseKeeps
  <2>2. CASE v = w
    <3>1. PICK e \in Events : e = event[v] /\ e = event'[v]
      BY <1>4, <2>2, EffectFrame DEF TypeInv, JobInv
    <3>2. /\ seen'[v] = seen[v] /\ Active(v) /\ pc[v] # "claimed"
          /\ pc'[v] \notin {"refused", "complete", "hand_over"}
      BY <1>4, <2>2, EffectFrame DEF Active
    <3>3. "airtable" \in seen'[v] => Stored(e)'
      BY <1>1, <3>1, <3>2 DEF PromiseInv
    <3> QED BY <3>1, <3>2, <3>3 DEF PromiseNext, Stored, HeldByQueue
  <2> QED BY <2>1, <2>2
<1>5. ASSUME NEW w \in Workers, ReadStatus(w) PROVE PromiseNext(v)
  <2>1. CASE v # w  BY <1>5, <2>1, PromiseKeeps DEF ReadStatus, TypeInv, TypeOK
  <2>2. CASE v = w
    <3>1. PICK e \in Events : e = event[v] /\ e = event'[v]
      BY <1>5, <2>2 DEF ReadStatus, TypeInv, JobInv
    <3>2. "airtable" \in seen'[v] => Stored(e)'
      BY <1>1, <1>5, <2>2, <3>1 DEF ReadStatus, SettledParts, RowInv, Effects, TypeInv, TypeOK
    <3>3. pc'[v] \notin {"refused", "complete", "hand_over"}
      BY <1>5, <2>2 DEF ReadStatus, TypeInv, TypeOK
    <3> QED BY <3>1, <3>2, <3>3 DEF PromiseNext, Stored, HeldByQueue
  <2> QED BY <2>1, <2>2
<1>6. ASSUME NEW w \in Workers, NEW e \in Events, Ingress(w, e) PROVE PromiseNext(v)
  <2>1. CASE v # w
    BY <1>6, <2>1, PromiseKeeps DEF Ingress, Claim, ClaimRefused, Visit, TypeInv, TypeOK
  <2>2. CASE v = w /\ Claim(w, e)
    BY <1>3, <2>2 DEF Claim, TypeInv, TypeOK
  <2>3. CASE v = w /\ ClaimRefused(w, e)
    BY <2>3 DEF ClaimRefused, Visit, store, PromiseNext, Active, TypeInv, TypeOK
  <2> QED BY <1>6, <2>1, <2>2, <2>3 DEF Ingress
<1>7. ASSUME NEW w \in Workers, RecordStep(w) \/ ExplainRefusal(w) PROVE PromiseNext(v)
  <2>1. CASE v # w
    <3>1. queued'[v] = queued[v]
      BY <1>7, <2>1 DEF RecordStep, ExplainRefusal, RecordSettled, FindLead, FindLeadFails,
         CreateLead, CreateLeadFails, CompleteRow, Enqueue, EnqueueFails, HandOver, GiveUp,
         RecordFenced, Goto, Return, TypeInv, TypeOK
    <3> QED BY <1>7, <2>1, <3>1, RecordFrame, PromiseKeeps
  <2>2. CASE v = w /\ pc'[w] # "idle"
    <3>1. PICK e \in Events : e = event[v] /\ e = event'[v]
      BY <1>7, <2>2, RecordFrame DEF Recording, TypeInv, JobInv
    <3>2. /\ seen'[v] = seen[v] /\ Active(v) /\ pc[v] # "claimed" /\ pc'[v] # "refused"
      BY <1>7, <2>2, RecordFrame DEF Recording, Active
    <3>3. "airtable" \in seen'[v] => Stored(e)'
      BY <1>1, <3>1, <3>2 DEF PromiseInv
    <3>4. pc'[v] = "complete" => records'[e] > 0
      BY <1>7, <2>2, <3>1 DEF RecordStep, ExplainRefusal, RecordSettled, FindLead,
         FindLeadFails, CreateLead, CreateLeadFails, Created, CompleteRow, Enqueue,
         EnqueueFails, HandOver, GiveUp, RecordFenced, Goto, Return, TypeInv, TypeOK
    <3>5. pc'[v] = "hand_over" =>
            /\ queued'[v] \in TaskIds
            /\ taskEvent'[queued'[v]] = e /\ taskStatus'[queued'[v]] # "none"
      BY <1>7, <2>2, <3>1 DEF RecordStep, ExplainRefusal, RecordSettled, FindLead,
         FindLeadFails, CreateLead, CreateLeadFails, CompleteRow, Enqueue,
         EnqueueFails, HandOver, GiveUp, RecordFenced, Goto, Return, TypeInv, TypeOK
    <3> QED BY <3>1, <3>2, <3>3, <3>4, <3>5 DEF PromiseNext, Stored, HeldByQueue
  <2> QED BY <1>3, <2>1, <2>2
<1>8. Background => UNCHANGED threads
  BY BackgroundFrame DEF threads
<1>9. ASSUME NEW e \in Events, SweepStale(e) PROVE UNCHANGED threads
  BY <1>9 DEF SweepStale
<1>10. CASE Crash
  BY <1>3, <1>10 DEF Crash
<1> QED BY NextKinds, <1>2, <1>4, <1>5, <1>6, <1>7, <1>8, <1>9, <1>10

\* Only Return and the poller's save add to what was accepted.
LEMMA AcceptedStep ==
  ASSUME TypeInv, TypeInv', TaskInv, RowInv, PromiseInv, AcceptedIsDurable, [Next]_vars
  PROVE  AcceptedIsDurable'
<1>1. Kept /\ \A e \in Events : Stored(e) => Stored(e)'
  BY StepStores
<1>2. Accepted \subseteq Events
  BY DEF Accepted, TypeInv, TypeOK
<1> SUFFICES ASSUME NEW e \in Accepted' PROVE Stored(e)'
  BY DEF AcceptedIsDurable, Stored
<1>3. CASE e \in Accepted
  BY <1>1, <1>2, <1>3 DEF AcceptedIsDurable, Stored
<1>4. ASSUME NEW w \in Workers, NEW durable, Return(w, durable)
      PROVE  e \in Accepted \/ (durable /\ e = event[w])
  BY <1>4 DEF Accepted, Return
<1>5. ASSUME NEW w \in Workers, pc[w] # "idle", Stored(event[w]), e = event[w]
      PROVE  Stored(e)'
  BY <1>1, <1>5 DEF TypeInv, JobInv
<1>6. ASSUME NEW w \in Workers, ExplainRefusal(w) PROVE Stored(e)'
  <2>1. RefusalIsDurable(event[w]) => Stored(event[w])
    BY <1>6 DEF ExplainRefusal, RefusalIsDurable, PromiseInv, RowInv, Stored, HeldByQueue,
       TypeInv, TypeOK, JobInv
  <2> QED BY <1>3, <1>4, <1>5, <1>6, <2>1 DEF ExplainRefusal
<1>7. ASSUME NEW w \in Workers, RecordSettled(w) PROVE Stored(e)'
  BY <1>3, <1>4, <1>5, <1>7 DEF RecordSettled, PromiseInv, Active
<1>8. ASSUME NEW w \in Workers, CompleteRow(w) PROVE Stored(e)'
  BY <1>3, <1>4, <1>5, <1>8 DEF CompleteRow, PromiseInv, Stored
<1>9. ASSUME NEW w \in Workers, HandOver(w) PROVE Stored(e)'
  <2>1. Stored(event[w])
    BY <1>9, TaskStores DEF HandOver, PromiseInv
  <2> QED BY <1>3, <1>4, <1>5, <1>9, <2>1 DEF HandOver
<1>10. ASSUME NEW w \in Workers, GiveUp(w) \/ RecordFenced(w) PROVE Stored(e)'
  BY <1>3, <1>4, <1>10 DEF GiveUp, RecordFenced
<1>11. CASE PollEnd
  BY <1>3, <1>11 DEF PollEnd, Trims, Accepted
<1>12. CASE UNCHANGED <<acked, cached>> /\ fresh' \in {fresh, {}}
  BY <1>3, <1>12 DEF Accepted
<1>13. \/ UNCHANGED <<acked, cached>> /\ fresh' \in {fresh, {}}
       \/ PollEnd
       \/ \E w \in Workers : \/ ExplainRefusal(w) \/ RecordSettled(w) \/ CompleteRow(w)
                             \/ HandOver(w) \/ GiveUp(w) \/ RecordFenced(w)
  <2> USE DEF poll
  <2>1. ASSUME NEW w \in Workers, EffectStep(w) PROVE UNCHANGED <<acked, cached, fresh>>
    BY <2>1, EffectFrame
  <2>2. ASSUME NEW w \in Workers, RecordStep(w)
        PROVE  \/ UNCHANGED <<acked, cached, fresh>>
               \/ RecordSettled(w) \/ CompleteRow(w) \/ HandOver(w) \/ GiveUp(w)
               \/ RecordFenced(w)
    BY <2>2 DEF RecordStep, FindLead, FindLeadFails, CreateLead, CreateLeadFails, Enqueue,
       EnqueueFails
  <2>3. CASE Background
    BY <2>3 DEF Background, vars, PollBegin, QueueStep, RqTake, RqFind, RqCreate, RqFails,
       RqComplete, RqDone, RqBackOff, RqDie, Attempted, MonitorStep, MonitorVisit,
       MonitorSend, MonitorSendFails, MonitorMarkSent, LeaseExpires
  <2>4. ASSUME NEW w \in Workers, ReadStatus(w) PROVE UNCHANGED <<acked, cached, fresh>>
    BY <2>4 DEF ReadStatus
  <2>5. ASSUME NEW w \in Workers, NEW d \in Events, Ingress(w, d)
        PROVE  UNCHANGED <<acked, cached, fresh>>
    BY <2>5 DEF Ingress, Claim, ClaimRefused, Visit
  <2>6. ASSUME NEW d \in Events, SweepStale(d) PROVE UNCHANGED <<acked, cached, fresh>>
    BY <2>6 DEF SweepStale
  <2>7. CASE Crash
    BY <2>7 DEF Crash
  <2> QED BY NextKinds, <2>1, <2>2, <2>3, <2>4, <2>5, <2>6, <2>7
<1> QED BY <1>6, <1>7, <1>8, <1>9, <1>10, <1>11, <1>12, <1>13

LEMMA DurableAlways == Spec => []DurableInv
<1>1. Init => DurableInv
  BY ConstantsAssumption DEF Init, DurableInv, TaskInv, RowInv, PromiseInv, Active,
     AcceptedIsDurable, Accepted
<1>2. TypeInv /\ TypeInv' /\ DurableInv /\ [Next]_vars => DurableInv'
  BY TaskStep, RowStep, PromiseStep, AcceptedStep DEF DurableInv
<1> QED BY <1>1, <1>2, TypesAlways, PTL DEF Spec

\* No comment that was acknowledged or cached is lost, for any number of threads,
\* comments, tasks and attempts, whatever crashes and failures come between.
THEOREM NothingAcceptedIsLost == Spec => []AcceptedIsDurable
<1>1. DurableInv => AcceptedIsDurable
  BY DEF DurableInv
<1> QED BY <1>1, DurableAlways, PTL

\* A row says COMPLETED only of a comment that Airtable has, and DEAD only of one
\* whose task used up its attempts.
THEOREM FinalRowsAreTrue == Spec => []FinalRowIsTrue
<1>1. DurableInv => FinalRowIsTrue
  BY DEF DurableInv, RowInv, FinalRowIsTrue
<1> QED BY <1>1, DurableAlways, PTL
=============================================================================
