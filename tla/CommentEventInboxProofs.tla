---------------------- MODULE CommentEventInboxProofs ----------------------
(***************************************************************************)
(* Proofs about CommentEventInbox, for every value of its constants.        *)
(* First the types, which need the retry queue's bookkeeping (JobInv); then  *)
(* the reply lock; then the fencing argument behind AtMostOnce: tokens of    *)
(* threads at work on one event differ and never exceed the row's, an owner  *)
(* that still has an effect ahead of it finds that effect untouched, and at  *)
(* most one thread is between STARTED and the send of an effect.             *)
(***************************************************************************)
EXTENDS CommentEventInbox, TLAPS

\* A busy thread has an event, a running job has its task, and a task that is
\* new or pending has attempts left.
JobInv ==
    /\ \A w \in Workers : pc[w] # "idle" => event[w] \in Events
    /\ rqPc # "idle" => rqTask \in TaskIds /\ taskStatus[rqTask] = "pending"
    /\ monPc # "idle" => monTask \in TaskIds
    /\ \A t \in TaskIds :
          /\ taskStatus[t] \in {"none", "pending"} => tries[t] < MaxAttempts
          /\ taskStatus[t] = "pending" => taskEvent[t] \in Events

TypeInv == TypeOK /\ JobInv

\* Whoever is in the reply section holds the lock.
LockInv == \A w \in Workers : InReply(w) => lock = w

-----------------------------------------------------------------------------
(* The fencing argument. *)

\* The thread holds, or held, a claim on its event.
Active(w) == pc[w] \notin {"idle", "refused"}

\* The thread will still come to the start of effect x.
Ahead(w, x) ==
    \/ pc[w] = "begin" /\ fx[w] = x
    \/ pc[w] = "wait" /\ (x = "private_reply" \/ x \notin seen[w])
    \/ /\ pc[w] \in {"begin", "send", "mark_done", "mark_unknown"}
       /\ fx[w] = "private_reply" /\ x = "telegram" /\ x \notin seen[w]

\* The thread has started effect x of e; it has not sent it yet, or not closed it yet.
Sending(w, e, x)  == pc[w] = "send" /\ event[w] = e /\ fx[w] = x
InFlight(w, e, x) == pc[w] \in {"send", "mark_done", "mark_unknown"} /\ event[w] = e /\ fx[w] = x

Recording == {"create", "complete", "enqueue", "hand_over", "give_up"}

\* A thread's token was the row's, and no two threads share one.
TokenInv ==
    /\ \A w \in Workers : Active(w) => held[w] <= token[event[w]]
    /\ \A v, w \in Workers :
          v # w /\ Active(v) /\ Active(w) /\ event[v] = event[w] => held[v] # held[w]

\* What the owner of a row finds in it.
OwnerInv ==
    \A w \in Workers :
        /\ pc[w] = "wait" => fx[w] = "private_reply"
        /\ Active(w) /\ Owns(w) =>
             \A x \in Effects :
                /\ pc[w] = "claimed" => effect[event[w]][x] # "STARTED"
                /\ Ahead(w, x) => effect[event[w]][x] = "NOT_APPLICABLE"
                /\ InFlight(w, event[w], x) => effect[event[w]][x] = "STARTED"

\* An effect was sent at most once, and not before it was started; at most one
\* thread is about to send it, and then it has not been sent.
SendInv ==
    \A e \in Events, x \in Effects :
        /\ sent[e][x] \in {0, 1}
        /\ effect[e][x] = "NOT_APPLICABLE" =>
              sent[e][x] = 0 /\ \A w \in Workers : ~InFlight(w, e, x)
        /\ \A w \in Workers : Sending(w, e, x) => sent[e][x] = 0
        /\ \A v, w \in Workers : Sending(v, e, x) /\ Sending(w, e, x) => v = w

\* A thread about to write DONE has sent.
EvidenceInv ==
    /\ EffectEvidence
    /\ \A w \in Workers : pc[w] = "mark_done" => sent[event[w]][fx[w]] > 0

\* The owner that is recording finds the Airtable column open.
AirInv ==
    \A w \in Workers :
        /\ pc[w] \in Recording => "airtable" \notin seen[w]
        /\ Active(w) /\ pc[w] # "claimed" /\ "airtable" \notin seen[w] /\ Owns(w)
              => air[event[w]] \notin {"DONE", "RETRY_PENDING"}

FenceInv == TokenInv /\ OwnerInv /\ SendInv /\ EvidenceInv /\ AirInv

-----------------------------------------------------------------------------
(* Types.                                                                   *)

LEMMA InitTypes == Init => TypeInv
BY ConstantsAssumption DEF Init, TypeInv, TypeOK, JobInv, Workers, Effects,
   EffectStatus, AirtableStatus, ThreadPc

LEMMA IngressTypes ==
  ASSUME TypeInv, NEW w \in Workers, NEW e \in Events, Ingress(w, e)
  PROVE  TypeInv'
<1> USE ConstantsAssumption DEF TypeInv, TypeOK, JobInv, EffectStatus, ThreadPc, store,
        queue, rq, mon, Visit
<1>1. CASE Claim(w, e)         BY <1>1 DEF Claim, TakeOver
<1>2. CASE ClaimRefused(w, e)  BY <1>2 DEF ClaimRefused
<1> QED BY <1>1, <1>2 DEF Ingress

LEMMA EffectTypes ==
  ASSUME TypeInv, NEW w \in Workers, EffectStep(w)
  PROVE  TypeInv'
<1> USE ConstantsAssumption DEF TypeInv, TypeOK, JobInv, Effects, EffectStatus, ThreadPc,
        store, poll, queue, rq, mon, Goto, LeaveEffect, AfterEffect
<1>1. CASE TakeReplyLock(w)  BY <1>1 DEF TakeReplyLock
<1>2. CASE GuardRefuses(w)   BY <1>2 DEF GuardRefuses
<1>3. CASE BeginEffect(w)    BY <1>3 DEF BeginEffect
<1>4. CASE SendEffect(w)     BY <1>4 DEF SendEffect, Delivered
<1>5. CASE SendEffectFails(w)
  <2>1. CASE UNCHANGED sent  BY <1>5, <2>1 DEF SendEffectFails, Fault
  <2>2. CASE Delivered(w)    BY <1>5, <2>2 DEF SendEffectFails, Delivered, Fault
  <2> QED BY <1>5, <2>1, <2>2 DEF SendEffectFails
<1>6. CASE MarkDone(w)       BY <1>6 DEF MarkDone
<1>7. CASE MarkUnknown(w)    BY <1>7 DEF MarkUnknown
<1>8. CASE EffectFenced(w)   BY <1>8 DEF EffectFenced
<1> QED BY <1>1, <1>2, <1>3, <1>4, <1>5, <1>6, <1>7, <1>8 DEF EffectStep

LEMMA RecordTypes ==
  ASSUME TypeInv, NEW w \in Workers, RecordStep(w)
  PROVE  TypeInv'
<1> USE ConstantsAssumption DEF TypeInv, TypeOK, JobInv, Effects, AirtableStatus, ThreadPc,
        store, poll, queue, rq, mon, Goto, Return
<1>1. CASE RecordSettled(w)    BY <1>1 DEF RecordSettled
<1>2. CASE FindLead(w)         BY <1>2 DEF FindLead
<1>3. CASE FindLeadFails(w)    BY <1>3 DEF FindLeadFails, Fault
<1>4. CASE CreateLead(w)       BY <1>4 DEF CreateLead, Created
<1>5. CASE CreateLeadFails(w)
  <2>1. CASE UNCHANGED records  BY <1>5, <2>1 DEF CreateLeadFails, Fault
  <2>2. CASE Created(event[w])  BY <1>5, <2>2 DEF CreateLeadFails, Created, Fault
  <2> QED BY <1>5, <2>1, <2>2 DEF CreateLeadFails
<1>6. CASE CompleteRow(w)      BY <1>6 DEF CompleteRow, Recorded
<1>7. CASE Enqueue(w)
  <2>1. PICK t \in TaskIds :
          /\ taskStatus[t] = "none"
          /\ taskStatus' = [taskStatus EXCEPT ![t] = "pending"]
          /\ taskEvent' = [taskEvent EXCEPT ![t] = event[w]]
          /\ queued' = [queued EXCEPT ![w] = t]
    BY <1>7 DEF Enqueue
  <2>2. TypeOK'  BY <1>7, <2>1 DEF Enqueue
  <2>3. JobInv'  BY <1>7, <2>1 DEF Enqueue
  <2> QED BY <2>2, <2>3
<1>8. CASE EnqueueFails(w)     BY <1>8 DEF EnqueueFails, Fault
<1>9. CASE HandOver(w)         BY <1>9 DEF HandOver
<1>10. CASE GiveUp(w)          BY <1>10 DEF GiveUp
<1>11. CASE RecordFenced(w)    BY <1>11 DEF RecordFenced
<1> QED BY <1>1, <1>2, <1>3, <1>4, <1>5, <1>6, <1>7, <1>8, <1>9, <1>10, <1>11
        DEF RecordStep

LEMMA QueueTypes ==
  ASSUME TypeInv, QueueStep
  PROVE  TypeInv'
<1> USE ConstantsAssumption DEF TypeInv, TypeOK, JobInv, AirtableStatus, store, threads,
        poll, queue, mon, RqGoto, Attempted, Created, Fault
<1>1. ASSUME NEW t \in TaskIds, RqTake(t) PROVE TypeInv'
      BY <1>1 DEF RqTake
<1>2. CASE RqFind     BY <1>2 DEF RqFind
<1>3. CASE RqCreate   BY <1>3 DEF RqCreate
<1>4. CASE RqFails
  <2>1. CASE UNCHANGED records           BY <1>4, <2>1 DEF RqFails
  <2>2. CASE Created(taskEvent[rqTask])  BY <1>4, <2>2 DEF RqFails
  <2> QED BY <1>4, <2>1, <2>2 DEF RqFails
<1>5. CASE RqComplete
  <2>1. CASE UNCHANGED store             BY <1>5, <2>1 DEF RqComplete
  <2>2. CASE Recorded(taskEvent[rqTask]) BY <1>5, <2>2 DEF RqComplete, Recorded
  <2> QED BY <1>5, <2>1, <2>2 DEF RqComplete
<1>6. CASE RqDone     BY <1>6 DEF RqDone
<1>7. CASE RqBackOff  BY <1>7 DEF RqBackOff
<1>8. CASE RqDie      BY <1>8 DEF RqDie
<1> QED BY <1>1, <1>2, <1>3, <1>4, <1>5, <1>6, <1>7, <1>8 DEF QueueStep

LEMMA MonitorTypes ==
  ASSUME TypeInv, MonitorStep
  PROVE  TypeInv'
<1> USE ConstantsAssumption DEF TypeInv, TypeOK, JobInv, store, threads, poll, queue, rq
<1>1. ASSUME NEW t \in TaskIds, MonitorVisit(t) PROVE TypeInv'
      BY <1>1 DEF MonitorVisit, MarkDead
<1>2. CASE MonitorSend       BY <1>2 DEF MonitorSend
<1>3. CASE MonitorSendFails  BY <1>3 DEF MonitorSendFails, Fault
<1>4. CASE MonitorMarkSent   BY <1>4 DEF MonitorMarkSent
<1> QED BY <1>1, <1>2, <1>3, <1>4 DEF MonitorStep

\* The poller's own bookkeeping, a lease that runs out, the sweep and a crash.
LEMMA OtherTypes ==
  ASSUME TypeInv,
         \/ PollBegin \/ PollEnd \/ Crash
         \/ \E e \in Events : LeaseExpires(e) \/ SweepStale(e)
  PROVE  TypeInv'
<1> USE ConstantsAssumption DEF TypeInv, TypeOK, JobInv, Effects, EffectStatus, ThreadPc,
        store, threads, poll, queue, rq, mon, Fault
<1>1. CASE PollBegin  BY <1>1 DEF PollBegin
<1>2. CASE PollEnd    BY <1>2 DEF PollEnd, Trims
<1>3. CASE Crash      BY <1>3 DEF Crash
<1>4. ASSUME NEW e \in Events, LeaseExpires(e) PROVE TypeInv'
      BY <1>4 DEF LeaseExpires
<1>5. ASSUME NEW e \in Events, SweepStale(e) PROVE TypeInv'
      BY <1>5 DEF SweepStale, TakeOver
<1> QED BY <1>1, <1>2, <1>3, <1>4, <1>5

LEMMA WorkerTypes ==
  ASSUME TypeInv, NEW w \in Workers, WorkerStep(w)
  PROVE  TypeInv'
<1> USE ConstantsAssumption DEF TypeInv, TypeOK, JobInv, Effects, ThreadPc, store, poll,
        queue, rq, mon
<1>1. CASE ExplainRefusal(w)  BY <1>1 DEF ExplainRefusal, Return
<1>2. CASE ReadStatus(w)      BY <1>2 DEF ReadStatus, SettledParts
<1>3. CASE EffectStep(w)      BY <1>3, EffectTypes
<1>4. CASE RecordStep(w)      BY <1>4, RecordTypes
<1> QED BY <1>1, <1>2, <1>3, <1>4 DEF WorkerStep

LEMMA NextTypes == TypeInv /\ [Next]_vars => TypeInv'
<1> SUFFICES ASSUME TypeInv, [Next]_vars PROVE TypeInv'
  OBVIOUS
<1>1. CASE UNCHANGED vars
  BY <1>1 DEF TypeInv, TypeOK, JobInv, vars, store, threads, poll, queue, rq, mon
<1>2. CASE Next
  BY <1>2, WorkerTypes, IngressTypes, QueueTypes, MonitorTypes, OtherTypes
     DEF Next, PollStep, Workers
<1> QED BY <1>1, <1>2

LEMMA TypesAlways == Spec => []TypeInv
BY InitTypes, NextTypes, PTL DEF Spec

\* Every reachable state is well typed, whatever crashes, failures and
\* interleavings the comment path meets.
THEOREM TypeCorrect == Spec => []TypeOK
<1>1. TypeInv => TypeOK  BY DEF TypeInv
<1> QED BY <1>1, TypesAlways, PTL

-----------------------------------------------------------------------------
(* Frames: what a group of actions leaves alone.                            *)

\* The steps of everyone but the threads that handle comments, and a lease
\* that runs out.
Background ==
    \/ PollBegin \/ PollEnd \/ QueueStep \/ MonitorStep
    \/ \E e \in Events : LeaseExpires(e)
    \/ UNCHANGED vars

LEMMA BackgroundFrame ==
  ASSUME Background
  PROVE  UNCHANGED <<token, effect, review, pc, event, held, seen, fx, queued, lock, sent>>
<1> USE DEF store, threads, mon
<1>1. CASE PollBegin BY <1>1 DEF PollBegin
<1>2. CASE PollEnd BY <1>2 DEF PollEnd
<1>3. CASE QueueStep
  BY <1>3 DEF QueueStep, RqTake, RqFind, RqCreate, RqFails, RqComplete, RqDone, RqBackOff,
     RqDie, Attempted, Recorded
<1>4. CASE MonitorStep
  BY <1>4 DEF MonitorStep, MonitorVisit, MonitorSend, MonitorSendFails, MonitorMarkSent,
     MarkDead
<1>5. CASE \E e \in Events : LeaseExpires(e)
  BY <1>5 DEF LeaseExpires
<1>6. CASE UNCHANGED vars BY <1>6 DEF vars
<1> QED BY <1>1, <1>2, <1>3, <1>4, <1>5, <1>6 DEF Background

\* A thread outside the effects: it goes on inside the call, or returns.
LEMMA RecordFrame ==
  ASSUME TypeInv, NEW w \in Workers, RecordStep(w) \/ ExplainRefusal(w)
  PROVE  /\ UNCHANGED <<token, effect, review, lock, sent>>
         /\ \A v \in Workers \ {w} :
               /\ pc'[v] = pc[v] /\ event'[v] = event[v] /\ held'[v] = held[v]
               /\ seen'[v] = seen[v] /\ fx'[v] = fx[v]
         /\ \/ pc'[w] = "idle"
            \/ /\ pc[w] \in {"record"} \cup Recording
               /\ pc'[w] \in Recording
               /\ event'[w] = event[w] /\ held'[w] = held[w]
               /\ seen'[w] = seen[w] /\ fx'[w] = fx[w]
<1> USE DEF TypeInv, TypeOK, store, Goto, Return, Recording
<1>1. CASE ExplainRefusal(w)   BY <1>1 DEF ExplainRefusal
<1>2. CASE RecordSettled(w)    BY <1>2 DEF RecordSettled
<1>3. CASE FindLead(w)         BY <1>3 DEF FindLead
<1>4. CASE FindLeadFails(w)    BY <1>4 DEF FindLeadFails
<1>5. CASE CreateLead(w)       BY <1>5 DEF CreateLead
<1>6. CASE CreateLeadFails(w)  BY <1>6 DEF CreateLeadFails
<1>7. CASE CompleteRow(w)      BY <1>7 DEF CompleteRow, Recorded
<1>8. CASE Enqueue(w)          BY <1>8 DEF Enqueue
<1>9. CASE EnqueueFails(w)     BY <1>9 DEF EnqueueFails
<1>10. CASE HandOver(w)        BY <1>10 DEF HandOver
<1>11. CASE GiveUp(w)          BY <1>11 DEF GiveUp
<1>12. CASE RecordFenced(w)    BY <1>12 DEF RecordFenced
<1> QED BY <1>1, <1>2, <1>3, <1>4, <1>5, <1>6, <1>7, <1>8, <1>9, <1>10, <1>11, <1>12
        DEF RecordStep

\* A thread at its effects writes nothing but the effect, its trace and the lock.
LEMMA EffectFrame ==
  ASSUME TypeInv, NEW w \in Workers, EffectStep(w)
  PROVE  /\ UNCHANGED <<status, token, air, task, records, queue, rq, event, held, seen,
                        queued, acked, fresh, cached, todo>>
         /\ \A v \in Workers \ {w} : pc'[v] = pc[v] /\ fx'[v] = fx[v]
         /\ pc[w] \notin {"idle", "refused", "claimed"}
         /\ pc'[w] \in {"begin", "send", "mark_done", "mark_unknown", "record"}
<1> USE DEF TypeInv, TypeOK, store, poll, Goto, LeaveEffect, AfterEffect
<1>1. CASE TakeReplyLock(w)    BY <1>1 DEF TakeReplyLock
<1>2. CASE GuardRefuses(w)     BY <1>2 DEF GuardRefuses
<1>3. CASE BeginEffect(w)      BY <1>3 DEF BeginEffect
<1>4. CASE SendEffect(w)       BY <1>4 DEF SendEffect
<1>5. CASE SendEffectFails(w)  BY <1>5 DEF SendEffectFails
<1>6. CASE MarkDone(w)         BY <1>6 DEF MarkDone
<1>7. CASE MarkUnknown(w)      BY <1>7 DEF MarkUnknown
<1>8. CASE EffectFenced(w)     BY <1>8 DEF EffectFenced
<1> QED BY <1>1, <1>2, <1>3, <1>4, <1>5, <1>6, <1>7, <1>8 DEF EffectStep

\* Every step is one of six kinds.
LEMMA NextKinds ==
  ASSUME [Next]_vars
  PROVE  \/ Background
         \/ \E w \in Workers : EffectStep(w)
         \/ \E w \in Workers : RecordStep(w) \/ ExplainRefusal(w)
         \/ \E w \in Workers : ReadStatus(w)
         \/ \E w \in Workers, e \in Events : Ingress(w, e)
         \/ \E e \in Events : SweepStale(e)
         \/ Crash
BY DEF Next, Background, PollStep, WorkerStep, Workers

-----------------------------------------------------------------------------
(* The reply lock.                                                          *)

\* The lock is taken before the section, and given up by its holder only.
LEMMA LockStep ==
  ASSUME TypeInv, LockInv, [Next]_vars
  PROVE  LockInv'
<1> USE DEF LockInv, InReply
<1>1. CASE Background
  BY <1>1, BackgroundFrame
<1>2. ASSUME NEW w \in Workers, RecordStep(w) \/ ExplainRefusal(w) PROVE LockInv'
  BY <1>2, RecordFrame DEF Recording
<1> USE ConstantsAssumption DEF TypeInv, TypeOK, JobInv, store, threads, poll, Effects, Workers
<1>3. ASSUME NEW w \in Workers, EffectStep(w) PROVE LockInv'
  <2>1. CASE TakeReplyLock(w)   BY <2>1 DEF TakeReplyLock, Goto
  <2>2. CASE GuardRefuses(w)    BY <2>2 DEF GuardRefuses, LeaveEffect, AfterEffect
  <2>3. CASE BeginEffect(w)     BY <2>3 DEF BeginEffect, Goto
  <2>4. CASE SendEffect(w)      BY <2>4 DEF SendEffect, Delivered, Goto
  <2>5. CASE SendEffectFails(w) BY <2>5 DEF SendEffectFails, Delivered, Goto
  <2>6. CASE MarkDone(w)        BY <2>6 DEF MarkDone, LeaveEffect, AfterEffect
  <2>7. CASE MarkUnknown(w)     BY <2>7 DEF MarkUnknown, LeaveEffect, AfterEffect
  <2>8. CASE EffectFenced(w)    BY <2>8 DEF EffectFenced, LeaveEffect, AfterEffect
  <2> QED BY <1>3, <2>1, <2>2, <2>3, <2>4, <2>5, <2>6, <2>7, <2>8 DEF EffectStep
<1>4. ASSUME NEW w \in Workers, ReadStatus(w) PROVE LockInv'
  BY <1>4 DEF ReadStatus, SettledParts, Settled, EffectStatus
<1>5. ASSUME NEW w \in Workers, NEW e \in Events, Ingress(w, e) PROVE LockInv'
  <2>1. CASE Claim(w, e)         BY <2>1 DEF Claim, Visit, TakeOver
  <2>2. CASE ClaimRefused(w, e)  BY <2>2 DEF ClaimRefused, Visit
  <2> QED BY <1>5, <2>1, <2>2 DEF Ingress
<1>6. ASSUME NEW e \in Events, SweepStale(e) PROVE LockInv'
  BY <1>6 DEF SweepStale, TakeOver
<1>7. CASE Crash
  BY <1>7 DEF Crash
<1> QED BY NextKinds, <1>1, <1>2, <1>3, <1>4, <1>5, <1>6, <1>7

\* The reply section is exclusive for any number of comments and threads.
THEOREM ReplyIsExclusive == Spec => []ReplySectionIsExclusive
<1>1. Init => LockInv
  BY DEF Init, LockInv, InReply
<1>2. TypeInv /\ LockInv /\ [Next]_vars => LockInv'
  BY LockStep
<1>3. LockInv => ReplySectionIsExclusive
  BY DEF LockInv, ReplySectionIsExclusive
<1> QED BY <1>1, <1>2, <1>3, TypesAlways, PTL DEF Spec

-----------------------------------------------------------------------------
(* The fencing argument, one part of FenceInv after the other.              *)

\* A claim hands out a token no thread has seen.
LEMMA TokenStep ==
  ASSUME TypeInv, TokenInv, [Next]_vars
  PROVE  TokenInv'
<1> USE DEF TokenInv, Active
<1>1. CASE Background
  BY <1>1, BackgroundFrame
<1>2. ASSUME NEW w \in Workers, RecordStep(w) \/ ExplainRefusal(w) PROVE TokenInv'
  BY <1>2, RecordFrame DEF Recording
<1> USE ConstantsAssumption DEF TypeInv, TypeOK, JobInv, store, threads, poll, Effects, Workers
<1>3. ASSUME NEW w \in Workers, EffectStep(w) PROVE TokenInv'
  <2>1. CASE TakeReplyLock(w)   BY <2>1 DEF TakeReplyLock, Goto
  <2>2. CASE GuardRefuses(w)    BY <2>2 DEF GuardRefuses, LeaveEffect, AfterEffect
  <2>3. CASE BeginEffect(w)     BY <2>3 DEF BeginEffect, Goto
  <2>4. CASE SendEffect(w)      BY <2>4 DEF SendEffect, Delivered, Goto
  <2>5. CASE SendEffectFails(w) BY <2>5 DEF SendEffectFails, Delivered, Goto
  <2>6. CASE MarkDone(w)        BY <2>6 DEF MarkDone, LeaveEffect, AfterEffect
  <2>7. CASE MarkUnknown(w)     BY <2>7 DEF MarkUnknown, LeaveEffect, AfterEffect
  <2>8. CASE EffectFenced(w)    BY <2>8 DEF EffectFenced, LeaveEffect, AfterEffect
  <2> QED BY <1>3, <2>1, <2>2, <2>3, <2>4, <2>5, <2>6, <2>7, <2>8 DEF EffectStep
<1>4. ASSUME NEW w \in Workers, ReadStatus(w) PROVE TokenInv'
  BY <1>4 DEF ReadStatus, SettledParts, Settled, EffectStatus
<1>5. ASSUME NEW w \in Workers, NEW e \in Events, Ingress(w, e) PROVE TokenInv'
  <2>1. CASE Claim(w, e)         BY <2>1 DEF Claim, Visit, TakeOver
  <2>2. CASE ClaimRefused(w, e)  BY <2>2 DEF ClaimRefused, Visit
  <2> QED BY <1>5, <2>1, <2>2 DEF Ingress
<1>6. ASSUME NEW e \in Events, SweepStale(e) PROVE TokenInv'
  BY <1>6 DEF SweepStale, TakeOver
<1>7. CASE Crash
  BY <1>7 DEF Crash
<1> QED BY NextKinds, <1>1, <1>2, <1>3, <1>4, <1>5, <1>6, <1>7

\* Only the owner changes the effects of a row it is still to run.
LEMMA OwnerStep ==
  ASSUME TypeInv, TokenInv, OwnerInv, [Next]_vars
  PROVE  OwnerInv'
<1> USE DEF TokenInv, OwnerInv, Active, Owns, Ahead, InFlight
<1>1. CASE Background
  BY <1>1, BackgroundFrame
<1>2. ASSUME NEW w \in Workers, RecordStep(w) \/ ExplainRefusal(w) PROVE OwnerInv'
  BY <1>2, RecordFrame DEF Recording
<1> USE ConstantsAssumption DEF TypeInv, TypeOK, JobInv, store, threads, poll, Effects, Workers
<1>3. ASSUME NEW w \in Workers, EffectStep(w) PROVE OwnerInv'
  <2>1. CASE TakeReplyLock(w)   BY <2>1 DEF TakeReplyLock, Goto
  <2>2. CASE GuardRefuses(w)    BY <2>2 DEF GuardRefuses, LeaveEffect, AfterEffect
  <2>3. CASE BeginEffect(w)     BY <2>3 DEF BeginEffect, Goto
  <2>4. CASE SendEffect(w)      BY <2>4 DEF SendEffect, Delivered, Goto
  <2>5. CASE SendEffectFails(w) BY <2>5 DEF SendEffectFails, Delivered, Goto
  <2>6. CASE MarkDone(w)        BY <2>6 DEF MarkDone, LeaveEffect, AfterEffect
  <2>7. CASE MarkUnknown(w)     BY <2>7 DEF MarkUnknown, LeaveEffect, AfterEffect
  <2>8. CASE EffectFenced(w)    BY <2>8 DEF EffectFenced, LeaveEffect, AfterEffect
  <2> QED BY <1>3, <2>1, <2>2, <2>3, <2>4, <2>5, <2>6, <2>7, <2>8 DEF EffectStep
<1>4. ASSUME NEW w \in Workers, ReadStatus(w) PROVE OwnerInv'
  BY <1>4 DEF ReadStatus, SettledParts, Settled, EffectStatus
<1>5. ASSUME NEW w \in Workers, NEW e \in Events, Ingress(w, e) PROVE OwnerInv'
  <2>1. CASE Claim(w, e)         BY <2>1 DEF Claim, Visit, TakeOver
  <2>2. CASE ClaimRefused(w, e)  BY <2>2 DEF ClaimRefused, Visit
  <2> QED BY <1>5, <2>1, <2>2 DEF Ingress
<1>6. ASSUME NEW e \in Events, SweepStale(e) PROVE OwnerInv'
  BY <1>6 DEF SweepStale, TakeOver
<1>7. CASE Crash
  BY <1>7 DEF Crash
<1> QED BY NextKinds, <1>1, <1>2, <1>3, <1>4, <1>5, <1>6, <1>7

\* An owner that starts an effect finds it untouched, ...
LEMMA StartsUntouched ==
  ASSUME TypeInv, OwnerInv, NEW w \in Workers, BeginEffect(w)
  PROVE  effect[event[w]][fx[w]] = "NOT_APPLICABLE"
<1>1. fx[w] \in Effects
  BY DEF TypeInv, TypeOK
<1>2. Active(w) /\ Owns(w) /\ Ahead(w, fx[w])
  BY DEF BeginEffect, Active, Ahead
<1> QED BY <1>1, <1>2 DEF OwnerInv

\* ... and one that closes an effect finds it open.
LEMMA ClosesStarted ==
  ASSUME TypeInv, OwnerInv, NEW w \in Workers, MarkDone(w) \/ MarkUnknown(w)
  PROVE  effect[event[w]][fx[w]] = "STARTED"
<1>1. fx[w] \in Effects
  BY DEF TypeInv, TypeOK
<1>2. Active(w) /\ Owns(w) /\ InFlight(w, event[w], fx[w])
  BY DEF MarkDone, MarkUnknown, Active, InFlight
<1> QED BY <1>1, <1>2 DEF OwnerInv

\* An effect is started from NOT_APPLICABLE, hence by one thread, once.
LEMMA SendStep ==
  ASSUME TypeInv, TokenInv, OwnerInv, SendInv, [Next]_vars
  PROVE  SendInv'
<1> USE DEF OwnerInv, SendInv, Active, Owns, Ahead, InFlight, Sending
<1>1. CASE Background
  BY <1>1, BackgroundFrame
<1>2. ASSUME NEW w \in Workers, RecordStep(w) \/ ExplainRefusal(w) PROVE SendInv'
  BY <1>2, RecordFrame DEF Recording
<1> USE ConstantsAssumption DEF TypeInv, TypeOK, JobInv, store, threads, poll, Effects, Workers
<1>3. ASSUME NEW w \in Workers, EffectStep(w) PROVE SendInv'
  <2>1. CASE TakeReplyLock(w)   BY <2>1 DEF TakeReplyLock, Goto
  <2>2. CASE GuardRefuses(w)    BY <2>2 DEF GuardRefuses, LeaveEffect, AfterEffect
  <2>3. CASE BeginEffect(w)
    <3>1. effect[event[w]][fx[w]] = "NOT_APPLICABLE"
      BY ONLY TypeInv, OwnerInv, <2>3, StartsUntouched
    <3>2. \A v \in Workers : ~InFlight(v, event[w], fx[w]) /\ sent[event[w]][fx[w]] = 0
      BY <2>3, <3>1 DEF BeginEffect
    <3> QED BY <2>3, <3>1, <3>2 DEF BeginEffect, Goto
  <2>4. CASE SendEffect(w)      BY <2>4 DEF SendEffect, Delivered, Goto
  <2>5. CASE SendEffectFails(w) BY <2>5 DEF SendEffectFails, Delivered, Goto
  <2>6. CASE MarkDone(w)        BY <2>6 DEF MarkDone, LeaveEffect, AfterEffect
  <2>7. CASE MarkUnknown(w)     BY <2>7 DEF MarkUnknown, LeaveEffect, AfterEffect
  <2>8. CASE EffectFenced(w)    BY <2>8 DEF EffectFenced, LeaveEffect, AfterEffect
  <2> QED BY <1>3, <2>1, <2>2, <2>3, <2>4, <2>5, <2>6, <2>7, <2>8 DEF EffectStep
<1>4. ASSUME NEW w \in Workers, ReadStatus(w) PROVE SendInv'
  BY <1>4 DEF ReadStatus, SettledParts, Settled, EffectStatus
<1>5. ASSUME NEW w \in Workers, NEW e \in Events, Ingress(w, e) PROVE SendInv'
  <2>1. CASE Claim(w, e)         BY <2>1 DEF Claim, Visit, TakeOver
  <2>2. CASE ClaimRefused(w, e)  BY <2>2 DEF ClaimRefused, Visit
  <2> QED BY <1>5, <2>1, <2>2 DEF Ingress
<1>6. ASSUME NEW e \in Events, SweepStale(e) PROVE SendInv'
  BY <1>6 DEF SweepStale, TakeOver
<1>7. CASE Crash
  BY <1>7 DEF Crash
<1> QED BY NextKinds, <1>1, <1>2, <1>3, <1>4, <1>5, <1>6, <1>7

\* DONE is written after the send, UNKNOWN together with the review mark.
LEMMA EvidenceStep ==
  ASSUME TypeInv, SendInv, SendInv', EvidenceInv, [Next]_vars
  PROVE  EvidenceInv'
<1> USE DEF SendInv, EvidenceInv, EffectEvidence, InFlight, Owns, Sending
<1>1. CASE Background
  BY <1>1, BackgroundFrame
<1>2. ASSUME NEW w \in Workers, RecordStep(w) \/ ExplainRefusal(w) PROVE EvidenceInv'
  BY <1>2, RecordFrame DEF Recording
<1> USE ConstantsAssumption DEF TypeInv, TypeOK, JobInv, store, threads, poll, Effects, Workers
<1>3. ASSUME NEW w \in Workers, EffectStep(w) PROVE EvidenceInv'
  <2>1. CASE TakeReplyLock(w)   BY <2>1 DEF TakeReplyLock, Goto
  <2>2. CASE GuardRefuses(w)    BY <2>2 DEF GuardRefuses, LeaveEffect, AfterEffect
  <2>3. CASE BeginEffect(w)     BY <2>3 DEF BeginEffect, Goto
  <2>4. CASE SendEffect(w)      BY <2>4 DEF SendEffect, Delivered, Goto
  <2>5. CASE SendEffectFails(w)
    <3>1. CASE UNCHANGED sent  BY <2>5, <3>1 DEF SendEffectFails, Goto
    <3>2. CASE Delivered(w)    BY <2>5, <3>2 DEF SendEffectFails, Delivered, Goto
    <3> QED BY <2>5, <3>1, <3>2 DEF SendEffectFails
  <2>6. CASE MarkDone(w)        BY <2>6 DEF MarkDone, LeaveEffect, AfterEffect
  <2>7. CASE MarkUnknown(w)     BY <2>7 DEF MarkUnknown, LeaveEffect, AfterEffect
  <2>8. CASE EffectFenced(w)    BY <2>8 DEF EffectFenced, LeaveEffect, AfterEffect
  <2> QED BY <1>3, <2>1, <2>2, <2>3, <2>4, <2>5, <2>6, <2>7, <2>8 DEF EffectStep
<1>4. ASSUME NEW w \in Workers, ReadStatus(w) PROVE EvidenceInv'
  BY <1>4 DEF ReadStatus, SettledParts, Settled, EffectStatus
<1>5. ASSUME NEW w \in Workers, NEW e \in Events, Ingress(w, e) PROVE EvidenceInv'
  <2>1. CASE Claim(w, e)         BY <2>1 DEF Claim, Visit, TakeOver
  <2>2. CASE ClaimRefused(w, e)  BY <2>2 DEF ClaimRefused, Visit
  <2> QED BY <1>5, <2>1, <2>2 DEF Ingress
<1>6. ASSUME NEW e \in Events, SweepStale(e) PROVE EvidenceInv'
  BY <1>6 DEF SweepStale, TakeOver
<1>7. CASE Crash
  BY <1>7 DEF Crash
<1> QED BY NextKinds, <1>1, <1>2, <1>3, <1>4, <1>5, <1>6, <1>7

\* AirInv is about the record steps too, each of which writes the column differently.
LEMMA AirStep ==
  ASSUME TypeInv, TokenInv, AirInv, [Next]_vars
  PROVE  AirInv'
<1> USE DEF TokenInv, AirInv, Active, Owns, Recording
<1>1. ASSUME NEW w \in Workers, EffectStep(w) PROVE AirInv'
  BY <1>1, EffectFrame
<1> USE ConstantsAssumption DEF TypeInv, TypeOK, JobInv, store, threads, poll, Workers
<1>2. CASE Background
  <2>1. CASE RqComplete
    <3>1. CASE UNCHANGED store              BY <2>1, <3>1 DEF RqComplete
    <3>2. CASE Recorded(taskEvent[rqTask])  BY <2>1, <3>2 DEF RqComplete, Recorded
    <3> QED BY <2>1, <3>1, <3>2 DEF RqComplete
  <2>2. CASE UNCHANGED <<air, token, threads>>
    BY <2>2
  <2>3. RqComplete \/ UNCHANGED <<air, token, threads>>
    BY <1>2 DEF Background, vars, PollBegin, PollEnd, QueueStep, RqTake, RqFind, RqCreate,
       RqFails, RqDone, RqBackOff, RqDie, Attempted, MonitorStep, MonitorVisit, MonitorSend,
       MonitorSendFails, MonitorMarkSent, MarkDead, LeaseExpires
  <2> QED BY <2>1, <2>2, <2>3
<1>3. ASSUME NEW w \in Workers, RecordStep(w) \/ ExplainRefusal(w) PROVE AirInv'
  <2> USE DEF Goto, Return
  <2>1. CASE ExplainRefusal(w)   BY <2>1 DEF ExplainRefusal
  <2>2. CASE RecordSettled(w)    BY <2>2 DEF RecordSettled
  <2>3. CASE FindLead(w)         BY <2>3 DEF FindLead
  <2>4. CASE FindLeadFails(w)    BY <2>4 DEF FindLeadFails
  <2>5. CASE CreateLead(w)       BY <2>5 DEF CreateLead
  <2>6. CASE CreateLeadFails(w)  BY <2>6 DEF CreateLeadFails
  <2>7. CASE CompleteRow(w)      BY <2>7 DEF CompleteRow, Recorded
  <2>8. CASE Enqueue(w)          BY <2>8 DEF Enqueue
  <2>9. CASE EnqueueFails(w)     BY <2>9 DEF EnqueueFails
  <2>10. CASE HandOver(w)        BY <2>10 DEF HandOver
  <2>11. CASE GiveUp(w)          BY <2>11 DEF GiveUp
  <2>12. CASE RecordFenced(w)    BY <2>12 DEF RecordFenced
  <2> QED BY <1>3, <2>1, <2>2, <2>3, <2>4, <2>5, <2>6, <2>7, <2>8, <2>9, <2>10, <2>11, <2>12
          DEF RecordStep
<1>4. ASSUME NEW w \in Workers, ReadStatus(w) PROVE AirInv'
  BY <1>4 DEF ReadStatus, SettledParts, Effects
<1>5. ASSUME NEW w \in Workers, NEW e \in Events, Ingress(w, e) PROVE AirInv'
  <2>1. CASE Claim(w, e)         BY <2>1 DEF Claim, Visit, TakeOver
  <2>2. CASE ClaimRefused(w, e)  BY <2>2 DEF ClaimRefused, Visit
  <2> QED BY <1>5, <2>1, <2>2 DEF Ingress
<1>6. ASSUME NEW e \in Events, SweepStale(e) PROVE AirInv'
  BY <1>6 DEF SweepStale, TakeOver
<1>7. CASE Crash
  BY <1>7 DEF Crash
<1> QED BY NextKinds, <1>1, <1>2, <1>3, <1>4, <1>5, <1>6, <1>7

LEMMA FenceAlways == Spec => []FenceInv
<1>1. Init => FenceInv
  BY ConstantsAssumption DEF Init, FenceInv, TokenInv, OwnerInv, SendInv, EvidenceInv,
     EffectEvidence, AirInv, Active, Owns, Ahead, InFlight, Sending, Recording, Effects
<1>2. TypeInv /\ TypeInv' /\ FenceInv /\ [Next]_vars => FenceInv'
  <2> SUFFICES ASSUME TypeInv, FenceInv, [Next]_vars PROVE FenceInv'
    OBVIOUS
  <2>1. TokenInv'     BY TokenStep DEF FenceInv
  <2>2. OwnerInv'     BY OwnerStep DEF FenceInv
  <2>3. SendInv'      BY SendStep DEF FenceInv
  <2>4. EvidenceInv'  BY <2>3, EvidenceStep DEF FenceInv
  <2>5. AirInv'       BY AirStep DEF FenceInv
  <2> QED BY <2>1, <2>2, <2>3, <2>4, <2>5 DEF FenceInv
<1> QED BY <1>1, <1>2, TypesAlways, PTL DEF Spec

\* No private reply and no notice is ever sent twice, for any number of threads,
\* comments, expired leases, reclaims and crashes.
THEOREM SentAtMostOnce == Spec => []AtMostOnce
<1>1. FenceInv => AtMostOnce
  BY DEF FenceInv, SendInv, AtMostOnce
<1> QED BY <1>1, FenceAlways, PTL

\* The effect columns never claim more, or less, than what happened.
THEOREM EffectsAreEvidenced == Spec => []EffectEvidence
<1>1. FenceInv => EffectEvidence
  BY DEF FenceInv, EvidenceInv
<1> QED BY <1>1, FenceAlways, PTL

\* No thread, reclaim, queue task or crash reopens what is settled.
THEOREM SettledIsFinal == Spec => SettledStays
<1> DEFINE Stays == \A e \in Events :
                      /\ \A x \in Effects :
                            effect[e][x] \in Settled => effect'[e][x] = effect[e][x]
                      /\ air[e] = "DONE" => air'[e] = "DONE"
<1>1. TypeInv /\ FenceInv /\ [Next]_vars => Stays
  <2> SUFFICES ASSUME TypeInv, FenceInv, [Next]_vars PROVE Stays
    OBVIOUS
  <2> USE DEF Settled, store
  <2>1. ASSUME NEW w \in Workers, EffectStep(w) PROVE Stays
    <3>1. air' = air
      BY <2>1, EffectFrame
    <3>2. UNCHANGED effect \/ BeginEffect(w) \/ MarkDone(w) \/ MarkUnknown(w)
      BY <2>1 DEF EffectStep, TakeReplyLock, GuardRefuses, SendEffect, SendEffectFails,
         EffectFenced
    <3>3. CASE BeginEffect(w)
      <4>1. effect[event[w]][fx[w]] = "NOT_APPLICABLE"
        BY <3>3, StartsUntouched DEF FenceInv
      <4> QED BY <3>1, <3>3, <4>1 DEF BeginEffect, TypeInv, TypeOK
    <3>4. CASE MarkDone(w) \/ MarkUnknown(w)
      <4>1. effect[event[w]][fx[w]] = "STARTED"
        BY <3>4, ClosesStarted DEF FenceInv
      <4>2. CASE MarkDone(w)     BY <3>1, <4>1, <4>2 DEF MarkDone, TypeInv, TypeOK
      <4>3. CASE MarkUnknown(w)  BY <3>1, <4>1, <4>3 DEF MarkUnknown, TypeInv, TypeOK
      <4> QED BY <3>4, <4>2, <4>3
    <3> QED BY <3>1, <3>2, <3>3, <3>4
  <2>2. ASSUME NEW w \in Workers, RecordStep(w) \/ ExplainRefusal(w) PROVE Stays
    <3>1. effect' = effect
      BY <2>2, RecordFrame
    <3>2. UNCHANGED air \/ CompleteRow(w) \/ HandOver(w) \/ GiveUp(w)
      BY <2>2 DEF RecordStep, ExplainRefusal, RecordSettled, FindLead, FindLeadFails,
         CreateLead, CreateLeadFails, Enqueue, EnqueueFails, RecordFenced
    <3>3. CASE CompleteRow(w)
      BY <3>1, <3>3 DEF CompleteRow, Recorded, TypeInv, TypeOK
    <3>4. CASE HandOver(w) \/ GiveUp(w)
      <4>1. air[event[w]] # "DONE"
        BY <3>4 DEF HandOver, GiveUp, FenceInv, AirInv, Active, Recording
      <4> QED BY <3>1, <3>4, <4>1 DEF HandOver, GiveUp, TypeInv, TypeOK
    <3> QED BY <3>1, <3>2, <3>3, <3>4
  <2>3. CASE Background
    <3>1. effect' = effect
      BY <2>3, BackgroundFrame
    <3>2. UNCHANGED air \/ RqComplete
      BY <2>3 DEF Background, vars, PollBegin, PollEnd, QueueStep, RqTake, RqFind, RqCreate,
         RqFails, RqDone, RqBackOff, RqDie, Attempted, MonitorStep, MonitorVisit,
         MonitorSend, MonitorSendFails, MonitorMarkSent, MarkDead, LeaseExpires
    <3>3. CASE RqComplete
      BY <3>1, <3>3 DEF RqComplete, Recorded, TypeInv, TypeOK
    <3> QED BY <3>1, <3>2, <3>3
  <2>4. ASSUME NEW w \in Workers, ReadStatus(w) PROVE Stays
    BY <2>4 DEF ReadStatus
  <2>5. ASSUME NEW w \in Workers, NEW e \in Events, Ingress(w, e) PROVE Stays
    <3>1. CASE Claim(w, e)         BY <3>1 DEF Claim, TakeOver, TypeInv, TypeOK
    <3>2. CASE ClaimRefused(w, e)  BY <3>2 DEF ClaimRefused
    <3> QED BY <2>5, <3>1, <3>2 DEF Ingress
  <2>6. ASSUME NEW e \in Events, SweepStale(e) PROVE Stays
    BY <2>6 DEF SweepStale, TakeOver, TypeInv, TypeOK
  <2>7. CASE Crash
    BY <2>7 DEF Crash
  <2> QED BY NextKinds, <2>1, <2>2, <2>3, <2>4, <2>5, <2>6, <2>7
<1>2. TypeInv /\ FenceInv /\ [Next]_vars => [Stays]_vars
  BY <1>1
<1> QED BY <1>2, TypesAlways, FenceAlways, PTL DEF Spec, SettledStays
====
