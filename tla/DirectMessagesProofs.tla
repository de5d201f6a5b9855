----------------------- MODULE DirectMessagesProofs -----------------------
(***************************************************************************)
(* What the answers to direct messages keep to for any number of messages,   *)
(* requests, retry tasks and failures.  The argument: a claim token is given  *)
(* out once, so one request at most completes the row of a message; from      *)
(* then on the answer is in one hand at a time, the request, the AI job or    *)
(* the one retry task, and the row tells each of them how far the others      *)
(* came.                                                                    *)
(***************************************************************************)
EXTENDS DirectMessages, FiniteSetTheorems, TLAPS

\* Where a request has the message recorded, and is about to answer it.
Answering == {"reply", "start", "send", "mark_done", "doubt", "queue_reply"}

\* The message is in Airtable, or the retry queue has it.
Kept(m) ==
    \/ leads[m] > 0
    \/ \E t \in TaskIds : taskKind[t] = "record" /\ taskMsg[t] = m

ReplyTask(t, m) == taskKind[t] = "reply" /\ taskMsg[t] = m

\* The request has the claim of the message that counts.
Holds(w, m) == msg[w] = m /\ held[w] > 0 /\ held[w] = token[m]

\* The request is the one that answers the message.
Answers(w, m) == pc[w] \in Answering /\ ~quiet[w] /\ held[w] > 0 /\ msg[w] = m

\* What a request has, and what it has seen to.
ThreadOk(w) ==
    /\ pc[w] = "idle" => held[w] = 0
    /\ pc[w] # "idle" => msg[w] \in Messages
    /\ held[w] > 0 => dedup /\ held[w] <= token[msg[w]]
    /\ pc[w] \in Answering \ {"reply"} => ~quiet[w]
    /\ pc[w] \in {"start", "mark_done", "doubt"} => held[w] > 0
    /\ dedup /\ pc[w] # "idle" /\ ~quiet[w] => held[w] > 0
    /\ pc[w] \in {"complete", "complete_queued"} => Kept(msg[w])
    /\ pc[w] \notin Answering /\ held[w] > 0 /\ held[w] = token[msg[w]] =>
          row[msg[w]] # "COMPLETED"

\* A claim is given to one request.
ClaimInv ==
    \A v, w \in Requests : held[v] > 0 /\ held[v] = held[w] /\ msg[v] = msg[w] => v = w

\* The request that answers has the answer in its hands alone.
AnswerOk(w) ==
    \A m \in Messages : Answers(w, m) =>
        /\ Holds(w, m) /\ row[m] = "COMPLETED"
        /\ job[m] = "none" /\ \A t \in TaskIds : ~ReplyTask(t, m)
        /\ reply[m] = IF pc[w] \in {"reply", "start"} THEN "NOT_APPLICABLE" ELSE "STARTED"
        /\ pc[w] \in {"reply", "start", "send", "queue_reply"} => replies[m] = 0
        /\ pc[w] = "mark_done" => replies[m] = 1

\* So has the AI job, until it is over.
JobOk(m) ==
    job[m] # "none" =>
        /\ dedup /\ row[m] = "COMPLETED"
        /\ \A w \in Requests : ~Holds(w, m)
        /\ job[m] # "finish" => \A t \in TaskIds : ~ReplyTask(t, m)
        /\ job[m] \in {"queued", "waiting", "begin"} => reply[m] = "NOT_APPLICABLE"
        /\ job[m] \in {"generate", "send", "mark_done", "failed"} => reply[m] = "SENDING"
        /\ job[m] = "enqueue" => reply[m] = "STARTED"
        /\ job[m] = "doubt" => reply[m] \in {"SENDING", "STARTED"}
        /\ job[m] \in {"generate", "send", "failed", "enqueue"} => replies[m] = 0
        /\ job[m] = "mark_done" => replies[m] = 1

\* A task is of a message; one to reply is the only one, follows the request and the
\* job, and finds the row STARTED only if nothing was sent.
TaskOk(t) ==
    /\ taskStatus[t] = "none" <=> taskKind[t] = "none"
    /\ taskKind[t] # "none" => taskMsg[t] \in Messages
    /\ taskStatus[t] = "none" => tries[t] = 0
    /\ taskStatus[t] = "pending" => tries[t] < MaxAttempts
    /\ \A m \in Messages : dedup /\ ReplyTask(t, m) =>
          /\ row[m] = "COMPLETED" /\ job[m] \in {"none", "finish"}
          /\ \A w \in Requests : ~Holds(w, m)
          /\ reply[m] # "NOT_APPLICABLE"
          /\ reply[m] = "STARTED" => replies[m] = 0
          /\ \A u \in TaskIds : ReplyTask(u, m) => u = t

\* The worker of the queue is at a pending task, and knows what it did with it.
WorkerInv ==
    /\ rqPc # "idle" => rqTask \in TaskIds /\ taskStatus[rqTask] = "pending"
    /\ rqPc \in {"check", "send", "mark_done", "failed", "doubt", "doubt_raise"} =>
          taskKind[rqTask] = "reply"
    /\ rqPc \in {"check", "mark_done", "failed", "doubt", "doubt_raise"} => dedup
    /\ dedup /\ rqPc \in {"send", "mark_done", "failed", "doubt", "doubt_raise"} =>
          /\ reply[taskMsg[rqTask]] = "SENDING"
          /\ rqPc \in {"send", "failed"} => replies[taskMsg[rqTask]] = 0
          /\ rqPc = "mark_done" => replies[taskMsg[rqTask]] = 1

\* The lock of the buyer is the running job's, and each job has its permit.
Busy == {m \in Messages : job[m] # "none"}
LockInv ==
    /\ \A m \in Messages : job[m] \notin {"none", "queued", "waiting"} <=> aiLock = m
    /\ IsFiniteSet(Busy) /\ permits = Cardinality(Busy)

RowOk(m) ==
    /\ row[m] = "COMPLETED" => Kept(m)
    /\ dedup /\ row[m] # "COMPLETED" => reply[m] = "NOT_APPLICABLE"
    /\ dedup => /\ replies[m] <= 1
                /\ reply[m] = "NOT_APPLICABLE" => replies[m] = 0
                /\ reply[m] = "DONE" => replies[m] = 1

ThreadInv == \A w \in Requests : ThreadOk(w)
AnswerInv == \A w \in Requests : AnswerOk(w)
JobInv    == \A m \in Messages : JobOk(m)
TaskInv   == \A t \in TaskIds : TaskOk(t)
RowInv    == \A m \in Messages : RowOk(m)

ReplyInv ==
    /\ TypeOK /\ ThreadInv /\ ClaimInv /\ AnswerInv
    /\ JobInv /\ LockInv /\ TaskInv /\ WorkerInv /\ RowInv

-----------------------------------------------------------------------------
(* Types.                                                                   *)

LEMMA EnqueueTypes ==
    ASSUME TypeOK, NEW kind \in {"record", "reply"}, NEW m \in Messages, Enqueue(kind, m)
    PROVE  /\ taskKind' \in [TaskIds -> {"none", "record", "reply"}]
           /\ taskMsg' \in [TaskIds -> Messages \cup {Nobody}]
           /\ taskStatus' \in [TaskIds -> {"none", "pending", "done", "dead"}]
           /\ UNCHANGED <<tries, aged>>
BY DEF Enqueue, TypeOK

LEMMA FaultTypes ==
    ASSUME TypeOK, Fault \/ Fine
    PROVE  faults' \in 0 .. MaxFaults
BY ConstantsAssumption DEF Fault, Fine, TypeOK

ThreadTypes ==
    /\ pc \in [Requests -> WebhookPc]
    /\ msg \in [Requests -> Messages \cup {Nobody}]
    /\ held \in [Requests -> Nat]
    /\ quiet \in [Requests -> BOOLEAN]
    /\ acked \subseteq Messages

LEMMA MoveTypes ==
    ASSUME TypeOK, NEW w \in Requests
    PROVE  /\ \A label \in WebhookPc : Goto(w, label) /\ UNCHANGED acked => ThreadTypes'
           /\ \A answered \in BOOLEAN : Leave(w, answered) /\ msg[w] \in Messages => ThreadTypes'
           /\ \A m \in Messages, claim \in Nat, mute \in BOOLEAN :
                 Enter(w, m, claim, mute) => ThreadTypes'
<1>1. \A label \in WebhookPc : Goto(w, label) /\ UNCHANGED acked => ThreadTypes'
  BY DEF Goto, ThreadTypes, TypeOK
<1>2. \A answered \in BOOLEAN : Leave(w, answered) /\ msg[w] \in Messages => ThreadTypes'
  BY DEF Leave, ThreadTypes, TypeOK, WebhookPc
<1>3. \A m \in Messages, claim \in Nat, mute \in BOOLEAN : Enter(w, m, claim, mute) => ThreadTypes'
  BY DEF Enter, ThreadTypes, TypeOK, WebhookPc
<1> QED
  BY <1>1, <1>2, <1>3

LEMMA ArrivalTypes ==
    ASSUME TypeOK, NEW w \in Requests, NEW m \in Messages,
           Claim(w, m) \/ Duplicate(w, m) \/ TakeUnclaimed(w, m)
    PROVE  TypeOK'
<1>1. faults' \in 0 .. MaxFaults
  BY FaultTypes DEF Claim, Duplicate, TakeUnclaimed
<1>2. requests' \in 0 .. MaxRequests
  <2>1. Arrives(w)
    BY DEF Claim, Duplicate, TakeUnclaimed
  <2>2. w \in 0 .. MaxRequests
    BY ConstantsAssumption DEF Requests
  <2> QED
    BY <2>1, <2>2 DEF Arrives
<1>3. ThreadTypes'
  <2>1. token[m] + 1 \in Nat
    BY DEF TypeOK
  <2>2. Claim(w, m) \/ TakeUnclaimed(w, m) => ThreadTypes'
    BY <2>1, MoveTypes DEF Claim, TakeUnclaimed, TypeOK
  <2>3. Duplicate(w, m) => ThreadTypes'
    BY DEF Duplicate, threads, ThreadTypes, TypeOK
  <2> QED
    BY <2>2, <2>3
<1>4. /\ row' \in [Messages -> {"ABSENT", "PROCESSING", "COMPLETED"}]
      /\ token' \in [Messages -> Nat]
      /\ lease' \in [Messages -> {"live", "expired"}]
      /\ reply' \in [Messages -> {"NOT_APPLICABLE", "SENDING", "STARTED", "DONE", "UNKNOWN"}]
  <2>1. CASE Claim(w, m)
    <3>1. token[m] + 1 \in Nat
      BY DEF TypeOK
    <3>2. (IF reply[m] = "STARTED" THEN "UNKNOWN" ELSE reply[m])
              \in {"NOT_APPLICABLE", "SENDING", "STARTED", "DONE", "UNKNOWN"}
      BY DEF TypeOK
    <3> QED
      BY <2>1, <3>1, <3>2 DEF Claim, SetReply, TypeOK
  <2>2. CASE UNCHANGED store
    BY <2>2 DEF store, TypeOK
  <2> QED
    BY <2>1, <2>2 DEF Duplicate, TakeUnclaimed
<1>5. UNCHANGED <<mode, dedup, memory, ai, queue, rq, alerts, leads, replies>>
  BY DEF Claim, Duplicate, TakeUnclaimed, Enter
<1> QED
  BY <1>1, <1>2, <1>3, <1>4, <1>5 DEF ThreadTypes, memory, ai, queue, rq, alerts, TypeOK

\* The steps of a request that has a message.
Handles(w) ==
    \/ Record(w) \/ QueueRecord(w) \/ CompleteQueued(w) \/ Complete(w)
    \/ NoReply(w) \/ DispatchAi(w) \/ SkipBusy(w) \/ Reserve(w)
    \/ StartReply(w) \/ SendReply(w) \/ MarkReplied(w) \/ MarkDoubt(w) \/ QueueReply(w)

LEMMA HandlesType ==
    ASSUME TypeOK, ThreadInv, NEW w \in Requests, Handles(w)
    PROVE  TypeOK'
<1> USE DEF Handles, Record, QueueRecord, CompleteQueued, Complete, NoReply, DispatchAi, SkipBusy,
            Reserve, StartReply, SendReply, MarkReplied, MarkDoubt, QueueReply
<1>1. pc[w] # "idle" /\ msg[w] \in Messages
  BY DEF ThreadInv, ThreadOk
<1>2. faults' \in 0 .. MaxFaults
  BY FaultTypes DEF Tell
<1>3. ThreadTypes'
  <2>1. "complete" \in WebhookPc /\ "queue_record" \in WebhookPc /\ "complete_queued" \in WebhookPc
        /\ "reply" \in WebhookPc /\ "start" \in WebhookPc /\ "send" \in WebhookPc
        /\ "mark_done" \in WebhookPc /\ "doubt" \in WebhookPc /\ "queue_reply" \in WebhookPc
    BY DEF WebhookPc
  <2>2. (\E label \in WebhookPc : Goto(w, label) /\ UNCHANGED acked)
        \/ (\E answered \in BOOLEAN : Leave(w, answered))
        \/ (pc' = [pc EXCEPT ![w] = "reply"] /\ quiet' = [quiet EXCEPT ![w] = TRUE]
            /\ UNCHANGED <<msg, held, acked>>)
    BY <2>1 DEF outside
  <2> QED
    BY <1>1, <2>1, <2>2, MoveTypes DEF ThreadTypes, TypeOK
<1>4. /\ row' \in [Messages -> {"ABSENT", "PROCESSING", "COMPLETED"}]
      /\ reply' \in [Messages -> {"NOT_APPLICABLE", "SENDING", "STARTED", "DONE", "UNKNOWN"}]
      /\ UNCHANGED <<token, lease>>
  <2>1. reply' = reply \/ \E s \in {"STARTED", "DONE", "UNKNOWN"} :
            SetReply(msg[w], s) \/ SetReply(msg[w], reply[msg[w]])
    BY DEF store
  <2>2. row' = row \/ row' = [row EXCEPT ![msg[w]] = "COMPLETED"]
    BY DEF store
  <2>3. UNCHANGED <<token, lease>>
    BY DEF store
  <2>4. reply' \in [Messages -> {"NOT_APPLICABLE", "SENDING", "STARTED", "DONE", "UNKNOWN"}]
    BY <1>1, <2>1 DEF SetReply, TypeOK
  <2> QED
    BY <1>1, <2>2, <2>3, <2>4 DEF TypeOK
<1>5. /\ leads' \in [Messages -> Nat] /\ replies' \in [Messages -> Nat]
      /\ requests' \in 0 .. MaxRequests
  <2>1. leads[msg[w]] + 1 \in Nat /\ replies[msg[w]] + 1 \in Nat
    BY <1>1 DEF TypeOK
  <2>2. /\ leads' = leads \/ leads' = [leads EXCEPT ![msg[w]] = @ + 1]
        /\ replies' = replies \/ replies' = [replies EXCEPT ![msg[w]] = @ + 1]
        /\ requests' = requests
    BY DEF Create, CreateFails, Deliver, InDoubt, outside
  <2> QED
    BY <2>1, <2>2 DEF TypeOK
<1>6. slots' \subseteq Messages \cup {Buyer} /\ hold' \in BOOLEAN /\ handoff' \in BOOLEAN
  <2>1. Slot(msg[w]) \in Messages \cup {Buyer}
    BY <1>1 DEF Slot
  <2>2. /\ (hold /\ mode \notin {"template_en", "handoff_en"}) \in BOOLEAN
        /\ (handoff \/ mode = "handoff_en") \in BOOLEAN
        /\ (handoff /\ mode \notin {"template_en", "handoff_en"}) \in BOOLEAN
    OBVIOUS
  <2> QED
    BY <2>1, <2>2 DEF Release, memory, TypeOK
<1>7. /\ taskKind' \in [TaskIds -> {"none", "record", "reply"}]
      /\ taskMsg' \in [TaskIds -> Messages \cup {Nobody}]
      /\ taskStatus' \in [TaskIds -> {"none", "pending", "done", "dead"}]
      /\ UNCHANGED <<tries, aged>>
  BY <1>1, EnqueueTypes DEF queue, TypeOK
<1>8. /\ job' \in [Messages -> JobPc] /\ aiLock' = aiLock
      /\ permits' \in 0 .. MaxPending
  <2>1. permits < MaxPending => permits + 1 \in 0 .. MaxPending
    BY ConstantsAssumption DEF TypeOK
  <2> QED
    BY <1>1, <2>1 DEF ai, JobPc, TypeOK
<1>9. told' \subseteq Messages \cup TaskIds /\ deadAlert' = deadAlert
  BY <1>1 DEF Tell, alerts, TypeOK
<1>10. UNCHANGED <<mode, dedup, rq>>
  OBVIOUS
<1> QED
  BY <1>2, <1>3, <1>4, <1>5, <1>6, <1>7, <1>8, <1>9, <1>10 DEF ThreadTypes, rq, TypeOK

LEMMA AiTypes ==
    ASSUME TypeOK, LockInv, NEW m \in Messages, AiJob(m)
    PROVE  TypeOK'
<1> USE DEF AiJob, AiTake, AiLock, AiBegin, AiGenerate, AiSend, AiMarkDone, AiFailed, AiEnqueue,
            AiDoubt, AiFinish
<1>1. faults' \in 0 .. MaxFaults
  BY FaultTypes DEF Tell
<1>2. job' \in [Messages -> JobPc] /\ aiLock' \in Messages \cup {Nobody}
  BY DEF Step, JobPc, TypeOK
<1>3. permits' \in 0 .. MaxPending
  <2>1. AiFinish(m) => permits # 0
    <3>1. AiFinish(m) => m \in Busy
      BY DEF Busy
    <3> QED
      BY <3>1, FS_EmptySet DEF LockInv
  <2> QED
    BY <2>1, ConstantsAssumption DEF TypeOK
<1>4. /\ reply' \in [Messages -> {"NOT_APPLICABLE", "SENDING", "STARTED", "DONE", "UNKNOWN"}]
      /\ UNCHANGED <<row, token, lease, leads, acked, requests>>
      /\ replies' \in [Messages -> Nat]
  BY DEF SetReply, Deliver, InDoubt, store, outside, TypeOK
<1>5. /\ taskKind' \in [TaskIds -> {"none", "record", "reply"}]
      /\ taskMsg' \in [TaskIds -> Messages \cup {Nobody}]
      /\ taskStatus' \in [TaskIds -> {"none", "pending", "done", "dead"}]
      /\ UNCHANGED <<tries, aged>>
  BY EnqueueTypes DEF queue, TypeOK
<1>6. told' \subseteq Messages \cup TaskIds /\ hold' \in BOOLEAN
      /\ UNCHANGED <<deadAlert, slots, handoff>>
  BY DEF Tell, alerts, memory, TypeOK
<1>7. UNCHANGED <<mode, dedup, threads, rq>>
  OBVIOUS
<1> QED
  BY <1>1, <1>2, <1>3, <1>4, <1>5, <1>6, <1>7 DEF threads, rq, TypeOK

LEMMA WorkerTypes ==
    ASSUME TypeOK, TaskInv, WorkerInv, RetryWorker
    PROVE  TypeOK'
<1> USE DEF RetryWorker, RqTake, RqCheck, RqSend, RqMarkDone, RqFailed, RqDoubt, RqRecord, RqEnd
<1>1. rqPc # "idle" => rqTask \in TaskIds
  BY DEF WorkerInv
<1>2. rqPc # "idle" => taskMsg[rqTask] \in Messages
  BY <1>1 DEF WorkerInv, TaskInv, TaskOk
<1>3. faults' \in 0 .. MaxFaults
  BY FaultTypes DEF Tell
<1>4. rqPc' \in RetryPc /\ rqTask' \in TaskIds \cup {Nobody}
  BY DEF RqGoto, RetryPc, TypeOK
<1>5. /\ reply' \in [Messages -> {"NOT_APPLICABLE", "SENDING", "STARTED", "DONE", "UNKNOWN"}]
      /\ UNCHANGED <<row, token, lease, acked, requests>>
      /\ leads' \in [Messages -> Nat] /\ replies' \in [Messages -> Nat]
  BY <1>2 DEF SetReply, Deliver, InDoubt, Create, CreateFails, store, outside, TypeOK
<1>6. /\ tries' \in [TaskIds -> 0 .. MaxAttempts]
      /\ taskStatus' \in [TaskIds -> {"none", "pending", "done", "dead"}]
      /\ UNCHANGED <<taskKind, taskMsg, aged>>
  <2>1. CASE RqEnd
    <3>1. tries[rqTask] + 1 \in 0 .. MaxAttempts
      BY <1>1, <2>1, ConstantsAssumption DEF WorkerInv, TaskInv, TaskOk, TypeOK
    <3> QED
      BY <2>1, <3>1 DEF TypeOK
  <2>2. CASE ~RqEnd
    BY <2>2 DEF queue, TypeOK
  <2> QED
    BY <2>1, <2>2
<1>7. told' \subseteq Messages \cup TaskIds /\ hold' \in BOOLEAN
      /\ UNCHANGED <<deadAlert, slots, handoff>>
  BY <1>2 DEF Tell, alerts, memory, TypeOK
<1>8. UNCHANGED <<mode, dedup, threads, ai>>
  OBVIOUS
<1> QED
  BY <1>3, <1>4, <1>5, <1>6, <1>7, <1>8 DEF threads, ai, TypeOK

LEMMA OtherTypes ==
    ASSUME TypeOK, Monitor \/ WindowEnds \/ Restart \/ \E m \in Messages : LeaseExpires(m)
    PROVE  TypeOK'
<1>1. faults' \in 0 .. MaxFaults
  BY FaultTypes DEF Monitor, ReportStuck, ReportDead, Tell, WindowEnds, Restart, LeaseExpires
<1>2. CASE Monitor
  BY <1>1, <1>2 DEF Monitor, ReportStuck, ReportDead, Tell, store, threads, memory, ai, queue, rq,
                    outside, TypeOK
<1>3. CASE WindowEnds
  BY <1>1, <1>3 DEF WindowEnds, store, threads, ai, queue, rq, alerts, outside, TypeOK
<1>4. CASE Restart
  <2>1. 0 \in 0 .. MaxPending
    BY ConstantsAssumption
  <2> QED
    BY <1>1, <1>4, <2>1 DEF Restart, store, alerts, outside, TypeOK, WebhookPc, JobPc, RetryPc
<1>5. CASE \E m \in Messages : LeaseExpires(m)
  BY <1>1, <1>5 DEF LeaseExpires, threads, memory, ai, queue, rq, alerts, outside, TypeOK
<1> QED
  BY <1>2, <1>3, <1>4, <1>5

LEMMA TypeStep ==
    ASSUME TypeOK, ThreadInv, LockInv, TaskInv, WorkerInv, Next
    PROVE  TypeOK'
BY ArrivalTypes, HandlesType, AiTypes, WorkerTypes, OtherTypes DEF Next, Webhook, Handles

-----------------------------------------------------------------------------
(* The answer is in one hand.                                               *)

Others == ThreadInv /\ ClaimInv /\ AnswerInv /\ JobInv /\ LockInv /\ TaskInv /\ WorkerInv /\ RowInv

LEMMA InitReplies == Init => ReplyInv
<1> SUFFICES ASSUME Init PROVE ReplyInv
  OBVIOUS
<1>1. TypeOK
  <2>1. 0 \in 0 .. MaxPending /\ 0 \in 0 .. MaxAttempts /\ 0 \in 0 .. MaxRequests
        /\ 0 \in 0 .. MaxFaults
    BY ConstantsAssumption
  <2> QED
    BY <2>1 DEF Init, TypeOK, WebhookPc, JobPc, RetryPc
<1>2. ThreadInv /\ ClaimInv /\ AnswerInv /\ JobInv /\ WorkerInv /\ RowInv
  BY DEF Init, ThreadInv, ThreadOk, ClaimInv, AnswerInv, AnswerOk, Answers, Answering, JobInv, JobOk,
         WorkerInv, RowInv, RowOk
<1>3. TaskInv
  BY ConstantsAssumption DEF Init, TaskInv, TaskOk, ReplyTask
<1>4. LockInv
  <2>1. Busy = {}
    BY DEF Init, Busy
  <2> QED
    BY <2>1, FS_EmptySet, ConstantsAssumption DEF Init, LockInv
<1> QED
  BY <1>1, <1>2, <1>3, <1>4 DEF ReplyInv

\* Steps that touch nothing of the above.
Untouched ==
    <<dedup, row, token, reply, threads, job, aiLock, permits, taskKind, taskMsg, tries, taskStatus,
      rq, leads, replies>>

LEMMA UntouchedStep ==
    ASSUME ReplyInv, UNCHANGED Untouched
    PROVE  Others'
<1> USE DEF ReplyInv
<1>0. UNCHANGED <<dedup, row, token, reply, pc, msg, held, quiet, job, aiLock, permits, taskKind,
                  taskMsg, tries, taskStatus, rqPc, rqTask, leads, replies>>
  BY DEF Untouched, threads, rq
<1>1. Busy' = Busy /\ \A m \in Messages : Kept(m)' <=> Kept(m)
  BY <1>0 DEF Busy, Kept
<1>2. \A w \in Requests, m \in Messages :
          (Holds(w, m)' <=> Holds(w, m)) /\ (Answers(w, m)' <=> Answers(w, m))
  BY <1>0 DEF Holds, Answers
<1>3. \A t \in TaskIds, m \in Messages : ReplyTask(t, m)' <=> ReplyTask(t, m)
  BY <1>0 DEF ReplyTask
<1>4. ThreadInv' /\ ClaimInv' /\ AnswerInv'
  <2>1. ThreadInv'
    BY <1>0, <1>1 DEF ThreadInv, ThreadOk
  <2>2. ClaimInv'
    BY <1>0 DEF ClaimInv
  <2>3. AnswerInv'
    BY <1>0, <1>2, <1>3 DEF AnswerInv, AnswerOk
  <2> QED
    BY <2>1, <2>2, <2>3
<1>5. JobInv' /\ LockInv' /\ RowInv'
  <2>1. JobInv'
    BY <1>0, <1>2, <1>3 DEF JobInv, JobOk
  <2>2. LockInv' /\ RowInv'
    BY <1>0, <1>1 DEF LockInv, RowInv, RowOk
  <2> QED
    BY <2>1, <2>2
<1>6. TaskInv' /\ WorkerInv'
  <2>1. TaskInv'
    BY <1>0, <1>2, <1>3 DEF TaskInv, TaskOk
  <2>2. WorkerInv'
    BY <1>0 DEF WorkerInv
  <2> QED
    BY <2>1, <2>2
<1> QED
  BY <1>4, <1>5, <1>6 DEF Others

LEMMA ArrivalStep ==
    ASSUME ReplyInv, TypeOK', NEW w \in Requests, NEW m \in Messages,
           Claim(w, m) \/ Duplicate(w, m) \/ TakeUnclaimed(w, m)
    PROVE  Others'
<1> USE DEF ReplyInv
<1>1. CASE Duplicate(w, m)
  BY <1>1, UntouchedStep DEF Duplicate, Untouched, store, ai, queue
<1>2. CASE Claim(w, m) \/ TakeUnclaimed(w, m)
  <2>1. /\ \A v \in Requests \ {w} : /\ pc'[v] = pc[v] /\ msg'[v] = msg[v]
                                     /\ held'[v] = held[v] /\ quiet'[v] = quiet[v]
        /\ pc'[w] = "record" /\ msg'[w] = m
        /\ UNCHANGED <<dedup, job, aiLock, permits, queue, rq, leads, replies>>
    BY <1>2 DEF Claim, TakeUnclaimed, Enter, ai, TypeOK
  <2>2. /\ \A q \in Messages : token'[q] >= token[q]
        /\ \A q \in Messages \ {m} : token'[q] = token[q] /\ row'[q] = row[q] /\ reply'[q] = reply[q]
        /\ \/ held'[w] > token[m] /\ held'[w] = token'[m] /\ dedup /\ ~quiet'[w]
              /\ row[m] # "COMPLETED" /\ row'[m] # "COMPLETED"
              /\ (reply[m] # "STARTED" => reply'[m] = reply[m])
           \/ held'[w] = 0 /\ (dedup => quiet'[w]) /\ UNCHANGED <<token, row, reply>>
    BY <1>2 DEF Claim, TakeUnclaimed, Enter, SetReply, store, TypeOK
  <2>3. row[m] # "COMPLETED" => /\ job[m] = "none"
                                /\ dedup => reply[m] = "NOT_APPLICABLE"
                                /\ dedup => \A t \in TaskIds : ~ReplyTask(t, m)
    BY DEF JobInv, JobOk, TaskInv, TaskOk, RowInv, RowOk
  <2>4a. \A q \in Messages : reply'[q] = reply[q]
    BY <2>2, <2>3
  <2>4b. \A q \in Messages : row[q] = "COMPLETED" <=> row'[q] = "COMPLETED"
    BY <2>2
  <2>5. \A q \in Messages : Kept(q)' <=> Kept(q)
    BY <2>1 DEF Kept, queue
  <2>6. ASSUME NEW v \in Requests, NEW q \in Messages
        PROVE  /\ Answers(v, q)' => v # w /\ Answers(v, q)
               /\ Holds(v, q)' => Holds(v, q) \/ (v = w /\ q = m /\ row[m] # "COMPLETED")
    <3>1. Answers(v, q)' => v # w /\ Answers(v, q)
      BY <2>1 DEF Answers, Answering
    <3>2. Holds(v, q)' /\ v # w => Holds(v, q)
      <4>1. v # w /\ held[v] > 0 /\ msg[v] = q => held[v] <= token[q]
        BY DEF ThreadInv, ThreadOk
      <4> QED
        BY <2>1, <2>2, <4>1 DEF Holds, TypeOK
    <3>3. Holds(v, q)' /\ v = w => q = m /\ row[m] # "COMPLETED"
      BY <2>1, <2>2 DEF Holds
    <3> QED
      BY <3>1, <3>2, <3>3
  <2>7. ASSUME NEW v \in Requests, NEW q \in Messages, Answers(v, q), v # w
        PROVE  Holds(v, q)'
    BY <2>1, <2>2, <2>7 DEF AnswerInv, AnswerOk, Holds, Answers
  <2>8. \A t \in TaskIds, q \in Messages : ReplyTask(t, q)' <=> ReplyTask(t, q)
    BY <2>1 DEF ReplyTask, queue
  <2>9. ThreadInv'
    <3>1. ThreadOk(w)'
      BY <2>1, <2>2 DEF ThreadOk, Answering, TypeOK
    <3>2. ASSUME NEW v \in Requests \ {w} PROVE ThreadOk(v)'
      <4>1. held[v] > 0 => msg[v] \in Messages /\ held[v] <= token'[msg[v]]
        <5>1. held[v] > 0 => msg[v] \in Messages /\ held[v] <= token[msg[v]]
          BY DEF ThreadInv, ThreadOk
        <5> QED
          BY <2>2, <5>1 DEF TypeOK
      <4>2. held[v] > 0 /\ held[v] = token'[msg[v]] => held[v] = token[msg[v]]
        <5>1. held[v] > 0 => msg[v] \in Messages /\ held[v] <= token[msg[v]]
          BY DEF ThreadInv, ThreadOk
        <5> QED
          BY <2>2, <5>1 DEF TypeOK
      <4> QED
        BY <2>1, <2>4b, <2>5, <4>1, <4>2 DEF ThreadInv, ThreadOk
    <3> QED
      BY <3>1, <3>2 DEF ThreadInv
  <2>10. ClaimInv'
    BY <2>1, <2>2 DEF ClaimInv, ThreadInv, ThreadOk, TypeOK
  <2>11. AnswerInv'
    BY <2>1, <2>4a, <2>4b, <2>6, <2>7, <2>8 DEF AnswerInv, AnswerOk
  <2>12. JobInv'
    BY <2>1, <2>4a, <2>4b, <2>6, <2>8 DEF JobInv, JobOk
  <2>13. LockInv'
    <3>1. Busy' = Busy
      BY <2>1 DEF Busy
    <3> QED
      BY <2>1, <3>1 DEF LockInv
  <2>14. TaskInv'
    BY <2>1, <2>4a, <2>4b, <2>6, <2>8 DEF TaskInv, TaskOk, queue
  <2>15. WorkerInv'
    BY <2>1, <2>4a DEF WorkerInv, TaskInv, TaskOk, queue, rq
  <2>16. RowInv'
    BY <2>1, <2>4a, <2>4b, <2>5 DEF RowInv, RowOk
  <2> QED
    BY <2>9, <2>10, <2>11, <2>12, <2>13, <2>14, <2>15, <2>16 DEF Others
<1> QED
  BY <1>1, <1>2

LEMMA RestartStep ==
    ASSUME ReplyInv, Restart
    PROVE  Others'
<1> USE DEF ReplyInv
<1>1. /\ \A w \in Requests : pc'[w] = "idle" /\ held'[w] = 0
      /\ \A m \in Messages : job'[m] = "none"
      /\ aiLock' = Nobody /\ permits' = 0 /\ rqPc' = "idle"
      /\ UNCHANGED <<dedup, store, taskKind, taskMsg, tries, taskStatus, leads, replies>>
  BY DEF Restart, outside
<1>2. ThreadInv' /\ ClaimInv' /\ AnswerInv'
  BY <1>1 DEF ThreadInv, ThreadOk, ClaimInv, AnswerInv, AnswerOk, Answers, Answering
<1>3. JobInv' /\ WorkerInv'
  BY <1>1 DEF JobInv, JobOk, WorkerInv
<1>4. LockInv'
  <2>1. Busy' = {}
    BY <1>1 DEF Busy
  <2> QED
    BY <1>1, <2>1, FS_EmptySet, ConstantsAssumption DEF LockInv
<1>5. TaskInv'
  BY <1>1 DEF TaskInv, TaskOk, ReplyTask, Holds, store
<1>6. RowInv'
  BY <1>1 DEF RowInv, RowOk, Kept, store
<1> QED
  BY <1>2, <1>3, <1>4, <1>5, <1>6 DEF Others

-----------------------------------------------------------------------------
(* A request that has a message.                                            *)

LEMMA MoveIs ==
    ASSUME TypeOK, NEW w \in Requests
    PROVE  /\ \A label : Goto(w, label) => pc'[w] = label
           /\ \A answered : Leave(w, answered) => pc'[w] = "idle"
BY DEF Goto, Leave, TypeOK

\* What a step of a request can change: its own place, and of its message what it answers for.
LEMMA HandlesIsLocal ==
    ASSUME ReplyInv, TypeOK', NEW w \in Requests, Handles(w), NEW m \in Messages, m = msg[w]
    PROVE  /\ \A v \in Requests \ {w} : /\ pc'[v] = pc[v] /\ msg'[v] = msg[v]
                                        /\ held'[v] = held[v] /\ quiet'[v] = quiet[v]
           /\ \/ pc'[w] = "idle" /\ held'[w] = 0
              \/ pc'[w] # "idle" /\ held'[w] = held[w] /\ msg'[w] = m
           /\ UNCHANGED <<dedup, token, aiLock, rq>>
           /\ \A q \in Messages \ {m} : row'[q] = row[q] /\ job'[q] = job[q]
           /\ \A q \in Messages \ {m} : reply'[q] = reply[q] /\ replies'[q] = replies[q]
           /\ \A q \in Messages : leads[q] > 0 => leads'[q] > 0
           /\ \/ row'[m] = row[m]
              \/ /\ row'[m] = "COMPLETED" /\ Holds(w, m)
                 /\ pc[w] \in {"complete", "complete_queued"}
<1> USE DEF Handles, Record, QueueRecord, CompleteQueued, Complete, NoReply, DispatchAi, SkipBusy,
            Reserve, StartReply, SendReply, MarkReplied, MarkDoubt, QueueReply, ReplyInv
<1>1. \A v \in Requests \ {w} : /\ pc'[v] = pc[v] /\ msg'[v] = msg[v]
                                /\ held'[v] = held[v] /\ quiet'[v] = quiet[v]
  BY DEF Goto, Leave, TypeOK
<1>2. \/ pc'[w] = "idle" /\ held'[w] = 0
      \/ pc'[w] # "idle" /\ held'[w] = held[w] /\ msg'[w] = m
  BY DEF Goto, Leave, TypeOK
<1>3. UNCHANGED <<dedup, token, aiLock, rq>>
  BY DEF store, ai
<1>4. \/ row' = row
      \/ /\ row' = [row EXCEPT ![msg[w]] = "COMPLETED"]
         /\ pc[w] \in {"complete", "complete_queued"} /\ held[w] > 0 /\ Owns(w)
  BY DEF store
<1>5. job' = job \/ job' = [job EXCEPT ![msg[w]] = "queued"]
  BY DEF ai
<1>6. \A q \in Messages \ {m} : reply'[q] = reply[q] /\ replies'[q] = replies[q]
  <2>1. reply' = reply \/ \E s : reply' = [reply EXCEPT ![msg[w]] = s]
    BY DEF SetReply, store
  <2>2. replies' = replies \/ replies' = [replies EXCEPT ![msg[w]] = @ + 1]
    BY DEF Deliver, InDoubt, outside
  <2> QED
    BY <2>1, <2>2 DEF TypeOK
<1>7. \A q \in Messages : leads[q] > 0 => leads'[q] > 0
  <2>1. leads' = leads \/ leads' = [leads EXCEPT ![msg[w]] = @ + 1]
    BY DEF Create, CreateFails, outside
  <2> QED
    BY <2>1 DEF TypeOK
<1>8. \/ row'[m] = row[m]
      \/ /\ row'[m] = "COMPLETED" /\ Holds(w, m)
         /\ pc[w] \in {"complete", "complete_queued"}
  BY <1>4 DEF Owns, Holds, TypeOK
<1>9. \A q \in Messages \ {m} : row'[q] = row[q] /\ job'[q] = job[q]
  BY <1>4, <1>5 DEF TypeOK
<1> QED
  BY <1>1, <1>2, <1>3, <1>6, <1>7, <1>8, <1>9

\* A step that says something of the reply, or hands it over, is of the request that answers.
LEMMA HandlesSpeaks ==
    ASSUME ReplyInv, NEW w \in Requests, Handles(w), NEW m \in Messages, m = msg[w], dedup,
           \/ reply'[m] # reply[m] \/ replies'[m] # replies[m] \/ job'[m] # job[m]
           \/ QueueReply(w) /\ ~UNCHANGED queue
    PROVE  Answers(w, m)
<1> USE DEF Handles, Record, QueueRecord, CompleteQueued, Complete, NoReply, DispatchAi, SkipBusy,
            Reserve, StartReply, SendReply, MarkReplied, MarkDoubt, QueueReply, ReplyInv
<1>1. pc[w] \in Answering /\ (pc[w] = "reply" => ~quiet[w])
  BY DEF Answering, store, ai, outside
<1> QED
  BY <1>1 DEF Answers, Answering, ThreadInv, ThreadOk

LEMMA HandlesTasks ==
    ASSUME ReplyInv, NEW w \in Requests, Handles(w), NEW m \in Messages, m = msg[w]
    PROVE  \/ UNCHANGED queue /\ pc'[w] # "complete_queued"
           \/ \E t \in TaskIds, kind \in {"record", "reply"} :
                /\ taskKind[t] = "none" /\ taskStatus[t] = "none"
                /\ taskKind' = [taskKind EXCEPT ![t] = kind]
                /\ taskMsg' = [taskMsg EXCEPT ![t] = m]
                /\ taskStatus' = [taskStatus EXCEPT ![t] = "pending"]
                /\ UNCHANGED tries
                /\ kind = "reply" => QueueReply(w) /\ ~UNCHANGED queue
<1> USE DEF Handles, Record, QueueRecord, CompleteQueued, Complete, NoReply, DispatchAi, SkipBusy,
            Reserve, StartReply, SendReply, MarkReplied, MarkDoubt, ReplyInv
<1>1. CASE QueueRecord(w)
  BY <1>1 DEF Enqueue, Leave, queue, TaskInv, TaskOk, TypeOK
<1>2. CASE QueueReply(w)
  BY <1>2 DEF QueueReply, Enqueue, Leave, queue, TaskInv, TaskOk, TypeOK
<1>3. CASE ~QueueRecord(w) /\ ~QueueReply(w)
  BY <1>3 DEF Goto, Leave, TypeOK
<1> QED
  BY <1>1, <1>2, <1>3

\* The request that answers, after its step.
LEMMA HandlesOwn ==
    ASSUME ReplyInv, TypeOK', NEW w \in Requests, Handles(w), NEW m \in Messages, m = msg[w],
           Answers(w, m)'
    PROVE  /\ Holds(w, m)' /\ row'[m] = "COMPLETED" /\ job'[m] = "none"
           /\ \A t \in TaskIds : ~ReplyTask(t, m)
           /\ reply'[m] = IF pc'[w] \in {"reply", "start"} THEN "NOT_APPLICABLE" ELSE "STARTED"
           /\ pc'[w] \in {"reply", "start", "send", "queue_reply"} => replies'[m] = 0
           /\ pc'[w] = "mark_done" => replies'[m] = 1
           /\ ~QueueReply(w)
<1> USE DEF ReplyInv
<1>1. /\ pc'[w] \in Answering /\ ~quiet'[w] /\ held[w] > 0 /\ dedup
      /\ held'[w] = held[w] /\ msg'[w] = m /\ token' = token
  BY HandlesIsLocal DEF Answers, ThreadInv, ThreadOk, Answering
<1>2. \/ Complete(w) /\ Owns(w) /\ row'[m] = "COMPLETED" /\ pc'[w] = "reply"
      \/ Reserve(w) \/ StartReply(w) \/ SendReply(w)
  <2>1. CASE Record(w) \/ QueueRecord(w) \/ CompleteQueued(w)
    BY <1>1, <2>1, MoveIs DEF Record, QueueRecord, CompleteQueued, Answering
  <2>3. ~(NoReply(w) \/ DispatchAi(w) \/ SkipBusy(w) \/ MarkReplied(w) \/ MarkDoubt(w) \/ QueueReply(w))
    BY <1>1, MoveIs DEF NoReply, DispatchAi, SkipBusy, MarkReplied, MarkDoubt, QueueReply, Answering
  <2>2. CASE Complete(w)
    BY <1>1, <2>2 DEF Complete, Goto, Leave, TypeOK
  <2> QED
    BY <2>1, <2>2, <2>3 DEF Handles
<1>3. CASE Complete(w) /\ Owns(w) /\ row'[m] = "COMPLETED" /\ pc'[w] = "reply"
  <2>1. Holds(w, m) /\ row[m] # "COMPLETED"
    BY <1>1, <1>3 DEF Complete, Owns, Holds, ThreadInv, ThreadOk, Answering
  <2>2. reply[m] = "NOT_APPLICABLE" /\ replies[m] = 0
    BY <1>1, <2>1 DEF RowInv, RowOk
  <2>3. job[m] = "none" /\ \A t \in TaskIds : ~ReplyTask(t, m)
    BY <1>1, <2>1 DEF JobInv, JobOk, TaskInv, TaskOk
  <2>4. UNCHANGED <<reply, replies, job>> /\ ~QueueReply(w)
    BY <1>3 DEF Complete, QueueReply, ai
  <2> QED
    BY <1>1, <1>3, <2>1, <2>2, <2>3, <2>4 DEF Holds
<1>4. CASE Reserve(w) \/ StartReply(w) \/ SendReply(w)
  <2>1. Answers(w, m) /\ ~QueueReply(w)
    BY <1>1, <1>4 DEF Reserve, StartReply, SendReply, QueueReply, Answers, Answering, ThreadInv, ThreadOk
  <2>2. AnswerOk(w) /\ row'[m] = row[m] /\ job'[m] = job[m]
    BY <1>4 DEF Reserve, StartReply, SendReply, AnswerInv, store, ai
  <2>3. Holds(w, m)'
    BY <1>1, <2>1, <2>2 DEF AnswerOk, Holds
  <2>4. CASE Reserve(w)
    BY <1>1, <2>1, <2>2, <2>3, <2>4 DEF Reserve, Goto, AnswerOk, store, outside, TypeOK
  <2>5. CASE StartReply(w)
    BY <1>1, <2>1, <2>2, <2>3, <2>5 DEF StartReply, Goto, Leave, SetReply, Answering, AnswerOk, TypeOK
  <2>6. CASE SendReply(w)
    BY <1>1, <2>1, <2>2, <2>3, <2>6
       DEF SendReply, Goto, Leave, Deliver, Answering, AnswerOk, store, TypeOK
  <2> QED
    BY <1>4, <2>4, <2>5, <2>6
<1> QED
  BY <1>2, <1>3, <1>4

LEMMA HandlesThreads ==
    ASSUME ReplyInv, TypeOK', NEW w \in Requests, Handles(w), NEW m \in Messages, m = msg[w],
           \A q \in Messages : Kept(q) => Kept(q)'
    PROVE  ThreadInv' /\ ClaimInv'
<1> USE DEF ReplyInv
<1>1. ClaimInv'
  BY HandlesIsLocal DEF ClaimInv, ThreadInv, ThreadOk
<1>2. ASSUME NEW v \in Requests \ {w} PROVE ThreadOk(v)'
  <2>1. /\ pc'[v] = pc[v] /\ msg'[v] = msg[v] /\ held'[v] = held[v] /\ quiet'[v] = quiet[v]
        /\ token' = token /\ dedup' = dedup
    BY HandlesIsLocal
  <2>2. pc[v] # "idle" => msg[v] \in Messages
    BY DEF ThreadInv, ThreadOk
  <2>3. pc[v] \notin Answering /\ held[v] > 0 /\ held[v] = token[msg[v]] =>
            msg[v] \in Messages /\ row'[msg[v]] # "COMPLETED"
    <3>1. held[v] > 0 => msg[v] \in Messages
      BY DEF ThreadInv, ThreadOk
    <3>2. row'[m] # row[m] /\ msg[v] = m /\ held[v] > 0 => held[v] # token[m]
      BY HandlesIsLocal DEF Holds, ClaimInv
    <3> QED
      BY <3>1, <3>2, HandlesIsLocal DEF ThreadInv, ThreadOk
  <2> QED
    BY <2>1, <2>2, <2>3 DEF ThreadInv, ThreadOk, Answering
<1>3. ThreadOk(w)'
  <2>1. CASE pc'[w] = "idle"
    BY <2>1, HandlesIsLocal DEF ThreadOk, Answering
  <2>2. CASE pc'[w] # "idle"
    <3>1. held'[w] = held[w] /\ msg'[w] = m /\ token' = token /\ dedup' = dedup /\ ThreadOk(w)
      BY <2>2, HandlesIsLocal DEF ThreadInv
    <3>2. /\ pc'[w] \in Answering \ {"reply"} => ~quiet'[w]
          /\ pc'[w] \in {"start", "mark_done", "doubt"} => held[w] > 0
          /\ pc[w] # "idle" /\ (quiet[w] => quiet'[w])
      BY <2>2, <3>1
         DEF Handles, Record, QueueRecord, CompleteQueued, Complete, NoReply, DispatchAi, SkipBusy,
             Reserve, StartReply, SendReply, MarkReplied, MarkDoubt, QueueReply, Goto, Leave,
             Answering, ThreadOk, TypeOK
    <3>3. pc'[w] \in {"complete", "complete_queued"} => Kept(m)'
      <4>1. CASE Record(w)
        BY <2>2, <4>1 DEF Record, Create, Goto, Kept, TypeOK
      <4>2. CASE QueueRecord(w)
        BY <2>2, <4>2 DEF QueueRecord, Enqueue, Leave, Kept, TypeOK
      <4>3. CASE ~Record(w) /\ ~QueueRecord(w)
        BY <2>2, <4>3
           DEF Handles, CompleteQueued, Complete, NoReply, DispatchAi, SkipBusy, Reserve,
               StartReply, SendReply, MarkReplied, MarkDoubt, QueueReply, Goto, Leave, TypeOK
      <4> QED
        BY <4>1, <4>2, <4>3
    <3>4. pc'[w] \notin Answering => pc[w] \notin Answering /\ row'[m] = row[m]
      BY <2>2
         DEF Handles, Record, QueueRecord, CompleteQueued, Complete, NoReply, DispatchAi, SkipBusy,
             Reserve, StartReply, SendReply, MarkReplied, MarkDoubt, QueueReply, Goto, Leave,
             Answering, store, TypeOK
    <3> QED
      BY <3>1, <3>2, <3>3, <3>4, <2>2 DEF ThreadOk
  <2> QED
    BY <2>1, <2>2
<1> QED
  BY <1>1, <1>2, <1>3 DEF ThreadInv

\* Of another request, of a job and of the tasks, no step of a request takes anything away.
LEMMA HandlesStep ==
    ASSUME ReplyInv, TypeOK', NEW w \in Requests, Handles(w)
    PROVE  Others'
<1> USE DEF ReplyInv
<1>0. PICK m \in Messages : m = msg[w]
  BY DEF Handles, Record, QueueRecord, CompleteQueued, Complete, NoReply, DispatchAi, SkipBusy, Reserve,
         StartReply, SendReply, MarkReplied, MarkDoubt, QueueReply, ThreadInv, ThreadOk
<1>1. /\ \A v \in Requests, q \in Messages : Holds(v, q)' => Holds(v, q)
      /\ \A v \in Requests \ {w}, q \in Messages :
            (Holds(v, q)' <=> Holds(v, q)) /\ (Answers(v, q)' <=> Answers(v, q))
  BY <1>0, HandlesIsLocal DEF Holds, Answers
<1>2. \A q \in Messages : row[q] = "COMPLETED" => row'[q] = "COMPLETED"
  BY <1>0, HandlesIsLocal
<1>3. Answers(w, m) => /\ Holds(w, m) /\ row[m] = "COMPLETED" /\ job[m] = "none" /\ dedup
                       /\ \A t \in TaskIds : ~ReplyTask(t, m)
                       /\ \A v \in Requests \ {w} : ~Holds(v, m)
  BY DEF AnswerInv, AnswerOk, Answers, ClaimInv, Holds, ThreadInv, ThreadOk
<1>4. \/ UNCHANGED queue
      \/ \E t \in TaskIds, kind \in {"record", "reply"} :
            /\ taskKind[t] = "none" /\ taskStatus[t] = "none"
            /\ taskKind' = [taskKind EXCEPT ![t] = kind]
            /\ taskMsg' = [taskMsg EXCEPT ![t] = m]
            /\ taskStatus' = [taskStatus EXCEPT ![t] = "pending"]
            /\ UNCHANGED tries
            /\ kind = "reply" => QueueReply(w) /\ (dedup => Answers(w, m))
  BY <1>0, HandlesTasks, HandlesSpeaks
<1>5. \A t \in TaskIds :
          /\ taskKind[t] # "none" => taskKind'[t] = taskKind[t] /\ taskMsg'[t] = taskMsg[t]
                                     /\ taskStatus'[t] = taskStatus[t] /\ tries'[t] = tries[t]
          /\ \A q \in Messages : ReplyTask(t, q)' =>
                ReplyTask(t, q) \/ (q = m /\ QueueReply(w) /\ (dedup => Answers(w, m)))
  BY <1>4 DEF queue, ReplyTask, TypeOK
<1>6. \A q \in Messages : Kept(q) => Kept(q)'
  BY <1>0, <1>5, HandlesIsLocal DEF Kept
<1>6a. ASSUME NEW q \in Messages, dedup, ~(q = m /\ Answers(w, m))
       PROVE  /\ reply'[q] = reply[q] /\ replies'[q] = replies[q] /\ job'[q] = job[q]
              /\ \A t \in TaskIds : ReplyTask(t, q)' => ReplyTask(t, q)
  <2>1. CASE q # m
    BY <1>0, <1>5, <2>1, HandlesIsLocal
  <2>2. CASE q = m
    BY <1>0, <1>5, <1>6a, <2>2, HandlesSpeaks
  <2> QED
    BY <2>1, <2>2
<1>7. ThreadInv' /\ ClaimInv'
  BY <1>0, <1>6, HandlesThreads
<1>8. AnswerInv'
  <2>1. ASSUME NEW q \in Messages, Answers(w, q)' PROVE q = m
    BY <1>0, <2>1, HandlesIsLocal DEF Answers, Answering
  <2>2. AnswerOk(w)'
    BY <1>0, <1>5, <2>1, HandlesOwn DEF AnswerOk
  <2>3. ASSUME NEW v \in Requests \ {w}, NEW q \in Messages, Answers(v, q)
        PROVE  ~(q = m /\ Answers(w, m)) /\ dedup
    BY <1>3, <2>3 DEF AnswerInv, AnswerOk, Answers, ThreadInv, ThreadOk
  <2>4. ASSUME NEW v \in Requests \ {w}, NEW q \in Messages, Answers(v, q)
        PROVE  /\ reply'[q] = reply[q] /\ replies'[q] = replies[q] /\ job'[q] = job[q]
               /\ \A t \in TaskIds : ReplyTask(t, q)' => ReplyTask(t, q)
    BY <1>6a, <2>3, <2>4
  <2>5. ASSUME NEW v \in Requests \ {w} PROVE AnswerOk(v)'
    <3>1. pc'[v] = pc[v]
      BY <1>0, HandlesIsLocal
    <3> QED
      BY <1>1, <1>2, <2>4, <3>1 DEF AnswerInv, AnswerOk
  <2> QED
    BY <2>2, <2>5 DEF AnswerInv
<1>9. \A q \in Messages : job'[q] # job[q] =>
          /\ q = m /\ DispatchAi(w) /\ job'[m] = "queued" /\ Answers(w, m) /\ job[m] = "none"
          /\ reply[m] = "NOT_APPLICABLE" /\ ~Holds(w, m)' /\ UNCHANGED reply
  <2>1. DispatchAi(w) => Answers(w, m) /\ reply[m] = "NOT_APPLICABLE" /\ ~Holds(w, m)' /\ UNCHANGED reply
    BY <1>0 DEF DispatchAi, Leave, Answers, Answering, AnswerInv, AnswerOk, Holds, store, TypeOK
  <2>2. job' # job => DispatchAi(w)
    BY DEF Handles, Record, QueueRecord, CompleteQueued, Complete, NoReply, SkipBusy, Reserve,
           StartReply, SendReply, MarkReplied, MarkDoubt, QueueReply, ai
  <2>3. DispatchAi(w) => job' = [job EXCEPT ![m] = "queued"]
    BY <1>0 DEF DispatchAi
  <2> QED
    BY <1>3, <2>1, <2>2, <2>3 DEF TypeOK
<1>10. JobInv'
  <2>1. ASSUME NEW q \in Messages, job'[q] # "none", job'[q] = job[q] PROVE JobOk(q)'
    <3>1. JobOk(q) /\ ~(q = m /\ Answers(w, m)) /\ dedup
      BY <1>3, <2>1 DEF JobInv, JobOk
    <3>2. reply'[q] = reply[q] /\ replies'[q] = replies[q]
          /\ \A t \in TaskIds : ReplyTask(t, q)' => ReplyTask(t, q)
      BY <1>6a, <3>1
    <3>3. dedup' = dedup
      BY <1>0, HandlesIsLocal
    <3> QED
      BY <1>1, <1>2, <2>1, <3>1, <3>2, <3>3 DEF JobOk
  <2>2. ASSUME NEW q \in Messages, job'[q] # job[q] PROVE JobOk(q)'
    <3>1. \A t \in TaskIds : ~ReplyTask(t, m)'
      BY <1>3, <1>5, <1>9, <2>2 DEF DispatchAi, QueueReply
    <3>2. dedup' = dedup
      BY <1>0, HandlesIsLocal
    <3> QED
      BY <1>1, <1>2, <1>3, <1>9, <2>2, <3>1, <3>2 DEF JobOk
  <2> QED
    BY <2>1, <2>2 DEF JobInv, JobOk
<1>11. LockInv'
  <2>1. CASE UNCHANGED ai
    <3>1. Busy' = Busy
      BY <2>1 DEF ai, Busy
    <3> QED
      BY <2>1, <3>1 DEF ai, LockInv
  <2>2. CASE DispatchAi(w)
    <3>1. job' = [job EXCEPT ![m] = "queued"] /\ permits' = permits + 1 /\ aiLock' = aiLock
      BY <1>0, <2>2 DEF DispatchAi
    <3>2. job[m] = "none"
      BY <1>0, <1>3, <2>2 DEF DispatchAi, Answers, Answering
    <3>3. Busy' = Busy \cup {m} /\ m \notin Busy
      BY <3>1, <3>2 DEF Busy, TypeOK
    <3>4. IsFiniteSet(Busy') /\ Cardinality(Busy') = Cardinality(Busy) + 1
      BY <3>3, FS_AddElement DEF LockInv
    <3>5. \A q \in Messages : job'[q] \notin {"none", "queued", "waiting"} <=> aiLock' = q
      BY <3>1, <3>2 DEF LockInv, TypeOK
    <3> QED
      BY <3>1, <3>4, <3>5 DEF LockInv
  <2> QED
    BY <2>1, <2>2
       DEF Handles, Record, QueueRecord, CompleteQueued, Complete, NoReply, SkipBusy, Reserve,
           StartReply, SendReply, MarkReplied, MarkDoubt, QueueReply
<1>12. TaskInv'
  <2>1. ASSUME NEW t \in TaskIds, NEW q \in Messages, dedup, ReplyTask(t, q)
        PROVE  /\ ~(q = m /\ Answers(w, m)) /\ job'[q] = job[q]
               /\ reply'[q] = reply[q] /\ replies'[q] = replies[q]
               /\ \A u \in TaskIds : ReplyTask(u, q)' => ReplyTask(u, q)
    <3>1. ~(q = m /\ Answers(w, m))
      BY <1>3, <2>1
    <3> QED
      BY <1>6a, <2>1, <3>1
  <2>2. ASSUME NEW t \in TaskIds, NEW q \in Messages, dedup, ReplyTask(t, q)', ~ReplyTask(t, q)
        PROVE  /\ q = m /\ Answers(w, m) /\ QueueReply(w) /\ pc[w] = "queue_reply"
               /\ UNCHANGED <<reply, replies, job>> /\ ~Holds(w, m)'
               /\ \A u \in TaskIds : ReplyTask(u, m)' => u = t
    <3>1. q = m /\ Answers(w, m) /\ QueueReply(w)
      BY <1>5, <2>2
    <3>2. pc[w] = "queue_reply" /\ UNCHANGED <<reply, replies, job>> /\ ~Holds(w, m)'
      BY <1>0, <3>1 DEF QueueReply, Leave, Holds, store, ai, TypeOK
    <3>3. \A u \in TaskIds : ReplyTask(u, m)' => u = t
      BY <1>3, <1>4, <2>2, <3>1 DEF ReplyTask, queue, TypeOK
    <3> QED
      BY <3>1, <3>2, <3>3
  <2>3. dedup' = dedup
    BY <1>0, HandlesIsLocal
  <2>4. ASSUME NEW t \in TaskIds
        PROVE  /\ taskStatus'[t] = "none" <=> taskKind'[t] = "none"
               /\ taskKind'[t] # "none" => taskMsg'[t] \in Messages
               /\ taskStatus'[t] = "none" => tries'[t] = 0
               /\ taskStatus'[t] = "pending" => tries'[t] < MaxAttempts
    BY <1>4, ConstantsAssumption DEF TaskInv, TaskOk, queue, TypeOK
  <2>5. ASSUME NEW t \in TaskIds, NEW q \in Messages, dedup, ReplyTask(t, q)'
        PROVE  /\ row'[q] = "COMPLETED" /\ job'[q] \in {"none", "finish"}
               /\ \A v \in Requests : ~Holds(v, q)'
               /\ reply'[q] # "NOT_APPLICABLE"
               /\ reply'[q] = "STARTED" => replies'[q] = 0
               /\ \A u \in TaskIds : ReplyTask(u, q)' => u = t
    <3>1. CASE ReplyTask(t, q)
      BY <1>1, <1>2, <2>1, <2>5, <3>1 DEF TaskInv, TaskOk
    <3>2. CASE ~ReplyTask(t, q)
      <4>1. AnswerOk(w)
        BY DEF AnswerInv
      <4> QED
        BY <1>1, <1>2, <1>3, <2>2, <2>5, <3>2, <4>1 DEF AnswerOk
    <3> QED
      BY <3>1, <3>2
  <2> QED
    BY <2>3, <2>4, <2>5 DEF TaskInv, TaskOk
<1>13. WorkerInv'
  <2>1. rqPc # "idle" => /\ rqTask \in TaskIds /\ taskKind[rqTask] # "none"
                         /\ taskMsg[rqTask] \in Messages
    BY DEF WorkerInv, TaskInv, TaskOk
  <2>2. dedup /\ rqPc # "idle" /\ taskKind[rqTask] = "reply" =>
            /\ reply'[taskMsg[rqTask]] = reply[taskMsg[rqTask]]
            /\ replies'[taskMsg[rqTask]] = replies[taskMsg[rqTask]]
    BY <1>3, <1>6a, <2>1 DEF ReplyTask
  <2>3. UNCHANGED <<dedup, rqPc, rqTask>>
    BY <1>0, HandlesIsLocal DEF rq
  <2> QED
    BY <1>5, <2>1, <2>2, <2>3 DEF WorkerInv
<1>14. RowInv'
  <2>1. ASSUME NEW q \in Messages \ {m} PROVE RowOk(q)'
    BY <1>0, <1>6, <2>1, HandlesIsLocal DEF RowInv, RowOk
  <2>2. RowOk(m)'
    <3>1. row'[m] = "COMPLETED" => Kept(m)'
      BY <1>0, <1>6, HandlesIsLocal DEF RowInv, RowOk, ThreadInv, ThreadOk
    <3>2. ASSUME dedup, ~Answers(w, m)
          PROVE  reply'[m] = reply[m] /\ replies'[m] = replies[m]
      BY <1>0, <3>2, HandlesSpeaks
    <3>3. ASSUME dedup, Answers(w, m)
          PROVE  /\ row'[m] = "COMPLETED" /\ replies'[m] <= 1
                 /\ reply'[m] = "NOT_APPLICABLE" => replies'[m] = 0
                 /\ reply'[m] = "DONE" => replies'[m] = 1
      <4>1. AnswerOk(w) /\ row'[m] = "COMPLETED"
        BY <1>2, <1>3, <3>3 DEF AnswerInv
      <4>2. CASE StartReply(w) \/ MarkReplied(w) \/ MarkDoubt(w)
        <5>1. /\ replies'[m] = replies[m] /\ pc[w] \in {"start", "mark_done", "doubt"}
              /\ \/ reply'[m] = reply[m] \/ reply'[m] \in {"STARTED", "UNKNOWN"}
                 \/ reply'[m] = "DONE" /\ pc[w] = "mark_done"
          <6>0. reply \in [Messages -> {"NOT_APPLICABLE", "SENDING", "STARTED", "DONE", "UNKNOWN"}] /\ m = msg[w]
            BY <1>0 DEF TypeOK
          <6>1. CASE StartReply(w)
            <7>1. /\ pc[w] = "start" /\ UNCHANGED replies
                  /\ reply' = [reply EXCEPT ![m] = "STARTED"] \/ reply' = reply
              BY <6>0, <6>1 DEF StartReply, SetReply
            <7> QED
              BY <6>0, <7>1
          <6>2. CASE MarkReplied(w)
            <7>1. /\ pc[w] = "mark_done" /\ UNCHANGED replies
                  /\ \/ reply' = [reply EXCEPT ![m] = IF Owns(w) THEN "DONE" ELSE reply[m]]
                     \/ reply' = reply
              BY <6>0, <6>2 DEF MarkReplied, SetReply
            <7> QED
              BY <6>0, <7>1
          <6>3. CASE MarkDoubt(w)
            <7>1. /\ pc[w] = "doubt" /\ UNCHANGED replies
                  /\ \/ reply' = [reply EXCEPT ![m] = IF Owns(w) THEN "UNKNOWN" ELSE reply[m]]
                     \/ reply' = reply
              BY <6>0, <6>3 DEF MarkDoubt, SetReply
            <7> QED
              BY <6>0, <7>1
          <6> QED
            BY <4>2, <6>1, <6>2, <6>3
        <5> QED
          BY <3>3, <4>1, <5>1 DEF AnswerOk, RowInv, RowOk
      <4>3. CASE SendReply(w)
        <5>1. reply[m] = "STARTED" /\ replies[m] = 0 /\ UNCHANGED reply
          BY <1>0, <3>3, <4>1, <4>3 DEF SendReply, AnswerOk, store
        <5>2. replies' = replies \/ replies' = [replies EXCEPT ![m] = @ + 1]
          BY <1>0, <4>3 DEF SendReply, Deliver, InDoubt
        <5> QED
          BY <4>1, <5>1, <5>2 DEF TypeOK
      <4>4. CASE UNCHANGED <<reply, replies>>
        BY <3>3, <4>1, <4>4 DEF RowInv, RowOk
      <4> QED
        BY <4>2, <4>3, <4>4
           DEF Handles, Record, QueueRecord, CompleteQueued, Complete, NoReply, DispatchAi, SkipBusy,
               Reserve, QueueReply, store, outside
    <3>4. dedup' = dedup /\ (row'[m] # "COMPLETED" => row'[m] = row[m])
      BY <1>0, HandlesIsLocal
    <3> QED
      BY <3>1, <3>2, <3>3, <3>4 DEF RowInv, RowOk
  <2> QED
    BY <2>1, <2>2 DEF RowInv
<1> QED
  BY <1>7, <1>8, <1>10, <1>11, <1>12, <1>13, <1>14 DEF Others

-----------------------------------------------------------------------------
(* The AI job.                                                              *)

LEMMA JobStep ==
    ASSUME ReplyInv, TypeOK', NEW m \in Messages, AiJob(m)
    PROVE  Others'
<1> USE DEF ReplyInv
<1> USE DEF AiJob, AiTake, AiLock, AiBegin, AiGenerate, AiSend, AiMarkDone, AiFailed, AiEnqueue,
            AiDoubt, AiFinish
<1>1. /\ job[m] # "none" /\ dedup /\ row[m] = "COMPLETED"
      /\ UNCHANGED <<dedup, row, token, threads, rq, leads>>
  BY DEF JobInv, JobOk, store, outside
<1>2. \E s \in JobPc : job' = [job EXCEPT ![m] = s]
  BY DEF Step, JobPc
<1>3. \A q \in Messages \ {m} : job'[q] = job[q] /\ reply'[q] = reply[q] /\ replies'[q] = replies[q]
  <2>1. reply' = reply \/ \E s : reply' = [reply EXCEPT ![m] = s]
    BY DEF SetReply, store
  <2>2. replies' = replies \/ replies' = [replies EXCEPT ![m] = @ + 1]
    BY DEF Deliver, InDoubt, outside
  <2> QED
    BY <1>2, <2>1, <2>2 DEF TypeOK
<1>4. UNCHANGED <<pc, msg, held, quiet, dedup, row, token, rqPc, rqTask>>
  BY <1>1 DEF threads, rq
<1>5. \A w \in Requests, q \in Messages :
          (Holds(w, q)' <=> Holds(w, q)) /\ (Answers(w, q)' <=> Answers(w, q))
  BY <1>4 DEF Holds, Answers
<1>6. \/ UNCHANGED queue
      \/ /\ job[m] = "enqueue" /\ job'[m] = "finish" /\ UNCHANGED <<reply, replies>>
         /\ \E t \in TaskIds :
               /\ taskKind[t] = "none" /\ taskStatus[t] = "none"
               /\ taskKind' = [taskKind EXCEPT ![t] = "reply"]
               /\ taskMsg' = [taskMsg EXCEPT ![t] = m]
               /\ taskStatus' = [taskStatus EXCEPT ![t] = "pending"]
               /\ UNCHANGED tries
  <2>1. CASE AiEnqueue(m)
    BY <2>1 DEF Enqueue, Step, queue, store, outside, TaskInv, TaskOk, TypeOK
  <2>2. CASE ~AiEnqueue(m)
    BY <2>2
  <2> QED
    BY <2>1, <2>2
<1>7. \A t \in TaskIds :
          /\ taskKind[t] # "none" => taskKind'[t] = taskKind[t] /\ taskMsg'[t] = taskMsg[t]
                                     /\ taskStatus'[t] = taskStatus[t] /\ tries'[t] = tries[t]
          /\ \A q \in Messages : ReplyTask(t, q)' =>
                ReplyTask(t, q) \/ (q = m /\ job[m] = "enqueue" /\ job'[m] = "finish")
  BY <1>6 DEF queue, ReplyTask, TypeOK
<1>8. \A q \in Messages : Kept(q) => Kept(q)'
  BY <1>1, <1>7 DEF Kept
<1>9. ThreadInv' /\ ClaimInv'
  BY <1>4, <1>8 DEF ThreadInv, ThreadOk, ClaimInv
<1>10. AnswerInv'
  <2>1. ASSUME NEW w \in Requests, NEW q \in Messages, Answers(w, q) PROVE q # m
    BY <1>1, <2>1 DEF AnswerInv, AnswerOk
  <2> QED
    BY <1>3, <1>4, <1>5, <1>7, <2>1 DEF AnswerInv, AnswerOk
<1>11. ASSUME job'[m] \notin {"none", "finish"}
       PROVE  \A t \in TaskIds : ~ReplyTask(t, m)'
  <2>1. job[m] # "finish"
    BY <1>11, <1>2 DEF Step, TypeOK
  <2> QED
    BY <1>1, <1>7, <1>11, <2>1 DEF JobInv, JobOk
<1>12. JobOk(m)'
  <2>1. /\ job'[m] \in {"queued", "waiting", "begin"} => reply'[m] = "NOT_APPLICABLE"
        /\ job'[m] \in {"generate", "send", "mark_done", "failed"} => reply'[m] = "SENDING"
        /\ job'[m] = "enqueue" => reply'[m] = "STARTED"
        /\ job'[m] = "doubt" => reply'[m] \in {"SENDING", "STARTED"}
    BY DEF Step, SetReply, JobInv, JobOk, store, TypeOK
  <2>2. /\ job'[m] \in {"generate", "send", "failed", "enqueue"} => replies'[m] = 0
        /\ job'[m] = "mark_done" => replies'[m] = 1
    BY DEF Step, Deliver, InDoubt, JobInv, JobOk, RowInv, RowOk, outside, TypeOK
  <2> QED
    BY <1>1, <1>4, <1>5, <1>11, <2>1, <2>2 DEF JobInv, JobOk
<1>13. JobInv'
  BY <1>3, <1>4, <1>5, <1>7, <1>12 DEF JobInv, JobOk
<1>14. LockInv'
  <2>1. \A q \in Messages : job'[q] \notin {"none", "queued", "waiting"} <=> aiLock' = q
    BY <1>3, ConstantsAssumption DEF Step, LockInv, TypeOK
  <2>2. CASE AiFinish(m)
    <3>1. Busy' = Busy \ {m} /\ m \in Busy
      BY <2>2 DEF Step, Busy, TypeOK
    <3>2. IsFiniteSet(Busy') /\ Cardinality(Busy') = Cardinality(Busy) - 1
      BY <3>1, FS_RemoveElement DEF LockInv
    <3>3. permits' = permits - 1
      BY <2>2
    <3> QED
      BY <2>1, <3>2, <3>3 DEF LockInv
  <2>3. CASE ~AiFinish(m)
    <3>1. job'[m] # "none" /\ permits' = permits
      BY <2>3, <1>1 DEF Step, TypeOK
    <3>2. Busy' = Busy
      BY <1>1, <1>3, <3>1 DEF Busy
    <3> QED
      BY <2>1, <3>1, <3>2 DEF LockInv
  <2> QED
    BY <2>2, <2>3
<1>15. TaskInv'
  <2>1. ASSUME NEW t \in TaskIds
        PROVE  /\ taskStatus'[t] = "none" <=> taskKind'[t] = "none"
               /\ taskKind'[t] # "none" => taskMsg'[t] \in Messages
               /\ taskStatus'[t] = "none" => tries'[t] = 0
               /\ taskStatus'[t] = "pending" => tries'[t] < MaxAttempts
    BY <1>6, ConstantsAssumption DEF TaskInv, TaskOk, queue, TypeOK
  <2>2. ASSUME NEW t \in TaskIds, NEW q \in Messages, ReplyTask(t, q)'
        PROVE  /\ row'[q] = "COMPLETED" /\ job'[q] \in {"none", "finish"}
               /\ \A v \in Requests : ~Holds(v, q)'
               /\ reply'[q] # "NOT_APPLICABLE"
               /\ reply'[q] = "STARTED" => replies'[q] = 0
               /\ \A u \in TaskIds : ReplyTask(u, q)' => u = t
    <3>1. CASE q # m
      BY <1>1, <1>3, <1>4, <1>5, <1>7, <2>2, <3>1 DEF TaskInv, TaskOk
    <3>2. CASE q = m /\ ReplyTask(t, m)
      <4>1. job[m] = "finish"
        BY <1>1, <3>2 DEF TaskInv, TaskOk
      <4>2. job'[m] = "none" /\ UNCHANGED <<reply, replies>>
        BY <4>1 DEF Step, store, outside, TypeOK
      <4> QED
        BY <1>1, <1>4, <1>5, <1>7, <3>2, <4>1, <4>2 DEF TaskInv, TaskOk
    <3>3. CASE q = m /\ ~ReplyTask(t, m)
      <4>1. job[m] = "enqueue" /\ job'[m] = "finish" /\ UNCHANGED <<reply, replies>>
        BY <1>6, <1>7, <2>2, <3>3 DEF queue, ReplyTask
      <4>2. \A u \in TaskIds : ~ReplyTask(u, m)
        BY <4>1 DEF JobInv, JobOk
      <4>3. \A u \in TaskIds : ReplyTask(u, m)' => u = t
        BY <1>6, <2>2, <3>3, <4>2 DEF ReplyTask, queue, TypeOK
      <4> QED
        BY <1>1, <1>4, <1>5, <3>3, <4>1, <4>3 DEF JobInv, JobOk
    <3> QED
      BY <3>1, <3>2, <3>3
  <2> QED
    BY <2>1, <2>2 DEF TaskInv, TaskOk
<1>16. WorkerInv'
  <2>1. rqPc # "idle" => /\ rqTask \in TaskIds /\ taskKind[rqTask] # "none"
                         /\ taskMsg[rqTask] \in Messages
    BY DEF WorkerInv, TaskInv, TaskOk
  <2>2. rqPc # "idle" /\ taskKind[rqTask] = "reply" =>
            /\ reply'[taskMsg[rqTask]] = reply[taskMsg[rqTask]]
            /\ replies'[taskMsg[rqTask]] = replies[taskMsg[rqTask]]
    <3>1. ASSUME NEW t \in TaskIds, ReplyTask(t, m) PROVE UNCHANGED <<reply, replies>>
      <4>1. job[m] = "finish"
        BY <1>1, <3>1 DEF TaskInv, TaskOk
      <4> QED
        BY <4>1 DEF store, outside
    <3> QED
      BY <1>3, <2>1, <3>1 DEF ReplyTask
  <2> QED
    BY <1>4, <1>7, <2>1, <2>2 DEF WorkerInv
<1>17. RowInv'
  <2>1. ASSUME NEW q \in Messages \ {m} PROVE RowOk(q)'
    BY <1>3, <1>4, <1>8 DEF RowInv, RowOk
  <2>2. RowOk(m)'
    <3>1. job[m] # "finish" => reply'[m] # "DONE" \/ AiMarkDone(m)
      BY DEF SetReply, JobInv, JobOk, store, TypeOK
    <3>2. replies'[m] = replies[m] \/ (AiSend(m) /\ replies'[m] = replies[m] + 1)
      BY DEF Deliver, InDoubt, outside, TypeOK
    <3>3. AiSend(m) => reply'[m] = "SENDING" /\ replies[m] = 0
      BY DEF JobInv, JobOk, store
    <3>4. AiMarkDone(m) => replies[m] = 1 /\ replies'[m] = 1
      BY DEF JobInv, JobOk, outside
    <3>5. reply'[m] = "NOT_APPLICABLE" => reply'[m] = reply[m]
      BY DEF SetReply, store, TypeOK
    <3>6. job[m] = "finish" => UNCHANGED <<reply, replies>>
      BY DEF store, outside
    <3>7. replies[m] \in Nat
      BY DEF TypeOK
    <3> QED
      BY <1>1, <1>4, <1>8, <3>1, <3>2, <3>3, <3>4, <3>5, <3>6, <3>7 DEF RowInv, RowOk
  <2> QED
    BY <2>1, <2>2 DEF RowInv
<1> QED
  BY <1>9, <1>10, <1>13, <1>14, <1>15, <1>16, <1>17 DEF Others

-----------------------------------------------------------------------------
(* The worker of the retry queue.                                           *)

LEMMA WorkerStep ==
    ASSUME ReplyInv, TypeOK', RetryWorker
    PROVE  Others'
<1> USE DEF ReplyInv
<1> USE DEF RetryWorker, RqTake, RqCheck, RqSend, RqMarkDone, RqFailed, RqDoubt, RqRecord, RqEnd
<1>1. UNCHANGED <<pc, msg, held, quiet, dedup, row, token, job, aiLock, permits, taskKind, taskMsg>>
  BY DEF threads, store, ai, queue
<1>2. \A w \in Requests, q \in Messages :
          (Holds(w, q)' <=> Holds(w, q)) /\ (Answers(w, q)' <=> Answers(w, q))
  BY <1>1 DEF Holds, Answers
<1>3. \A t \in TaskIds, q \in Messages : ReplyTask(t, q)' <=> ReplyTask(t, q)
  BY <1>1 DEF ReplyTask
<1>4. rqPc # "idle" => /\ rqTask \in TaskIds /\ taskStatus[rqTask] = "pending"
                       /\ taskMsg[rqTask] \in Messages
  BY DEF WorkerInv, TaskInv, TaskOk
<1>5. \A q \in Messages : Kept(q) => Kept(q)'
  <2>1. leads' = leads \/ leads' = [leads EXCEPT ![taskMsg[rqTask]] = @ + 1]
    BY DEF Create, CreateFails, outside
  <2>2. \A q \in Messages : leads[q] > 0 => leads'[q] > 0
    BY <2>1 DEF TypeOK
  <2> QED
    BY <1>1, <2>2 DEF Kept
<1>6. ASSUME NEW q \in Messages, dedup, ~ReplyTask(rqTask, q) \/ rqPc \in {"idle", "record", "ok", "failure"}
      PROVE  reply'[q] = reply[q] /\ replies'[q] = replies[q]
  <2>1. UNCHANGED <<reply, replies>>
        \/ /\ rqPc \in {"check", "send", "mark_done", "failed", "doubt", "doubt_raise"}
           /\ reply' = reply \/ \E s : reply' = [reply EXCEPT ![taskMsg[rqTask]] = s]
           /\ replies' = replies \/ replies' = [replies EXCEPT ![taskMsg[rqTask]] = @ + 1]
    BY DEF SetReply, Deliver, InDoubt, store, outside
  <2> QED
    BY <1>4, <1>6, <2>1 DEF ReplyTask, WorkerInv, TypeOK
<1>7. ASSUME NEW q \in Messages, dedup, ReplyTask(rqTask, q),
             rqPc \in {"check", "send", "mark_done", "failed", "doubt", "doubt_raise"}
      PROVE  /\ row[q] = "COMPLETED" /\ job[q] \in {"none", "finish"}
             /\ \A v \in Requests : ~Holds(v, q)
             /\ reply[q] # "NOT_APPLICABLE"
             /\ reply[q] = "STARTED" => replies[q] = 0
             /\ \A u \in TaskIds : ReplyTask(u, q) => u = rqTask
             /\ replies[q] \in {0, 1} /\ reply'[q] # "NOT_APPLICABLE"
             /\ reply'[q] = "STARTED" => replies'[q] = 0
             /\ reply'[q] = "DONE" => replies'[q] = 1
             /\ replies'[q] <= 1
  <2>1. /\ row[q] = "COMPLETED" /\ job[q] \in {"none", "finish"}
        /\ \A v \in Requests : ~Holds(v, q)
        /\ reply[q] # "NOT_APPLICABLE"
        /\ reply[q] = "STARTED" => replies[q] = 0
        /\ \A u \in TaskIds : ReplyTask(u, q) => u = rqTask
    BY <1>4, <1>7 DEF TaskInv, TaskOk
  <2>2. replies[q] \in {0, 1} /\ (reply[q] = "DONE" => replies[q] = 1) /\ q = taskMsg[rqTask]
    <3>1. replies[q] \in Nat /\ replies[q] <= 1 /\ (reply[q] = "DONE" => replies[q] = 1)
      BY <1>7 DEF RowInv, RowOk, TypeOK
    <3> QED
      BY <1>7, <3>1 DEF ReplyTask
  <2>3. CASE RqCheck
    <3>1. reply'[q] \in {reply[q], "SENDING"} /\ UNCHANGED replies
      BY <2>2, <2>3 DEF SetReply, outside, TypeOK
    <3> QED
      BY <2>1, <2>2, <3>1
  <2>4. CASE RqSend
    <3>1. reply[q] = "SENDING" /\ replies[q] = 0 /\ UNCHANGED reply /\ replies'[q] \in {0, 1}
      BY <1>7, <2>2, <2>4 DEF Deliver, InDoubt, WorkerInv, store, TypeOK
    <3> QED
      BY <2>1, <2>2, <3>1
  <2>5. CASE RqMarkDone
    <3>1. reply[q] = "SENDING" /\ replies[q] = 1 /\ UNCHANGED replies /\ reply'[q] \in {"SENDING", "DONE"}
      BY <1>7, <2>2, <2>5 DEF SetReply, WorkerInv, outside, TypeOK
    <3> QED
      BY <2>1, <2>2, <3>1
  <2>6. CASE RqFailed
    <3>1. reply[q] = "SENDING" /\ replies[q] = 0 /\ UNCHANGED replies /\ reply'[q] \in {"SENDING", "STARTED"}
      BY <1>7, <2>2, <2>6 DEF SetReply, WorkerInv, outside, TypeOK
    <3> QED
      BY <2>1, <2>2, <3>1
  <2>7. CASE RqDoubt
    <3>1. reply[q] = "SENDING" /\ UNCHANGED replies /\ reply'[q] \in {"SENDING", "UNKNOWN"}
      BY <1>7, <2>2, <2>7 DEF SetReply, WorkerInv, outside, TypeOK
    <3> QED
      BY <2>1, <2>2, <3>1
  <2> QED
    BY <1>7, <2>1, <2>2, <2>3, <2>4, <2>5, <2>6, <2>7
<1>8. ThreadInv' /\ ClaimInv'
  BY <1>1, <1>5 DEF ThreadInv, ThreadOk, ClaimInv
<1>9. ASSUME NEW w \in Requests, NEW q \in Messages, Answers(w, q)
      PROVE  reply'[q] = reply[q] /\ replies'[q] = replies[q]
  <2>1. dedup
    BY <1>9 DEF Answers, ThreadInv, ThreadOk
  <2>2. rqPc # "idle" => ~ReplyTask(rqTask, q)
    BY <1>4, <1>9 DEF AnswerInv, AnswerOk
  <2> QED
    BY <1>6, <2>1, <2>2
<1>10. AnswerInv'
  BY <1>1, <1>2, <1>3, <1>9 DEF AnswerInv, AnswerOk
<1>11. JobInv'
  <2>1. ASSUME NEW q \in Messages, job[q] \notin {"none", "finish"}
        PROVE  reply'[q] = reply[q] /\ replies'[q] = replies[q]
    <3>1. dedup /\ (rqPc # "idle" => ~ReplyTask(rqTask, q))
      BY <1>4, <2>1 DEF JobInv, JobOk
    <3> QED
      BY <1>6, <3>1
  <2> QED
    BY <1>1, <1>2, <1>3, <2>1 DEF JobInv, JobOk
<1>12. LockInv'
  <2>1. Busy' = Busy
    BY <1>1 DEF Busy
  <2> QED
    BY <1>1, <2>1 DEF LockInv
<1>13. TaskInv'
  <2>1. ASSUME NEW t \in TaskIds
        PROVE  /\ taskStatus'[t] = "none" <=> taskKind'[t] = "none"
               /\ taskKind'[t] # "none" => taskMsg'[t] \in Messages
               /\ taskStatus'[t] = "none" => tries'[t] = 0
               /\ taskStatus'[t] = "pending" => tries'[t] < MaxAttempts
    <3>1. CASE UNCHANGED queue
      BY <3>1 DEF queue, TaskInv, TaskOk
    <3>2. CASE RqEnd
      <4>1. CASE t = rqTask
        <5>1. tries'[t] = tries[t] + 1 /\ tries[t] \in Nat /\ MaxAttempts \in Nat
          BY <3>2, <4>1, ConstantsAssumption DEF TypeOK
        <5>2. taskStatus'[t] # "none" /\ (taskStatus'[t] = "pending" => ~(tries'[t] >= MaxAttempts))
          BY <3>2, <4>1 DEF TypeOK
        <5>3. taskKind'[t] # "none" /\ taskMsg'[t] \in Messages
          BY <1>1, <1>4, <3>2, <4>1 DEF TaskInv, TaskOk
        <5> QED
          BY <5>1, <5>2, <5>3
      <4>2. CASE t # rqTask
        BY <1>1, <3>2, <4>2 DEF TaskInv, TaskOk, TypeOK
      <4> QED
        BY <4>1, <4>2
    <3> QED
      BY <3>1, <3>2
  <2>2. ASSUME NEW t \in TaskIds, NEW q \in Messages, dedup, ReplyTask(t, q)
        PROVE  /\ reply'[q] # "NOT_APPLICABLE"
               /\ reply'[q] = "STARTED" => replies'[q] = 0
    BY <1>6, <1>7, <2>2 DEF TaskInv, TaskOk, TypeOK, RetryPc
  <2> QED
    BY <1>1, <1>2, <1>3, <2>1, <2>2 DEF TaskInv, TaskOk
<1>14. WorkerInv'
  <2>1. CASE \E t \in TaskIds : RqTake(t)
    BY <1>1, <2>1 DEF WorkerInv, TaskInv, TaskOk, queue, TypeOK
  <2>2. CASE RqCheck
    BY <1>1, <1>4, <2>2 DEF RqGoto, SetReply, WorkerInv, TaskInv, TaskOk, ReplyTask, RowInv, RowOk,
                            queue, outside, TypeOK
  <2>3. CASE RqSend
    BY <1>1, <1>4, <2>3 DEF RqGoto, Deliver, InDoubt, WorkerInv, queue, store, TypeOK
  <2>4. CASE RqMarkDone \/ RqRecord
    BY <1>1, <1>4, <2>4 DEF RqGoto, WorkerInv, queue
  <2>5. CASE RqFailed \/ RqDoubt
    BY <1>1, <1>4, <2>5 DEF RqGoto, WorkerInv, queue
  <2>6. CASE RqEnd
    BY <2>6 DEF WorkerInv
  <2> QED
    BY <2>1, <2>2, <2>3, <2>4, <2>5, <2>6
<1>15. RowInv'
  <2>1. ASSUME NEW q \in Messages, dedup
        PROVE  \/ reply'[q] = reply[q] /\ replies'[q] = replies[q]
               \/ /\ row[q] = "COMPLETED" /\ reply'[q] # "NOT_APPLICABLE"
                  /\ reply'[q] = "DONE" => replies'[q] = 1
                  /\ replies'[q] <= 1
    BY <1>6, <1>7, <2>1 DEF TypeOK, RetryPc
  <2> QED
    BY <1>1, <1>5, <2>1 DEF RowInv, RowOk
<1> QED
  BY <1>8, <1>10, <1>11, <1>12, <1>13, <1>14, <1>15 DEF Others

-----------------------------------------------------------------------------

LEMMA ReplyStep == ReplyInv /\ [Next]_vars => ReplyInv'
<1> SUFFICES ASSUME ReplyInv, [Next]_vars PROVE ReplyInv'
  OBVIOUS
<1>1. CASE UNCHANGED vars
  <2>1. TypeOK'
    BY <1>1 DEF vars, store, threads, memory, ai, queue, rq, alerts, outside, ReplyInv, TypeOK
  <2>2. Others'
    BY <1>1, UntouchedStep DEF vars, store, threads, ai, queue, outside, Untouched
  <2> QED
    BY <2>1, <2>2 DEF Others, ReplyInv
<1>2. CASE Next
  <2>1. TypeOK'
    BY <1>2, TypeStep DEF ReplyInv
  <2>2. ASSUME NEW w \in Requests, Webhook(w) PROVE Others'
    BY <2>1, <2>2, ArrivalStep, HandlesStep DEF Webhook, Handles
  <2>3. ASSUME Monitor \/ WindowEnds \/ \E m \in Messages : LeaseExpires(m)
        PROVE  Others'
    BY <2>3, UntouchedStep
       DEF Monitor, ReportStuck, ReportDead, WindowEnds, LeaseExpires, store, ai, queue, outside,
           Untouched
  <2>4. Others'
    <3>1. ASSUME NEW m \in Messages, AiJob(m) PROVE Others'
      BY <2>1, <3>1, JobStep
    <3>2. CASE RetryWorker
      BY <2>1, <3>2, WorkerStep
    <3>3. CASE Restart
      BY <3>3, RestartStep
    <3> QED
      BY <1>2, <2>2, <2>3, <3>1, <3>2, <3>3 DEF Next
  <2> QED
    BY <2>1, <2>4 DEF Others, ReplyInv
<1> QED
  BY <1>1, <1>2

\* Whatever is redelivered, retried, timed out or restarted: a message is answered from
\* one hand at a time, and the row tells the next hand what became of the answer.
THEOREM RepliesHold == Spec => []ReplyInv
BY InitReplies, ReplyStep, PTL DEF Spec

\* The rows of the event store, the tasks of the retry queue and the places of the
\* threads keep to their types; no task is tried more often than MaxAttempts and no
\* more permits are given out than DM_AI_MAX_PENDING.
THEOREM TypeCorrect == Spec => []TypeOK
BY RepliesHold, PTL DEF ReplyInv

\* With DM_EVENT_DEDUP_ENABLED a message gets at most one automatic reply, however many
\* requests, jobs and retries are about it.
THEOREM OneReplyHolds == Spec => []OneReplyPerMessage
<1>1. ReplyInv => OneReplyPerMessage
  BY DEF ReplyInv, RowInv, RowOk, OneReplyPerMessage
<1> QED
  BY <1>1, RepliesHold, PTL

\* A row is COMPLETED only when the message is in Airtable or in the retry queue, and
\* what it says of the reply, DONE or NOT_APPLICABLE, is what happened.
THEOREM RowTruthHolds == Spec => []RowTellsTheTruth
<1>1. ReplyInv => RowTellsTheTruth
  BY DEF ReplyInv, RowInv, RowOk, Kept, RowTellsTheTruth
<1> QED
  BY <1>1, RepliesHold, PTL

\* _ai_key_lock lets one job of a buyer run at a time, and every permit of _AI_PENDING is
\* of a job that gives it back.
THEOREM AiJobsHold == Spec => []AiJobsAreOrderly
<1>1. ASSUME ReplyInv
      PROVE  Cardinality({m \in Messages : job[m] \notin {"none", "queued", "waiting"}}) <= 1
  <2>1. {m \in Messages : job[m] \notin {"none", "queued", "waiting"}} \in {{}, {aiLock}}
    BY <1>1 DEF ReplyInv, LockInv
  <2>2. Cardinality({aiLock}) = 1 /\ Cardinality({}) = 0
    BY FS_Singleton, FS_EmptySet
  <2> QED
    BY <2>1, <2>2
<1>2. ReplyInv => AiJobsAreOrderly
  BY <1>1 DEF ReplyInv, LockInv, Busy, AiJobsAreOrderly
<1> QED
  BY <1>2, RepliesHold, PTL
=============================================================================
