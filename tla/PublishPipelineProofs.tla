----------------------- MODULE PublishPipelineProofs -----------------------
(***************************************************************************)
(* What publishing keeps to for any number of posts, claims, slots and       *)
(* failures.  First the types.  Then the cap of the day: the count of the    *)
(* slots is in a file and in the poller's memory, so the invariant ties both *)
(* to the containers that were asked for and to the one about to be.  Then   *)
(* the contract and the ledger, along one argument: the claim of a post that *)
(* may be public is its last one, a job at work and the reconciler never     *)
(* hold the same post, and every verdict about to be written is true.        *)
(***************************************************************************)
EXTENDS PublishPipeline, FiniteSetTheorems, TLAPS

\* The launcher runs a job once at a time (max_instances=1), and nobody runs the
\* publishing tool by hand beside it.
OnePoller == \A i, j \in Jobs \ SlotJobs : i = j
JobsAlone == OnePoller /\ \A i, j \in SlotJobs : i = j

\* Nobody has a failed post tried again while the ledger still lists it.
LedgerIsHeeded == "reopen_listed" \notin FaultKinds

\* A ledger that cannot be written and a Slack that loses the message do not meet.
OneWarningWorks == ~({"note", "slack"} \subseteq FaultKinds)

-----------------------------------------------------------------------------
(* Invariants.                                                              *)

Free == {"idle", "next", "gate"}

\* What the steps of a job rely on in its own memory.
MemoryInv ==
    \A j \in Jobs :
        /\ pc[j] \notin {"idle", "next"} => post[j] \in Posts
        /\ pc[j] \notin Free => mine[j] \in Tries
        /\ pc[j] = "consume" => post[j] \in Gated
        /\ pc[j] \in {"gate", "consume"} /\ post[j] \in Gated => seen[j] < allow[j]

\* The reconciler is at an entry it loaded, and writes a verdict it has.
VerdictInv ==
    /\ rpc \in {"check", "write", "alert"} => rpost \in Posts
    /\ rpc \in {"check", "write"} => rverdict \in {"posted", "failed"}

TypeInv == TypeOK /\ MemoryInv /\ VerdictInv

\* Slot posts are the slot jobs' and the others the poller's.
TurfInv ==
    \A j \in Jobs :
        /\ \A p \in batch[j] : p \in SlotPosts <=> j \in SlotJobs
        /\ post[j] \in Posts => (post[j] \in SlotPosts <=> j \in SlotJobs)

\* A container of the gated account may still become one that was asked for.
Asked == {x \in Gated \X Tries : box[x[1]][x[2]] \in {"asked", "published"}}
Ahead == \E j \in Jobs : post[j] \in Gated /\ pc[j] \in {"make", "list", "ask"}

\* The file counts what was asked for and what is about to be, and the poller
\* remembers what the file says.
CapInv ==
    /\ IsFiniteSet(Asked)
    /\ Cardinality(Asked) + (IF Ahead THEN 1 ELSE 0) <= slotFile
    /\ slotFile <= due
    /\ \A j \in Jobs \ SlotJobs : pc[j] # "idle" => seen[j] = slotFile /\ allow[j] <= due

\* What a job has not come to yet is still ready.
BatchOk(j) ==
    /\ pc[j] = "idle" => post[j] = Nothing
    /\ post[j] \notin batch[j]
    /\ \A p \in batch[j] : status[p] = "ready"
    /\ pc[j] = "gate" => status[post[j]] = "ready"

\* What a job at work on a post finds of it.
WorkOk(j) ==
    pc[j] \notin Free =>
        /\ mine[j] = tries[post[j]]
        /\ pc[j] \in {"consume", "make", "list", "ask", "answer", "isolate", "mark_posted",
                      "mark_failed"} => status[post[j]] = "uploading"
        /\ pc[j] \in {"consume", "make", "list", "ask", "mark_failed", "note_failed"} =>
              ~MayBePublic(post[j])
        /\ pc[j] \in {"mark_posted", "note_posted"} => Box(j) = "published"
        /\ pc[j] \in {"consume", "make", "list"} => clue[post[j]].kind = "none"
        /\ pc[j] = "ask" => clue[post[j]].kind \in {"none", "in_flight"}
        /\ pc[j] \in {"note_posted", "tell"} => status[post[j]] \in {"uploading", "posted"}
        /\ pc[j] = "note_failed" => status[post[j]] \in {"uploading", "failed"}
        /\ pc[j] = "clear" => status[post[j]] \in {"posted", "failed"}

\* Only the last claim of a post may be public, and a verdict agrees with it.
BoxOk(p) ==
    /\ \A a \in Tries : box[p][a] \in {"asked", "published"} => a = tries[p]
    /\ status[p] \in {"ready", "failed", "rejected"} => ~MayBePublic(p)
    /\ status[p] = "posted" => Public(p) # {}

\* An entry of the ledger is about the last claim, and tells the truth.
ClueOk(p) ==
    clue[p].kind # "none" =>
        /\ clue[p].try = tries[p] /\ clue[p].try \in Tries
        /\ status[p] \in {"uploading", "posted", "failed"}
        /\ clue[p].kind = "posted_unrecorded" => Public(p) # {}
        /\ clue[p].kind = "failed_unrecorded" => ~MayBePublic(p)

BatchInv == \A j \in Jobs : BatchOk(j)
WorkInv  == \A j \in Jobs : WorkOk(j)
BoxInv   == \A p \in Posts : BoxOk(p)
ClueInv  == \A p \in Posts : ClueOk(p)

\* The reconciler has the post in its hands.
Held(p) ==
    \/ p \in left \cup resolved \cup flagged
    \/ rpc \in {"check", "write", "alert"} /\ p = rpost

\* Meanwhile no job is at work on it and its entry stays as it was loaded; a
\* verdict the reconciler has is true, and one it wrote is written.
RecInv ==
    /\ \A p \in Posts : Held(p) =>
          snap[p].kind # "none" /\ clue[p] = snap[p] /\ ~AtWork(p)
    /\ rpc \in {"check", "write"} =>
          /\ rverdict = "posted" => Public(rpost) # {}
          /\ rverdict = "failed" => ~MayBePublic(rpost)
    /\ \A p \in resolved : status[p] # "uploading"

ContractInv == TypeInv /\ TurfInv /\ BatchInv /\ BoxInv /\ WorkInv /\ ClueInv /\ RecInv

\* The job leaves the post with an entry or a message behind: a carousel's entry is
\* there from before the publication was asked for, and whoever is about to send
\* the message has written one or will be heard.
LeaveInv ==
    \A j \in Jobs :
        /\ pc[j] \in {"ask", "answer", "isolate", "mark_posted", "note_posted", "tell"}
           /\ post[j] \in Carousels => clue[post[j]].kind # "none"
        /\ pc[j] = "tell" => clue[post[j]].kind # "none" \/ "slack" \notin FaultKinds

ListInv == LeaveInv /\ ListedOrTold

-----------------------------------------------------------------------------
(* Types.                                                                   *)

LEMMA Zeros == 0 \in 0..MaxTries /\ 0 \in 0..MaxSlots /\ 0 \in 0..MaxFaults
BY PublishAssumption

LEMMA CluesAreClues ==
    /\ NoClue \in Clues
    /\ \A a \in Tries : \A kind \in {"in_flight", "outcome_unknown", "posted_unrecorded",
                                     "failed_unrecorded"} :
          [kind |-> kind, try |-> a, alerted |-> FALSE] \in Clues
<1>1. \A a \in Tries : a \in 0..MaxTries
  BY PublishAssumption DEF Tries
<1> QED
  BY <1>1, Zeros DEF NoClue, Clues

LEMMA InitTypes == Init => TypeInv
<1> SUFFICES ASSUME Init PROVE TypeInv
  OBVIOUS
<1>1. TypeOK
  <2>1. /\ status \in [Posts -> {"ready", "uploading", "posted", "failed", "rejected"}]
        /\ tries \in [Posts -> 0..MaxTries]
        /\ box \in [Posts -> [Tries -> {"none", "made", "asked", "published", "expired"}]]
        /\ clue \in [Posts -> Clues] /\ snap \in [Posts -> Clues]
    BY Zeros, CluesAreClues DEF Init
  <2>2. /\ pc \in [Jobs -> JobPc]
        /\ batch \in [Jobs -> SUBSET Posts]
        /\ post \in [Jobs -> Posts \cup {Nothing}]
        /\ mine \in [Jobs -> 0..MaxTries]
        /\ seen \in [Jobs -> 0..MaxSlots] /\ allow \in [Jobs -> 0..MaxSlots]
        /\ used \in [Jobs -> BOOLEAN]
    BY Zeros DEF Init, JobPc
  <2>3. due \in 0..MaxSlots /\ slotFile \in 0..MaxSlots
    BY PublishAssumption DEF Init
  <2> QED
    BY Zeros, <2>1, <2>2, <2>3 DEF Init, TypeOK
<1>2. MemoryInv /\ VerdictInv
  BY DEF Init, MemoryInv, VerdictInv, Free
<1> QED
  BY <1>1, <1>2 DEF TypeInv

LEMMA FaultTypes ==
    ASSUME TypeOK, NoFault \/ \E kind \in FaultKinds : Fault(kind)
    PROVE  crashed' \in BOOLEAN /\ faults' \in 0..MaxFaults
<1>1. faults' \in 0..MaxFaults
  <2>1. MaxFaults \in Nat /\ faults \in 0..MaxFaults
    BY PublishAssumption DEF TypeOK
  <2> QED
    BY <2>1 DEF NoFault, Fault
<1>2. crashed' \in BOOLEAN
  BY DEF TypeOK, NoFault, Fault
<1> QED
  BY <1>1, <1>2

\* The types of what a job keeps.
JobTypes ==
    /\ pc \in [Jobs -> JobPc]
    /\ batch \in [Jobs -> SUBSET Posts]
    /\ post \in [Jobs -> Posts \cup {Nothing}]
    /\ mine \in [Jobs -> 0..MaxTries]
    /\ seen \in [Jobs -> 0..MaxSlots] /\ allow \in [Jobs -> 0..MaxSlots]
    /\ used \in [Jobs -> BOOLEAN]
    /\ MemoryInv

LEMMA GoTypes ==
    ASSUME TypeInv, NEW j \in Jobs, NEW place \in JobPc \ {"gate", "consume"}, Go(j, place),
           place = "next" \/ pc[j] \notin Free
    PROVE  JobTypes'
BY DEF TypeInv, TypeOK, MemoryInv, JobTypes, Go, Free

LEMMA EndedTypes ==
    ASSUME TypeInv, NEW J, Ended(J)
    PROVE  JobTypes'
<1>1. MemoryInv'
  BY DEF TypeInv, TypeOK, MemoryInv, Ended, Free
<1> QED
  BY <1>1, Zeros DEF TypeInv, TypeOK, JobTypes, Ended, JobPc

\* The steps by which a job comes to a post.
LEMMA ApproachTypes ==
    ASSUME TypeInv, NEW j \in Jobs, Fetch(j) \/ Skip(j) \/ Pick(j) \/ End(j)
    PROVE  TypeInv'
<1> USE DEF TypeInv, airtable, meta, ledger, slots, rec, NoFault
<1>1. CASE Fetch(j)
  BY <1>1 DEF Fetch, Candidates, TypeOK, MemoryInv, VerdictInv, JobPc, Free
<1>2. CASE Skip(j)
  BY <1>2 DEF Skip, TypeOK, MemoryInv, VerdictInv
<1>3. CASE Pick(j)
  BY <1>3 DEF Pick, SlotAllowed, At, TypeOK, MemoryInv, VerdictInv, JobPc, Free
<1>4. CASE End(j)
  BY <1>4, EndedTypes DEF End, TypeOK, VerdictInv, JobTypes
<1> QED
  BY <1>1, <1>2, <1>3, <1>4

LEMMA StatusTypes ==
    ASSUME TypeOK, NEW p \in Posts,
           NEW s \in {"ready", "uploading", "posted", "failed", "rejected"},
           Write(p, s) \/ MaybeWritten(p, s)
    PROVE  status' \in [Posts -> {"ready", "uploading", "posted", "failed", "rejected"}]
BY DEF TypeOK, Write, MaybeWritten

LEMMA GateTypes ==
    ASSUME TypeInv, NEW j \in Jobs, Refuse(j) \/ Hold(j) \/ Claim(j) \/ ClaimRaises(j)
    PROVE  TypeInv'
<1> USE DEF TypeInv, meta, ledger, slots, rec
<1>0. pc[j] = "gate" /\ post[j] \in Posts
  BY DEF Refuse, Hold, Claim, ClaimRaises, At, MemoryInv
<1>1. CASE Refuse(j)
  <2>1. PICK s \in {"failed", "rejected"} :
            \/ Write(post[j], s) /\ Go(j, "next") /\ NoFault
            \/ MaybeWritten(post[j], s) /\ Ended({j}) /\ Fault("gate")
    BY <1>1 DEF Refuse
  <2>2. status' \in [Posts -> {"ready", "uploading", "posted", "failed", "rejected"}]
    BY <1>0, <2>1, StatusTypes
  <2>3. JobTypes'
    BY <2>1, GoTypes, EndedTypes DEF JobPc
  <2>4. crashed' \in BOOLEAN /\ faults' \in 0..MaxFaults
    BY <2>1, FaultTypes DEF Fault
  <2> QED
    BY <1>1, <2>2, <2>3, <2>4 DEF Refuse, TypeOK, VerdictInv, JobTypes
<1>2. CASE Hold(j)
  BY <1>2, GoTypes DEF Hold, TypeOK, VerdictInv, JobTypes, JobPc, airtable, NoFault
<1>3. CASE Claim(j)
  <2>1. status' \in [Posts -> {"ready", "uploading", "posted", "failed", "rejected"}]
    BY <1>0, <1>3, StatusTypes DEF Claim
  <2>2. tries[post[j]] + 1 \in Tries /\ tries[post[j]] + 1 \in 0..MaxTries
    BY <1>0, <1>3, PublishAssumption DEF Claim, TypeOK, Tries
  <2>3. JobTypes'
    BY <1>0, <1>3, <2>2, PublishAssumption
       DEF Claim, TypeOK, MemoryInv, JobTypes, JobPc, Free, Tries
  <2>4. tries' \in [Posts -> 0..MaxTries]
    BY <1>3, <2>2 DEF Claim, TypeOK
  <2> QED
    BY <1>3, <2>1, <2>3, <2>4 DEF Claim, TypeOK, VerdictInv, JobTypes, NoFault
<1>4. CASE ClaimRaises(j)
  <2>1. status' \in [Posts -> {"ready", "uploading", "posted", "failed", "rejected"}]
    BY <1>0, <1>4, StatusTypes DEF ClaimRaises
  <2>2. crashed' \in BOOLEAN /\ faults' \in 0..MaxFaults
    BY <1>4, FaultTypes DEF ClaimRaises, Fault
  <2> QED
    BY <1>4, <2>1, <2>2, EndedTypes DEF ClaimRaises, TypeOK, VerdictInv, JobTypes
<1> QED
  BY <1>1, <1>2, <1>3, <1>4

LEMMA ConsumeTypes ==
    ASSUME TypeInv, NEW j \in Jobs, Consume(j)
    PROVE  TypeInv'
<1> USE DEF TypeInv, Consume
<1>1. seen[j] + 1 \in 0..MaxSlots
  BY PublishAssumption DEF At, TypeOK, MemoryInv
<1>2. crashed' \in BOOLEAN /\ faults' \in 0..MaxFaults
  BY FaultTypes DEF Fault
<1>3. JobTypes'
  BY <1>1 DEF At, TypeOK, MemoryInv, JobTypes, JobPc, Free
<1> QED
  BY <1>1, <1>2, <1>3 DEF TypeOK, VerdictInv, JobTypes, airtable, meta, ledger, rec

LEMMA BoxTypes ==
    ASSUME TypeOK, NEW p \in Posts, NEW a \in Tries,
           NEW s \in {"made", "asked", "published", "expired"},
           box' = [box EXCEPT ![p][a] = s]
    PROVE  box' \in [Posts -> [Tries -> {"none", "made", "asked", "published", "expired"}]]
BY DEF TypeOK

\* A container changes and no other.
LEMMA BoxAfter ==
    ASSUME TypeOK, NEW p \in Posts, NEW a \in Tries, NEW s, box' = [box EXCEPT ![p][a] = s],
           NEW q \in Posts, NEW b \in Tries
    PROVE  box'[q][b] = IF q = p /\ b = a THEN s ELSE box[q][b]
BY DEF TypeOK

LEMMA ContainerTypes ==
    ASSUME TypeInv, NEW j \in Jobs,
           Make(j) \/ MakeFails(j) \/ WaitFails(j) \/ Ask(j) \/ AnswerOk(j) \/ AnswerUnclear(j)
    PROVE  TypeInv'
<1> USE DEF TypeInv
<1>0. pc[j] \in {"make", "ask", "answer"} /\ post[j] \in Posts /\ mine[j] \in Tries
  BY DEF Make, MakeFails, WaitFails, Ask, AnswerOk, AnswerUnclear, At, MemoryInv, Free
<1>1. JobTypes'
  BY <1>0, GoTypes
     DEF Make, MakeFails, WaitFails, Ask, AnswerOk, AnswerUnclear, JobPc, Free
<1>2. crashed' \in BOOLEAN /\ faults' \in 0..MaxFaults
  BY FaultTypes DEF Make, MakeFails, WaitFails, Ask, AnswerOk, AnswerUnclear, Fault
<1>3. box' \in [Posts -> [Tries -> {"none", "made", "asked", "published", "expired"}]]
  BY <1>0, BoxTypes
     DEF Make, MakeFails, WaitFails, Ask, AnswerOk, AnswerUnclear, SetBox, meta, TypeOK
<1>4. UNCHANGED <<status, tries, clue, told, slotFile, due, rec>>
  BY DEF Make, MakeFails, WaitFails, Ask, AnswerOk, AnswerUnclear, SetBox, airtable, meta, ledger,
         slots
<1> QED
  BY <1>1, <1>2, <1>3, <1>4 DEF TypeOK, VerdictInv, JobTypes, rec

LEMMA LedgerTypes ==
    ASSUME TypeInv, NEW j \in Jobs,
           List(j) \/ Isolate(j) \/ Tell(j) \/ Clear(j)
              \/ \E s \in {"posted", "failed"} : NoteUnrecorded(j, s)
    PROVE  TypeInv'
<1> USE DEF TypeInv, List, Isolate, Tell, Clear, NoteUnrecorded, NoteAt
<1>0. pc[j] \notin Free /\ post[j] \in Posts /\ mine[j] \in Tries
  BY DEF At, MemoryInv, Free
<1>1. JobTypes'
  BY <1>0, GoTypes DEF JobPc
<1>2. crashed' \in BOOLEAN /\ faults' \in 0..MaxFaults
  BY FaultTypes DEF Fault
<1>3. clue' \in [Posts -> Clues]
  <2>1. ASSUME NEW kind \in {"in_flight", "outcome_unknown", "posted_unrecorded",
                           "failed_unrecorded"}, Note(post[j], kind, mine[j])
        PROVE  clue' \in [Posts -> Clues]
    BY <1>0, <2>1, CluesAreClues DEF Note, TypeOK
  <2>2. ASSUME clue' = [clue EXCEPT ![post[j]] = NoClue] PROVE clue' \in [Posts -> Clues]
    BY <2>2, CluesAreClues DEF TypeOK
  <2>3. ASSUME UNCHANGED clue PROVE clue' \in [Posts -> Clues]
    BY <2>3 DEF TypeOK
  <2> QED
    BY <2>1, <2>2, <2>3 DEF Unrecorded
<1>5. told' \subseteq Posts
  BY <1>0 DEF TypeOK
<1>4. UNCHANGED <<airtable, meta, slots, rec>>
  OBVIOUS
<1> QED
  BY <1>1, <1>2, <1>3, <1>4, <1>5 DEF TypeOK, VerdictInv, JobTypes, airtable, meta, slots, rec

LEMMA MarkTypes ==
    ASSUME TypeInv, NEW j \in Jobs, NEW s \in {"posted", "failed"}, Mark(j, s)
    PROVE  TypeInv'
<1> USE DEF TypeInv, Mark
<1>0. pc[j] \notin Free /\ post[j] \in Posts
  BY DEF At, MarkAt, MemoryInv, Free
<1>1. JobTypes'
  BY <1>0, GoTypes DEF JobPc, AfterMark, NoteAt
<1>2. crashed' \in BOOLEAN /\ faults' \in 0..MaxFaults
  BY FaultTypes DEF Fault
<1>3. status' \in [Posts -> {"ready", "uploading", "posted", "failed", "rejected"}]
  BY <1>0, StatusTypes
<1> QED
  BY <1>1, <1>2, <1>3 DEF TypeOK, VerdictInv, JobTypes, meta, ledger, slots, rec

LEMMA RecTypes ==
    ASSUME TypeInv, RecStep
    PROVE  TypeInv'
<1> USE DEF TypeInv, airtable, meta, ledger, slots, job
<1>0. crashed' \in BOOLEAN /\ faults' \in 0..MaxFaults
  BY FaultTypes DEF RecStep, RecLoad, RecDecide, RecCheck, RecWrite, RecAlert, RecApply, Fault
<1>1. CASE RecLoad
  BY <1>0, <1>1 DEF RecLoad, TypeOK, MemoryInv, VerdictInv
<1>2. CASE RecDecide
  <2>1. rverdict' \in {"hold", "posted", "failed"}
    BY <1>2 DEF RecDecide, Evidence
  <2>2. left' \subseteq Posts /\ rpost' \in Posts
    BY <1>2 DEF RecDecide, TypeOK
  <2>3. rpc' \in {"alert", "check"} /\ (rpc' = "check" => rverdict' # "hold")
    BY <1>2 DEF RecDecide
  <2> QED
    BY <1>0, <1>2, <2>1, <2>2, <2>3 DEF RecDecide, TypeOK, MemoryInv, VerdictInv
<1>3. CASE RecCheck
  BY <1>0, <1>3 DEF RecCheck, TypeOK, MemoryInv, VerdictInv
<1>4. CASE RecWrite
  <2>1. rpost \in Posts /\ rverdict \in {"posted", "failed"}
    BY <1>4 DEF RecWrite, VerdictInv
  <2>2. status' \in [Posts -> {"ready", "uploading", "posted", "failed", "rejected"}]
    BY <1>4, <2>1, StatusTypes DEF RecWrite
  <2> QED
    BY <1>0, <1>4, <2>1, <2>2 DEF RecWrite, TypeOK, MemoryInv, VerdictInv
<1>5. CASE RecAlert
  BY <1>0, <1>5 DEF RecAlert, TypeOK, MemoryInv, VerdictInv
<1>6. CASE RecApply
  <2>1. clue' \in [Posts -> Clues]
    <3>1. Applied \in [Posts -> Clues]
      BY CluesAreClues DEF Applied, TypeOK, Clues
    <3> QED
      BY <1>6, <3>1 DEF RecApply, TypeOK
  <2>2. /\ rpc' = "idle" /\ snap' \in [Posts -> Clues] /\ left' = {} /\ rpost' = Nothing
        /\ rverdict' = "hold" /\ resolved' = {} /\ flagged' = {}
    BY <1>6, CluesAreClues DEF RecApply, RecForget
  <2> QED
    BY <1>0, <1>6, <2>1, <2>2 DEF RecApply, TypeOK, MemoryInv, VerdictInv
<1> QED
  BY <1>1, <1>2, <1>3, <1>4, <1>5, <1>6 DEF RecStep

LEMMA WorldTypes ==
    ASSUME TypeInv, SlotStarts \/ \E p \in Posts : World(p)
    PROVE  TypeInv'
<1> USE DEF TypeInv, airtable, meta, ledger, slots, job, rec, NoFault
<1>1. CASE SlotStarts
  BY <1>1, PublishAssumption DEF SlotStarts, TypeOK, MemoryInv, VerdictInv
<1>2. ASSUME NEW p \in Posts, NEW a \in Tries, Accept(p, a) \/ Expire(p, a)
      PROVE  TypeInv'
  <2>1. box' \in [Posts -> [Tries -> {"none", "made", "asked", "published", "expired"}]]
    BY <1>2, BoxTypes DEF Accept, Expire
  <2> QED
    BY <1>2, <2>1 DEF Accept, Expire, TypeOK, MemoryInv, VerdictInv
<1>3. ASSUME NEW p \in Posts, OpSettle(p) \/ OpReopen(p)
      PROVE  TypeInv'
  <2>1. status' \in [Posts -> {"ready", "uploading", "posted", "failed", "rejected"}]
    BY <1>3, StatusTypes DEF OpSettle, OpReopen
  <2> QED
    BY <1>3, <2>1 DEF OpSettle, OpReopen, TypeOK, MemoryInv, VerdictInv
<1> QED
  BY <1>1, <1>2, <1>3 DEF World

LEMMA CrashTypes ==
    ASSUME TypeInv, Crash
    PROVE  TypeInv'
<1> USE DEF TypeInv, Crash, RecForget, airtable, meta, ledger, slots
<1>1. JobTypes'
  BY EndedTypes
<1>2. crashed' \in BOOLEAN /\ faults' \in 0..MaxFaults
  BY FaultTypes DEF Fault
<1>3. snap' \in [Posts -> Clues]
  BY CluesAreClues
<1> QED
  BY <1>1, <1>2, <1>3 DEF TypeOK, VerdictInv, JobTypes

LEMMA TypeStep == TypeInv /\ [Next]_vars => TypeInv'
<1> SUFFICES ASSUME TypeInv, [Next]_vars PROVE TypeInv'
  OBVIOUS
<1>1. ASSUME NEW j \in Jobs, JobStep(j) PROVE TypeInv'
  BY <1>1, ApproachTypes, GateTypes, ConsumeTypes, ContainerTypes, LedgerTypes, MarkTypes
     DEF JobStep, Publishing
<1>2. CASE RecStep
  BY <1>2, RecTypes
<1>3. CASE SlotStarts \/ \E p \in Posts : World(p)
  BY <1>3, WorldTypes
<1>4. CASE Crash
  BY <1>4, CrashTypes
<1>5. CASE UNCHANGED vars
  BY <1>5 DEF vars, airtable, meta, ledger, slots, job, rec, TypeInv, TypeOK, MemoryInv, VerdictInv
<1> QED
  BY <1>1, <1>2, <1>3, <1>4, <1>5 DEF Next

LEMMA TypesHold == Spec => []TypeInv
BY InitTypes, TypeStep, PTL DEF Spec

\* The records of Airtable, the entries of the ledger and what the jobs remember keep
\* to their types; no claim passes MaxTries and no slot count the slots of the day.
THEOREM TypeCorrect == Spec => []TypeOK
BY TypesHold, PTL DEF TypeInv

-----------------------------------------------------------------------------
(* The cap of the day.                                                      *)

\* How a step of a job that is not a coming or going treats its batch and post.
LEMMA JobKeepsPost ==
    ASSUME NEW j \in Jobs, JobStep(j)
    PROVE  \/ Fetch(j) \/ Skip(j) \/ Pick(j)
           \/ Ended({j})
           \/ UNCHANGED <<batch, post, used>>
BY DEF JobStep, Publishing, End, Refuse, Hold, Claim, ClaimRaises, Consume, Make, MakeFails, List,
       WaitFails, Ask, AnswerOk, AnswerUnclear, Isolate, Tell, Mark, NoteUnrecorded, Clear, Go

LEMMA InitTurf == Init => TurfInv
BY PublishAssumption DEF Init, TurfInv

LEMMA TurfStep == ASSUME TypeInv, TurfInv, [Next]_vars PROVE TurfInv'
<1> USE DEF TypeInv, TypeOK, TurfInv
<1>1. ASSUME NEW J, Ended(J) PROVE TurfInv'
  BY <1>1, PublishAssumption DEF Ended
<1>2. ASSUME UNCHANGED <<batch, post>> PROVE TurfInv'
  BY <1>2
<1>3. ASSUME NEW j \in Jobs, JobStep(j) PROVE TurfInv'
  <2>1. CASE Fetch(j)
    BY <2>1, PublishAssumption DEF Fetch, Candidates
  <2>2. CASE Skip(j)
    BY <2>2 DEF Skip
  <2>3. CASE Pick(j)
    BY <2>3 DEF Pick
  <2> QED
    BY <1>1, <1>2, <1>3, <2>1, <2>2, <2>3, JobKeepsPost
<1>4. CASE RecStep \/ SlotStarts \/ \E p \in Posts : World(p)
  BY <1>2, <1>4 DEF RecStep, RecLoad, RecDecide, RecCheck, RecWrite, RecAlert, RecApply, SlotStarts,
                    World, Accept, Expire, OpSettle, OpReopen, job
<1>5. CASE Crash
  BY <1>1, <1>5 DEF Crash
<1>6. CASE UNCHANGED vars
  BY <1>2, <1>6 DEF vars, job
<1> QED
  BY <1>3, <1>4, <1>5, <1>6 DEF Next

\* Only the poller comes to posts of the gated account.
LEMMA GatedIsPollers ==
    ASSUME OnePoller, TypeInv, TurfInv, NEW i \in Jobs, NEW j \in Jobs, post[i] \in Gated
    PROVE  i \notin SlotJobs /\ (j \notin SlotJobs => i = j) /\ (post[j] \in Gated => i = j)
BY PublishAssumption DEF OnePoller, TurfInv

\* What the poller remembers of the slots.
SlotMemory == \A j \in Jobs \ SlotJobs : pc[j] # "idle" => seen[j] = slotFile /\ allow[j] <= due

\* A step that neither asks for a publication nor counts a claim.
LEMMA QuietCap ==
    ASSUME TypeInv, TypeInv', CapInv, Asked' \in SUBSET Asked, Ahead' => Ahead, slotFile' = slotFile,
           due' >= due, SlotMemory'
    PROVE  CapInv'
<1>1. /\ IsFiniteSet(Asked') /\ IsFiniteSet(Asked)
      /\ Cardinality(Asked') <= Cardinality(Asked)
      /\ Cardinality(Asked') \in Nat /\ Cardinality(Asked) \in Nat
  BY FS_Subset, FS_CardinalityType DEF CapInv
<1>2. Cardinality(Asked') + (IF Ahead' THEN 1 ELSE 0) <= slotFile'
  BY <1>1 DEF CapInv, TypeInv, TypeOK
<1>3. slotFile' <= due'
  BY DEF CapInv, TypeInv, TypeOK
<1> QED
  BY <1>1, <1>2, <1>3 DEF CapInv, SlotMemory

LEMMA SameBox == UNCHANGED box => Asked' = Asked
BY DEF Asked

LEMMA InitCap == Init => CapInv
<1> SUFFICES ASSUME Init PROVE CapInv
  OBVIOUS
<1>1. Asked = {}
  BY PublishAssumption DEF Init, Asked, Tries
<1>2. ~Ahead
  BY DEF Init, Ahead
<1> QED
  BY <1>1, <1>2, FS_EmptySet DEF Init, CapInv

LEMMA CapConsume ==
    ASSUME OnePoller, "save" \notin FaultKinds, TypeInv, TypeInv', TurfInv, CapInv,
           NEW j \in Jobs, Consume(j)
    PROVE  CapInv'
<1>1. post[j] \in Gated /\ seen[j] < allow[j] /\ pc[j] = "consume"
  BY DEF Consume, At, TypeInv, MemoryInv
<1>2. \A i \in Jobs \ SlotJobs : i = j
  BY <1>1, GatedIsPollers
<1>3. j \notin SlotJobs /\ seen[j] = slotFile /\ allow[j] <= due
  BY <1>1, GatedIsPollers DEF CapInv
<1>4. ~Ahead
  BY <1>1, GatedIsPollers DEF Ahead
<1>5. slotFile' = slotFile + 1 /\ due' = due /\ seen'[j] = slotFile + 1 /\ allow' = allow
  BY <1>3 DEF Consume, Fault, TypeInv, TypeOK
<1>6. Asked' = Asked
  BY SameBox DEF Consume, meta
<1>7. Cardinality(Asked) \in Nat
  BY FS_CardinalityType DEF CapInv
<1>8. Cardinality(Asked') + (IF Ahead' THEN 1 ELSE 0) <= slotFile'
  BY <1>4, <1>5, <1>6, <1>7 DEF CapInv, TypeInv, TypeOK
<1>9. slotFile' <= due'
  BY <1>1, <1>3, <1>5 DEF TypeInv, TypeOK
<1> QED
  BY <1>2, <1>3, <1>5, <1>6, <1>8, <1>9 DEF CapInv

LEMMA CapAsk ==
    ASSUME OnePoller, TypeInv, TypeInv', TurfInv, CapInv, NEW j \in Jobs, Ask(j), post[j] \in Gated
    PROVE  CapInv'
<1>1. pc[j] = "ask" /\ pc' = [pc EXCEPT ![j] = "answer"] /\ mine[j] \in Tries
  BY DEF Ask, At, Go, TypeInv, MemoryInv, Free
<1>2. Ahead
  BY <1>1 DEF Ahead
<1>3. ~Ahead'
  BY <1>1, GatedIsPollers DEF Ahead, Ask, Go, TypeInv, TypeOK
<1>4. Asked' = Asked \cup {<<post[j], mine[j]>>}
  <2>1. box' = [box EXCEPT ![post[j]][mine[j]] = "asked"] /\ post[j] \in Posts
    BY PublishAssumption DEF Ask, SetBox
  <2>2. ASSUME NEW p \in Gated, NEW a \in Tries
        PROVE  box'[p][a] \in {"asked", "published"}
                   <=> box[p][a] \in {"asked", "published"} \/ (p = post[j] /\ a = mine[j])
    BY <1>1, <2>1, PublishAssumption DEF TypeInv, TypeOK
  <2> QED
    BY <1>1, <2>2 DEF Asked
<1>5. /\ IsFiniteSet(Asked') /\ Cardinality(Asked') <= Cardinality(Asked) + 1
      /\ Cardinality(Asked) \in Nat /\ Cardinality(Asked') \in Nat
  <2>1. IsFiniteSet(Asked) /\ Cardinality(Asked) \in Nat
    BY FS_CardinalityType DEF CapInv
  <2>2. /\ IsFiniteSet(Asked')
        /\ Cardinality(Asked') = IF <<post[j], mine[j]>> \in Asked THEN Cardinality(Asked)
                                                               ELSE Cardinality(Asked) + 1
    BY <1>4, <2>1, FS_AddElement
  <2> QED
    BY <2>1, <2>2
<1>6. UNCHANGED <<slotFile, due, seen, allow>>
  BY DEF Ask, Go, slots
<1> QED
  BY <1>1, <1>2, <1>3, <1>5, <1>6 DEF CapInv, TypeInv, TypeOK

LEMMA CapJob ==
    ASSUME OnePoller, "save" \notin FaultKinds, TypeInv, TypeInv', TurfInv, CapInv,
           NEW j \in Jobs, JobStep(j)
    PROVE  CapInv'
<1>1. CASE Consume(j)
  BY <1>1, CapConsume
<1>2. CASE Ask(j) /\ post[j] \in Gated
  BY <1>2, CapAsk
<1>3. CASE ~Consume(j) /\ ~(Ask(j) /\ post[j] \in Gated)
  <2>1. Asked' \in SUBSET Asked
    <3>1. CASE Ask(j)
      BY <1>3, <3>1 DEF Asked, Ask, SetBox, TypeInv, TypeOK
    <3>2. CASE Make(j)
      BY <3>2 DEF Asked, Make, SetBox, TypeInv, TypeOK
    <3>3. CASE UNCHANGED box
      BY <3>3, SameBox
    <3> QED
      BY <3>1, <3>2, <3>3
         DEF JobStep, Publishing, Fetch, Skip, Pick, End, Refuse, Hold, Claim, ClaimRaises, Consume,
             MakeFails, List, WaitFails, AnswerOk, AnswerUnclear, Isolate, Tell, Mark,
             NoteUnrecorded, Clear, meta
  <2>2. Ahead' => Ahead
    <3>1. CASE Ended({j})
      BY <3>1 DEF Ahead, Ended, TypeInv, TypeOK
    <3>2. CASE Fetch(j) \/ Skip(j) \/ Pick(j)
      BY <3>2 DEF Ahead, Fetch, Skip, Pick, TypeInv, TypeOK
    <3>3. CASE Claim(j)
      BY <3>3 DEF Ahead, Claim, TypeInv, TypeOK
    <3>4. CASE /\ post' = post
               /\ pc'[j] \in {"make", "list", "ask"} => pc[j] \in {"make", "list", "ask"}
               /\ \A i \in Jobs \ {j} : pc'[i] = pc[i]
      BY <3>4 DEF Ahead
    <3> QED
      BY <1>3, <3>1, <3>2, <3>3, <3>4
         DEF JobStep, Publishing, End, Refuse, Hold, ClaimRaises, Make,
             MakeFails, List, WaitFails, Ask, AnswerOk, AnswerUnclear, Isolate, Tell, Mark,
             NoteUnrecorded, Clear, At, Go, MarkAt, NoteAt, AfterMark, TypeInv, TypeOK
  <2>3. UNCHANGED slots
    BY <1>3
       DEF JobStep, Publishing, Fetch, Skip, Pick, End, Refuse, Hold, Claim, ClaimRaises, Make,
           MakeFails, List, WaitFails, Ask, AnswerOk, AnswerUnclear, Isolate, Tell, Mark,
           NoteUnrecorded, Clear
  <2>4. SlotMemory'
    <3>1. CASE Fetch(j)
      BY <2>3, <3>1 DEF Fetch, SlotMemory, CapInv, TypeInv, TypeOK, slots
    <3>2. CASE Ended({j})
      BY <2>3, <3>2 DEF Ended, SlotMemory, CapInv, TypeInv, TypeOK, slots
    <3>3. CASE UNCHANGED <<seen, allow>> /\ pc[j] # "idle" /\ \A i \in Jobs \ {j} : pc'[i] = pc[i]
      BY <2>3, <3>3 DEF SlotMemory, CapInv, slots
    <3> QED
      BY <1>3, <3>1, <3>2, <3>3
         DEF JobStep, Publishing, Skip, Pick, End, Refuse, Hold, Claim, ClaimRaises, Make,
             MakeFails, List, WaitFails, Ask, AnswerOk, AnswerUnclear, Isolate, Tell, Mark,
             NoteUnrecorded, Clear, At, Go, MarkAt, NoteAt, TypeInv, TypeOK
  <2> QED
    BY <2>1, <2>2, <2>3, <2>4, QuietCap DEF slots, TypeInv, TypeOK
<1> QED
  BY <1>1, <1>2, <1>3

LEMMA CapStep ==
    ASSUME OnePoller, "save" \notin FaultKinds, TypeInv, TypeInv', TurfInv, CapInv, [Next]_vars
    PROVE  CapInv'
<1>1. ASSUME NEW j \in Jobs, JobStep(j) PROVE CapInv'
  BY <1>1, CapJob
<1>2. ASSUME NEW p \in Posts, NEW a \in Tries, Accept(p, a) \/ Expire(p, a) PROVE CapInv'
  <2>1. Asked' \in SUBSET Asked
    <3>1. ASSUME NEW q \in Posts, NEW b \in Tries, box'[q][b] \in {"asked", "published"}
          PROVE  box[q][b] \in {"asked", "published"}
      BY <1>2, <3>1, BoxAfter DEF Accept, Expire, TypeInv
    <3> QED
      BY <3>1, PublishAssumption DEF Asked
  <2> QED
    BY <1>2, <2>1, QuietCap DEF Accept, Expire, job, slots, Ahead, SlotMemory, CapInv, TypeInv, TypeOK
<1>3. CASE SlotStarts
  <2>1. SlotMemory'
    BY <1>3 DEF SlotStarts, job, SlotMemory, CapInv, TypeInv, TypeOK
  <2> QED
    BY <1>3, <2>1, SameBox, QuietCap DEF SlotStarts, job, meta, Ahead, TypeInv, TypeOK
<1>4. CASE Crash
  <2>1. SlotMemory' /\ (Ahead' => Ahead)
    BY <1>4 DEF Crash, Ended, slots, SlotMemory, Ahead, CapInv, TypeInv, TypeOK
  <2> QED
    BY <1>4, <2>1, SameBox, QuietCap DEF Crash, meta, slots, TypeInv, TypeOK
<1>5. ASSUME UNCHANGED <<box, slots, job>> PROVE CapInv'
  BY <1>5, SameBox DEF CapInv, Ahead, slots, job
<1>6. CASE RecStep \/ UNCHANGED vars \/ \E p \in Posts : OpSettle(p) \/ OpReopen(p)
  BY <1>5, <1>6 DEF RecStep, RecLoad, RecDecide, RecCheck, RecWrite, RecAlert, RecApply, OpSettle,
                    OpReopen, meta, vars
<1> QED
  BY <1>1, <1>2, <1>3, <1>4, <1>6 DEF Next, World

\* The account with post_hours has no more publications asked for today than slots whose
\* hour has come, however often jobs fail, the launcher dies or a post is tried again:
\* what _poller_slot_allowed is for.  It holds while one poller runs at a time and the
\* file of the slots can be saved (main.py:1031 goes on without).
THEOREM CapHolds ==
    ASSUME OnePoller, "save" \notin FaultKinds
    PROVE  Spec => []DailyCap
<1>1. Init => TypeInv /\ TurfInv /\ CapInv
  BY InitTypes, InitTurf, InitCap
<1>2. TypeInv /\ TurfInv /\ CapInv /\ [Next]_vars => (TypeInv /\ TurfInv /\ CapInv)'
  BY TypeStep, TurfStep, CapStep
<1>3. TypeInv /\ CapInv => DailyCap
  <2>1. CapInv => Cardinality(Asked) \in Nat
    BY FS_CardinalityType DEF CapInv
  <2> QED
    BY <2>1 DEF CapInv, DailyCap, Asked, TypeInv, TypeOK
<1> QED
  BY <1>1, <1>2, <1>3, PTL DEF Spec

-----------------------------------------------------------------------------
(* The contract: one post, one job.                                         *)

LEMMA OneWorker ==
    ASSUME JobsAlone, TypeInv, TurfInv, BatchInv, NEW i \in Jobs, NEW j \in Jobs, post[j] \in Posts
    PROVE  post[j] \notin batch[i] /\ (post[i] = post[j] => i = j)
BY DEF JobsAlone, OnePoller, TurfInv, BatchInv, BatchOk

\* A step of a job changes nothing of the other jobs and of the other posts.
LEMMA JobIsLocal ==
    ASSUME TypeInv, NEW j \in Jobs, JobStep(j)
    PROVE  /\ \A i \in Jobs \ {j} : /\ pc'[i] = pc[i] /\ batch'[i] = batch[i]
                                    /\ post'[i] = post[i] /\ mine'[i] = mine[i]
           /\ \A q \in Posts \ {post[j]} : /\ status'[q] = status[q] /\ tries'[q] = tries[q]
                                           /\ box'[q] = box[q] /\ clue'[q] = clue[q]
           /\ UNCHANGED rec
<1> USE DEF JobStep, Publishing, Fetch, Skip, Pick, End, Refuse, Hold, Claim, ClaimRaises, Consume,
            Make, MakeFails, List, WaitFails, Ask, AnswerOk, AnswerUnclear, Isolate, Tell, Mark,
            NoteUnrecorded, Clear, airtable, meta, ledger
<1>1. \A i \in Jobs \ {j} : /\ pc'[i] = pc[i] /\ batch'[i] = batch[i]
                            /\ post'[i] = post[i] /\ mine'[i] = mine[i]
  BY DEF Go, Ended, TypeInv, TypeOK
<1>2. \A q \in Posts \ {post[j]} : status'[q] = status[q] /\ tries'[q] = tries[q]
  BY DEF Write, MaybeWritten, SetBox, TypeInv, TypeOK
<1>3. \A q \in Posts \ {post[j]} : box'[q] = box[q] /\ clue'[q] = clue[q]
  BY DEF SetBox, Note, TypeInv, TypeOK
<1>4. UNCHANGED rec
  OBVIOUS
<1> QED
  BY <1>1, <1>2, <1>3, <1>4

LEMMA MayBePublicIs ==
    ASSUME NEW p \in Posts
    PROVE  MayBePublic(p) <=> \E a \in Tries : box[p][a] \in {"asked", "published"}
BY DEF MayBePublic, Public, Pending

LEMMA EndedOk ==
    ASSUME TypeInv, NEW J, Ended(J), NEW j \in J, j \in Jobs
    PROVE  BatchOk(j)' /\ WorkOk(j)' /\ post'[j] \notin Posts
BY PublishAssumption DEF Ended, BatchOk, WorkOk, Free

LEMMA ApproachOwn ==
    ASSUME ContractInv, NEW j \in Jobs, Fetch(j) \/ Skip(j) \/ Pick(j) \/ End(j)
    PROVE  BatchOk(j)' /\ WorkOk(j)' /\ UNCHANGED <<status, tries, box, clue>>
<1> USE DEF ContractInv, airtable, meta, ledger
<1>1. UNCHANGED <<status, tries, box, clue>>
  BY DEF Fetch, Skip, Pick, End
<1>2. BatchOk(j)' /\ WorkOk(j)'
  <2>1. CASE Fetch(j)
    BY <1>1, <2>1, PublishAssumption
       DEF Fetch, At, Candidates, BatchInv, BatchOk, WorkOk, Free, TypeInv, TypeOK
  <2>2. CASE Skip(j)
    BY <1>1, <2>2 DEF Skip, At, BatchInv, BatchOk, WorkOk, Free, TypeInv, TypeOK
  <2>3. CASE Pick(j)
    BY <1>1, <2>3 DEF Pick, At, BatchInv, BatchOk, WorkOk, Free, TypeInv, TypeOK
  <2>4. CASE End(j)
    BY <2>4, EndedOk DEF End
  <2> QED
    BY <2>1, <2>2, <2>3, <2>4
<1> QED
  BY <1>1, <1>2

LEMMA GateOwn ==
    ASSUME ContractInv, NEW j \in Jobs, Refuse(j) \/ Hold(j) \/ Claim(j) \/ ClaimRaises(j),
           NEW p \in Posts, p = post[j]
    PROVE  /\ BatchOk(j)' /\ WorkOk(j)' /\ BoxOk(p)' /\ ClueOk(p)'
           /\ UNCHANGED <<box, clue>>
<1> USE DEF ContractInv
<1>1. pc[j] = "gate"
  BY DEF Refuse, Hold, Claim, ClaimRaises, At, TypeInv, MemoryInv
<1>2. status[p] = "ready" /\ ~MayBePublic(p) /\ clue[p].kind = "none" /\ p \notin batch[j]
  BY <1>1 DEF BatchInv, BatchOk, BoxInv, BoxOk, ClueInv, ClueOk
<1>3. \A a \in Tries : box[p][a] \notin {"asked", "published"}
  BY <1>1, <1>2, MayBePublicIs
<1>4. UNCHANGED <<box, clue>>
  BY DEF Refuse, Hold, Claim, ClaimRaises, meta, ledger
<1>5. status'[p] # "posted"
  BY <1>1, <1>2 DEF Refuse, Hold, Claim, ClaimRaises, Write, MaybeWritten, airtable, TypeInv, TypeOK
<1>6. ~MayBePublic(p)'
  BY <1>2, <1>4 DEF MayBePublic, Public, Pending
<1>7. BoxOk(p)' /\ ClueOk(p)'
  BY <1>2, <1>3, <1>4, <1>5, <1>6 DEF BoxOk, ClueOk
<1>8. BatchOk(j)' /\ WorkOk(j)'
  <2>1. CASE Ended({j})
    BY <2>1, EndedOk
  <2>2. CASE Go(j, "next")
    <3>1. \A q \in batch[j] : status'[q] = status[q]
      BY <1>1, <1>2, <2>2
         DEF Refuse, Hold, Claim, ClaimRaises, Write, MaybeWritten, Go, Ended, airtable, TypeInv, TypeOK
    <3> QED
      BY <1>1, <1>2, <2>2, <3>1 DEF Go, BatchInv, BatchOk, WorkOk, Free, TypeInv, TypeOK
  <2>3. CASE Claim(j)
    <3>1. /\ status' = [status EXCEPT ![p] = "uploading"] /\ tries'[p] = tries[p] + 1
          /\ mine'[j] = tries[p] + 1 /\ pc'[j] \in {"consume", "make"}
          /\ UNCHANGED <<post, batch>>
      BY <1>1, <2>3 DEF Claim, Write, TypeInv, TypeOK
    <3>2. BatchOk(j)'
      BY <1>1, <1>2, <3>1 DEF BatchInv, BatchOk, TypeInv, TypeOK
    <3>3. WorkOk(j)'
      BY <1>1, <1>2, <1>4, <1>6, <3>1 DEF WorkOk, Free, TypeInv, TypeOK
    <3> QED
      BY <3>2, <3>3
  <2> QED
    BY <2>1, <2>2, <2>3 DEF Refuse, Hold, ClaimRaises
<1> QED
  BY <1>4, <1>7, <1>8

\* The steps of a job at work on a post.
AtWorkStep(j) ==
    \/ Consume(j) \/ Make(j) \/ MakeFails(j) \/ List(j) \/ WaitFails(j)
    \/ Ask(j) \/ AnswerOk(j) \/ AnswerUnclear(j) \/ Isolate(j) \/ Tell(j)
    \/ \E s \in {"posted", "failed"} : Mark(j, s) \/ NoteUnrecorded(j, s)
    \/ Clear(j)

LEMMA WorkBox ==
    ASSUME ContractInv, NEW j \in Jobs, AtWorkStep(j)
    PROVE  /\ pc[j] \notin Free /\ post[j] \in Posts /\ mine[j] \in Tries
           /\ UNCHANGED <<tries, post, mine, batch>>
           /\ \A a \in Tries \ {mine[j]} : box'[post[j]][a] = box[post[j]][a]
           /\ Box(j)' # Box(j) =>
                 \/ pc[j] = "make" /\ Box(j)' = "made"
                 \/ pc[j] = "ask" /\ Box(j)' = "asked" /\ pc'[j] = "answer"
<1> USE DEF AtWorkStep, Consume, Make, MakeFails, List, WaitFails, Ask, AnswerOk, AnswerUnclear,
            Isolate, Tell, Mark, NoteUnrecorded, Clear, At, ContractInv
<1>1. pc[j] \notin Free
  BY DEF MarkAt, NoteAt, Free
<1>2. post[j] \in Posts /\ mine[j] \in Tries
  BY <1>1 DEF TypeInv, MemoryInv, Free
<1>3. UNCHANGED <<tries, post, mine, batch>>
  BY DEF Go, SetBox, meta
<1>4. \A a \in Tries \ {mine[j]} : box'[post[j]][a] = box[post[j]][a]
  BY <1>2 DEF SetBox, meta, TypeInv, TypeOK
<1>5. Box(j)' # Box(j) =>
         \/ pc[j] = "make" /\ Box(j)' = "made"
         \/ pc[j] = "ask" /\ Box(j)' = "asked" /\ pc'[j] = "answer"
  BY <1>2, <1>3 DEF Box, SetBox, Go, meta, TypeInv, TypeOK
<1> QED
  BY <1>1, <1>2, <1>3, <1>4, <1>5

\* A job at work keeps what it finds of its post true.
LEMMA WorkOwn ==
    ASSUME ContractInv, TypeInv', NEW j \in Jobs, AtWorkStep(j), NEW p \in Posts, p = post[j]
    PROVE  BatchOk(j)' /\ WorkOk(j)' /\ BoxOk(p)' /\ ClueOk(p)'
<1> USE DEF ContractInv
<1> DEFINE a == mine[j]
<1>1. /\ pc[j] \notin Free /\ a \in Tries /\ a = tries[p]
      /\ UNCHANGED <<tries, post, mine, batch>>
      /\ \A b \in Tries \ {a} : box'[p][b] = box[p][b]
      /\ Box(j) = box[p][a] /\ Box(j)' = box'[p][a]
  BY WorkBox DEF WorkInv, WorkOk, Box
<1>2. /\ WorkOk(j) /\ BoxOk(p) /\ ClueOk(p) /\ BatchOk(j)
  BY DEF WorkInv, BoxInv, ClueInv, BatchInv
<1>3. \A b \in Tries \ {a} : box[p][b] \notin {"asked", "published"}
  BY <1>1, <1>2 DEF BoxOk
<1>4. /\ MayBePublic(p) <=> Box(j) \in {"asked", "published"}
      /\ Public(p) # {} <=> Box(j) = "published"
  BY <1>1, <1>3 DEF MayBePublic, Public, Pending
<1>5. /\ MayBePublic(p)' <=> Box(j)' \in {"asked", "published"}
      /\ Public(p)' # {} <=> Box(j)' = "published"
  BY <1>1, <1>3 DEF MayBePublic, Public, Pending
<1>6. /\ \A q \in Posts \ {p} : status'[q] = status[q]
      /\ pc'[j] \notin {"idle", "gate"} /\ pc'[j] \in JobPc
  BY <1>1 DEF AtWorkStep, Consume, Make, MakeFails, List, WaitFails, Ask, AnswerOk, AnswerUnclear,
              Isolate, Tell, Mark, NoteUnrecorded, Clear, Go, Write, MaybeWritten, AfterMark, NoteAt,
              MarkAt, airtable, JobPc, TypeInv, TypeOK
<1>7. BatchOk(j)'
  BY <1>1, <1>2, <1>6 DEF BatchOk, TypeInv, TypeOK
<1>8. BoxOk(p)'
  <2>1. \A b \in Tries : box'[p][b] \in {"asked", "published"} => b = tries'[p]
    BY <1>1, <1>3
  <2>2. status'[p] \in {"uploading", "posted", "failed"}
    BY <1>1, <1>2
       DEF AtWorkStep, Consume, Make, MakeFails, List, WaitFails, Ask, AnswerOk, AnswerUnclear,
           Isolate, Tell, Mark, NoteUnrecorded, Clear, At, Write, MaybeWritten, MarkAt, NoteAt,
           WorkOk, Free, airtable, TypeInv, TypeOK
  <2>3. status'[p] = "posted" => Box(j)' = "published"
    BY <1>1, <1>2, <1>4
       DEF AtWorkStep, Consume, Make, MakeFails, List, WaitFails, Ask, AnswerOk, AnswerUnclear,
           Isolate, Tell, Mark, NoteUnrecorded, Clear, At, Write, MaybeWritten, MarkAt, NoteAt,
           SetBox, WorkOk, BoxOk, Free, airtable, meta, TypeInv, TypeOK
  <2>4. status'[p] = "failed" => Box(j)' \notin {"asked", "published"}
    BY <1>1, <1>2, <1>4
       DEF AtWorkStep, Consume, Make, MakeFails, List, WaitFails, Ask, AnswerOk, AnswerUnclear,
           Isolate, Tell, Mark, NoteUnrecorded, Clear, At, Write, MaybeWritten, MarkAt, NoteAt,
           SetBox, WorkOk, BoxOk, Free, airtable, meta, TypeInv, TypeOK
  <2> QED
    BY <1>5, <2>1, <2>2, <2>3, <2>4 DEF BoxOk
<1>9. WorkOk(j)' /\ ClueOk(p)'
  <2>1. CASE Consume(j) \/ Make(j) \/ MakeFails(j)
    BY <1>1, <1>2, <1>4, <1>5, <2>1
       DEF Consume, Make, MakeFails, At, Go, SetBox, WorkOk, ClueOk, Free, airtable, meta, ledger,
           TypeInv, TypeOK
  <2>2. CASE List(j)
    BY <1>1, <1>2, <1>4, <1>5, <2>2
       DEF List, At, Go, Note, WorkOk, ClueOk, Free, airtable, meta, TypeInv, TypeOK
  <2>3. CASE WaitFails(j) \/ Ask(j) \/ AnswerOk(j) \/ AnswerUnclear(j)
    BY <1>1, <1>2, <1>4, <1>5, <2>3
       DEF WaitFails, Ask, AnswerOk, AnswerUnclear, At, Go, SetBox, WorkOk, ClueOk, Free, airtable,
           meta, ledger, TypeInv, TypeOK
  <2>4. CASE Isolate(j) \/ Tell(j)
    BY <1>1, <1>2, <1>4, <1>5, <2>4
       DEF Isolate, Tell, At, Go, Note, WorkOk, ClueOk, Free, airtable, meta, TypeInv, TypeOK
  <2>5. ASSUME NEW s \in {"posted", "failed"}, Mark(j, s)
        PROVE  WorkOk(j)' /\ ClueOk(p)'
    BY <1>1, <1>2, <1>4, <1>5, <2>5
       DEF Mark, AfterMark, MarkAt, NoteAt, At, Go, Write, MaybeWritten, WorkOk, ClueOk, Free, meta,
           ledger, TypeInv, TypeOK
  <2>6. ASSUME NEW s \in {"posted", "failed"}, NoteUnrecorded(j, s)
        PROVE  WorkOk(j)' /\ ClueOk(p)'
    BY <1>1, <1>2, <1>4, <1>5, <2>6
       DEF NoteUnrecorded, NoteAt, Unrecorded, At, Go, Note, WorkOk, ClueOk, Free, airtable, meta,
           TypeInv, TypeOK
  <2>7. CASE Clear(j)
    BY <1>1, <1>2, <1>4, <1>5, <2>7
       DEF Clear, NoClue, At, Go, WorkOk, ClueOk, Free, airtable, meta, TypeInv, TypeOK
  <2> QED
    BY <2>1, <2>2, <2>3, <2>4, <2>5, <2>6, <2>7 DEF AtWorkStep
<1> QED
  BY <1>7, <1>8, <1>9

\* A step of a job keeps what all jobs and the ledger rely on.
LEMMA ContractJob ==
    ASSUME JobsAlone, ContractInv, TypeInv', NEW j \in Jobs, JobStep(j)
    PROVE  BatchInv' /\ WorkInv' /\ BoxInv' /\ ClueInv' /\ RecInv'
<1> USE DEF ContractInv
<1>1. \/ Fetch(j) \/ Skip(j) \/ Pick(j) \/ End(j)
      \/ Refuse(j) \/ Hold(j) \/ Claim(j) \/ ClaimRaises(j)
      \/ AtWorkStep(j)
  BY DEF JobStep, Publishing, AtWorkStep
<1>2. (Fetch(j) \/ Skip(j) \/ Pick(j) \/ End(j)) => UNCHANGED <<status, tries, box, clue>>
  BY DEF Fetch, Skip, Pick, End, airtable, meta, ledger
<1>3. (Refuse(j) \/ Hold(j) \/ Claim(j) \/ ClaimRaises(j) \/ AtWorkStep(j)) => post[j] \in Posts
  BY WorkBox DEF Refuse, Hold, Claim, ClaimRaises, At, TypeInv, MemoryInv
<1>4. BatchOk(j)' /\ WorkOk(j)'
  BY <1>1, <1>3, ApproachOwn, GateOwn, WorkOwn
<1>5. ASSUME NEW p \in Posts
      PROVE  BoxOk(p)' /\ ClueOk(p)'
  <2>1. CASE UNCHANGED <<status, tries, box, clue>>
    BY <2>1 DEF BoxInv, ClueInv, BoxOk, ClueOk, MayBePublic, Public, Pending
  <2>2. CASE p # post[j]
    <3>1. status'[p] = status[p] /\ tries'[p] = tries[p] /\ box'[p] = box[p] /\ clue'[p] = clue[p]
      BY <2>2, JobIsLocal
    <3> QED
      BY <3>1 DEF BoxInv, ClueInv, BoxOk, ClueOk, MayBePublic, Public, Pending
  <2>3. CASE p = post[j] /\ ~UNCHANGED <<status, tries, box, clue>>
    BY <1>1, <1>2, <2>3, GateOwn, WorkOwn
  <2> QED
    BY <2>1, <2>2, <2>3
<1>6. ASSUME NEW i \in Jobs \ {j}
      PROVE  BatchOk(i)' /\ WorkOk(i)'
  <2>1. pc'[i] = pc[i] /\ batch'[i] = batch[i] /\ post'[i] = post[i] /\ mine'[i] = mine[i]
    BY JobIsLocal
  <2>2. \A q \in Posts : q = post[i] \/ q \in batch[i] =>
            status'[q] = status[q] /\ tries'[q] = tries[q] /\ box'[q] = box[q] /\ clue'[q] = clue[q]
    BY <1>1, <1>2, <1>3, JobIsLocal, OneWorker
  <2>3. BatchOk(i)'
    BY <2>1, <2>2 DEF BatchInv, BatchOk, TypeInv, TypeOK, MemoryInv
  <2>4. WorkOk(i)'
    <3>1. CASE pc[i] \in Free
      BY <2>1, <3>1 DEF WorkOk
    <3>2. CASE pc[i] \notin Free
      <4>1. post[i] \in Posts
        BY <3>2 DEF TypeInv, MemoryInv, Free
      <4> QED
        BY <2>1, <2>2, <4>1 DEF WorkInv, WorkOk, Box, MayBePublic, Public, Pending
    <3> QED
      BY <3>1, <3>2
  <2> QED
    BY <2>3, <2>4
<1>7. RecInv'
  <2>1. UNCHANGED rec /\ \A p \in Posts : Held(p)' <=> Held(p)
    BY JobIsLocal DEF Held, rec
  <2>2. ASSUME NEW p \in Posts, Held(p)
        PROVE  /\ status'[p] = status[p] /\ tries'[p] = tries[p] /\ box'[p] = box[p]
               /\ clue'[p] = clue[p] /\ ~AtWork(p)'
    <3>1. snap[p].kind # "none" /\ clue[p] = snap[p] /\ ~AtWork(p)
      BY <2>2 DEF RecInv
    <3>2. p # post[j] \/ UNCHANGED <<status, tries, box, clue>>
      <4>1. pc[j] = "gate" /\ p = post[j] => clue[p].kind = "none"
        BY DEF BatchInv, BatchOk, ClueInv, ClueOk
      <4>2. pc[j] \notin Free => p # post[j]
        BY <3>1 DEF AtWork, Free
      <4>3. (Refuse(j) \/ Hold(j) \/ Claim(j) \/ ClaimRaises(j)) => pc[j] = "gate"
        BY DEF Refuse, Hold, Claim, ClaimRaises, At
      <4> QED
        BY <1>1, <1>2, <3>1, <4>1, <4>2, <4>3, WorkBox
    <3>3. status'[p] = status[p] /\ tries'[p] = tries[p] /\ box'[p] = box[p] /\ clue'[p] = clue[p]
      BY <3>2, JobIsLocal
    <3>4. ~(post'[j] = p /\ pc'[j] \notin Free)
      <4>1. CASE Fetch(j) \/ Skip(j) \/ Pick(j) \/ End(j)
        BY <4>1 DEF Fetch, Skip, Pick, End, Ended, At, Free, TypeInv, TypeOK
      <4>2. CASE p # post[j] /\ ~(Fetch(j) \/ Skip(j) \/ Pick(j) \/ End(j))
        <5>1. post'[j] = post[j] \/ post'[j] = Nothing
          BY <1>1, <4>2, WorkBox DEF Refuse, Hold, Claim, ClaimRaises, Go, Ended
        <5> QED
          BY <4>2, <5>1, PublishAssumption
      <4>3. CASE p = post[j] /\ pc[j] = "gate" /\ ~Claim(j)
        BY <1>1, <4>3, WorkBox DEF Fetch, Skip, Pick, End, Refuse, Hold, ClaimRaises, Go, Ended, At,
              Free, TypeInv, TypeOK
      <4>4. pc[j] \in Free \/ p # post[j]
        BY <3>1 DEF AtWork, Free
      <4>5. ~(p = post[j] /\ pc[j] = "gate" /\ Claim(j))
        BY <3>1 DEF BatchInv, BatchOk, ClueInv, ClueOk
      <4>6. Claim(j) \/ Refuse(j) \/ Hold(j) \/ ClaimRaises(j) => pc[j] = "gate"
        BY DEF Refuse, Hold, Claim, ClaimRaises, At
      <4> QED
        BY <1>1, <4>1, <4>2, <4>3, <4>4, <4>5, <4>6, WorkBox
    <3>5. ~AtWork(p)'
      BY <3>1, <3>4, JobIsLocal DEF AtWork, Free
    <3> QED
      BY <3>3, <3>5
  <2>3. rpc \in {"check", "write"} => rpost \in Posts /\ Held(rpost)
    BY DEF TypeInv, VerdictInv, Held
  <2>4. \A p \in Posts : Held(p)' =>
            snap'[p].kind # "none" /\ clue'[p] = snap'[p] /\ ~AtWork(p)'
    BY <2>1, <2>2 DEF RecInv, rec
  <2>5. rpc' \in {"check", "write"} =>
            /\ rverdict' = "posted" => Public(rpost)' # {}
            /\ rverdict' = "failed" => ~MayBePublic(rpost)'
    BY <2>1, <2>2, <2>3 DEF RecInv, rec, MayBePublic, Public, Pending
  <2>6. \A p \in resolved' : status'[p] # "uploading"
    BY <2>1, <2>2 DEF RecInv, rec, Held, TypeInv, TypeOK
  <2> QED
    BY <2>4, <2>5, <2>6 DEF RecInv
<1> QED
  BY <1>4, <1>5, <1>6, <1>7 DEF BatchInv, WorkInv, BoxInv, ClueInv

LEMMA ContractRec ==
    ASSUME ContractInv, TypeInv', RecStep
    PROVE  BatchInv' /\ WorkInv' /\ BoxInv' /\ ClueInv' /\ RecInv'
<1> USE DEF ContractInv
<1>1. UNCHANGED <<tries, box, job>>
  BY DEF RecStep, RecLoad, RecDecide, RecCheck, RecWrite, RecAlert, RecApply, meta
<1>2. ASSUME NEW p \in Posts
      PROVE  /\ MayBePublic(p)' <=> MayBePublic(p)
             /\ Public(p)' = Public(p)
             /\ AtWork(p)' <=> AtWork(p)
  <2>1. Public(p)' = Public(p) /\ Pending(p)' = Pending(p)
    BY <1>1 DEF Public, Pending
  <2>2. AtWork(p)' <=> AtWork(p)
    BY <1>1 DEF AtWork, job
  <2> QED
    BY <2>1, <2>2 DEF MayBePublic
<1>b. \A j \in Jobs : Box(j)' = Box(j)
  BY <1>1 DEF Box, job
<1>3. ASSUME UNCHANGED <<status, clue>>
      PROVE  BatchInv' /\ WorkInv' /\ BoxInv' /\ ClueInv'
  <2>1. BatchInv'
    BY <1>1, <1>3 DEF BatchInv, BatchOk, job
  <2>2. WorkInv'
    <3>1. \A j \in Jobs : pc[j] \notin Free => post[j] \in Posts
      BY DEF Free, TypeInv, MemoryInv
    <3> QED
      BY <1>1, <1>2, <1>b, <1>3, <3>1 DEF WorkInv, WorkOk, job
  <2>3. BoxInv'
    BY <1>1, <1>2, <1>3 DEF BoxInv, BoxOk
  <2>4. ClueInv'
    BY <1>1, <1>2, <1>3 DEF ClueInv, ClueOk
  <2> QED
    BY <2>1, <2>2, <2>3, <2>4
<1>4. CASE RecLoad
  <2>1. UNCHANGED <<status, clue>> /\ rpc' = "entry" /\ snap' = clue
    BY <1>4 DEF RecLoad, airtable, ledger
  <2>2. ASSUME NEW p \in Posts, Aged(p) PROVE clue[p].kind # "none" /\ ~AtWork(p)
    BY <2>2 DEF Aged, AtWork, WorkInv, WorkOk, ClueInv, ClueOk, Free
  <2>3. \A p \in Posts : Held(p)' => Aged(p) \/ Held(p)
    BY <1>4, <2>1 DEF RecLoad, Held
  <2>4. RecInv'
    BY <1>1, <1>2, <1>4, <2>1, <2>2, <2>3 DEF RecLoad, RecInv, TypeInv, TypeOK
  <2> QED
    BY <1>3, <2>1, <2>4
<1>5. CASE RecDecide
  <2>1. UNCHANGED <<status, clue, snap, resolved, flagged>>
    BY <1>5 DEF RecDecide, airtable, ledger
  <2>2. PICK p \in left :
            /\ rpost' = p /\ left' = left \ {p}
            /\ rverdict' \in {Evidence(snap[p], box[p][snap[p].try]), "hold"}
            /\ rpc' = IF rverdict' = "hold" THEN "alert" ELSE "check"
    BY <1>5 DEF RecDecide
  <2>3. p \in Posts /\ clue[p] = snap[p] /\ snap[p].kind # "none"
    BY <2>2 DEF RecInv, Held, TypeInv, TypeOK
  <2>4. rpc' = "check" =>
            /\ rverdict' = "posted" => Public(p) # {}
            /\ rverdict' = "failed" => ~MayBePublic(p)
    <3>1. snap[p].try \in Tries /\ snap[p].try = tries[p]
      BY <2>3 DEF ClueInv, ClueOk
    <3>2. box[p][snap[p].try] = "expired" => ~MayBePublic(p)
      BY <2>3, <3>1 DEF BoxInv, BoxOk, MayBePublic, Public, Pending
    <3> QED
      BY <2>2, <2>3, <3>2 DEF Evidence, ClueInv, ClueOk
  <2>5. \A q \in Posts : Held(q)' => Held(q)
    BY <2>1, <2>2 DEF Held
  <2>6. RecInv'
    BY <1>1, <1>2, <2>1, <2>2, <2>3, <2>4, <2>5 DEF RecInv
  <2> QED
    BY <1>3, <2>1, <2>6
<1>6. CASE RecCheck
  <2>1. /\ UNCHANGED <<status, clue, snap, left, rpost, rverdict, resolved, flagged>>
        /\ rpc = "check" /\ rpc' \in {"write", "alert"}
    BY <1>6 DEF RecCheck, airtable, ledger
  <2>2. \A q \in Posts : Held(q)' => Held(q)
    BY <2>1 DEF Held
  <2>3. RecInv'
    BY <1>2, <2>1, <2>2 DEF RecInv, TypeInv, VerdictInv, TypeOK
  <2> QED
    BY <1>3, <2>1, <2>3
<1>7. CASE RecWrite
  <2>1. /\ rpc = "write" /\ rpc' = "entry" /\ rpost \in Posts /\ rverdict \in {"posted", "failed"}
        /\ status' = status \/ status' = [status EXCEPT ![rpost] = rverdict]
        /\ resolved' = resolved \/ (resolved' = resolved \cup {rpost} /\ status'[rpost] = rverdict)
        /\ UNCHANGED <<clue, snap, left, rpost, flagged>>
    BY <1>7 DEF RecWrite, Write, MaybeWritten, ledger, TypeInv, VerdictInv, TypeOK
  <2>2. Held(rpost) /\ ~AtWork(rpost) /\ clue[rpost].kind # "none"
    BY <2>1 DEF Held, RecInv
  <2>3. status[rpost] \in {"uploading", "posted", "failed"}
    BY <2>1, <2>2 DEF ClueInv, ClueOk
  <2>4. \A q \in Posts : status'[q] = status[q] \/ (q = rpost /\ status'[q] = rverdict)
    BY <2>1 DEF TypeInv, TypeOK
  <2>5. BoxInv'
    BY <1>1, <1>2, <2>1, <2>4 DEF BoxInv, BoxOk, RecInv
  <2>6. ClueInv'
    BY <1>1, <1>2, <2>1, <2>4 DEF ClueInv, ClueOk
  <2>7. BatchInv'
    BY <1>1, <2>1, <2>3, <2>4 DEF BatchInv, BatchOk, job, TypeInv, TypeOK, MemoryInv
  <2>8. WorkInv'
    <3>1. \A j \in Jobs : pc[j] \notin Free => post[j] \in Posts /\ post[j] # rpost
      BY <2>1, <2>2 DEF AtWork, Free, TypeInv, MemoryInv
    <3>2. ASSUME NEW j \in Jobs, pc[j] \notin Free
          PROVE  /\ status'[post[j]] = status[post[j]] /\ clue'[post[j]] = clue[post[j]]
                 /\ Box(j)' = Box(j)
                 /\ MayBePublic(post[j])' <=> MayBePublic(post[j])
      BY <1>1, <1>2, <1>b, <2>1, <2>4, <3>1, <3>2 DEF job
    <3> QED
      BY <1>1, <3>2 DEF WorkInv, WorkOk, job
  <2>9. RecInv'
    <3>1. \A q \in Posts : Held(q)' => Held(q)
      BY <2>1 DEF Held
    <3> QED
      BY <1>2, <2>1, <2>4, <3>1 DEF RecInv, TypeInv, TypeOK
  <2> QED
    BY <2>5, <2>6, <2>7, <2>8, <2>9
<1>8. CASE RecAlert
  <2>1. /\ UNCHANGED <<status, clue, snap, left, rpost, rverdict, resolved>>
        /\ rpc = "alert" /\ rpc' = "entry" /\ flagged' \in {flagged, flagged \cup {rpost}}
    BY <1>8 DEF RecAlert, airtable, ledger
  <2>2. \A q \in Posts : Held(q)' => Held(q)
    BY <2>1 DEF Held
  <2>3. RecInv'
    BY <1>2, <2>1, <2>2 DEF RecInv
  <2> QED
    BY <1>3, <2>1, <2>3
<1>9. CASE RecApply
  <2>1. /\ UNCHANGED status /\ rpc' = "idle" /\ left' = {} /\ resolved' = {} /\ flagged' = {}
        /\ clue' = clue \/ clue' = Applied
    BY <1>9 DEF RecApply, RecForget, airtable
  <2>2. \A p \in Posts :
            \/ clue'[p] = clue[p]
            \/ Held(p) /\ clue'[p] = NoClue
            \/ Held(p) /\ clue'[p].kind = clue[p].kind /\ clue'[p].try = clue[p].try
    BY <2>1 DEF Applied, Held, TypeInv, TypeOK, Clues
  <2>3. ClueInv'
    BY <1>1, <1>2, <2>1, <2>2 DEF ClueInv, ClueOk, NoClue
  <2>4. WorkInv'
    <3>1. \A j \in Jobs : pc[j] \notin Free => post[j] \in Posts /\ ~Held(post[j])
      BY DEF RecInv, AtWork, Free, TypeInv, MemoryInv
    <3>2. ASSUME NEW j \in Jobs, pc[j] \notin Free
          PROVE  /\ status'[post[j]] = status[post[j]] /\ clue'[post[j]] = clue[post[j]]
                 /\ Box(j)' = Box(j)
                 /\ MayBePublic(post[j])' <=> MayBePublic(post[j])
      BY <1>1, <1>2, <1>b, <2>1, <2>2, <3>1, <3>2 DEF job
    <3> QED
      BY <1>1, <3>2 DEF WorkInv, WorkOk, job
  <2>5. RecInv'
    BY <2>1 DEF RecInv, Held
  <2>6. BatchInv' /\ BoxInv'
    BY <1>1, <1>2, <2>1 DEF BatchInv, BatchOk, BoxInv, BoxOk, job
  <2> QED
    BY <2>3, <2>4, <2>5, <2>6
<1> QED
  BY <1>4, <1>5, <1>6, <1>7, <1>8, <1>9 DEF RecStep

LEMMA ContractWorld ==
    ASSUME ContractInv, LedgerIsHeeded, SlotStarts \/ \E p \in Posts : World(p)
    PROVE  BatchInv' /\ WorkInv' /\ BoxInv' /\ ClueInv' /\ RecInv'
<1> USE DEF ContractInv
<1>1. UNCHANGED <<tries, clue, job, rec>>
  BY DEF SlotStarts, World, Accept, Expire, OpSettle, OpReopen, airtable, meta, ledger
<1>2. \A p \in Posts : (AtWork(p)' <=> AtWork(p)) /\ (Held(p)' <=> Held(p))
  BY <1>1 DEF AtWork, Held, job, rec
<1>3. \A j \in Jobs : pc[j] \notin Free => post[j] \in Posts /\ mine[j] \in Tries
  BY DEF TypeInv, MemoryInv, Free
<1>4. rpc \in {"check", "write"} => rpost \in Posts
  BY DEF TypeInv, VerdictInv
<1>5. ASSUME NEW p \in Posts, NEW a \in Tries, Accept(p, a) \/ Expire(p, a)
      PROVE  BatchInv' /\ WorkInv' /\ BoxInv' /\ ClueInv' /\ RecInv'
  <2>1. UNCHANGED status
    BY <1>5 DEF Accept, Expire, airtable
  <2>2. \A q \in Posts, b \in Tries :
            \/ box'[q][b] = box[q][b]
            \/ box[q][b] = "asked" /\ box'[q][b] = "published"
            \/ box[q][b] \in {"made", "asked"} /\ box'[q][b] = "expired"
    BY <1>5, BoxAfter DEF Accept, Expire, TypeInv
  <2>3. \A q \in Posts : /\ ~MayBePublic(q) => ~MayBePublic(q)'
                         /\ Public(q) # {} => Public(q)' # {}
    BY <2>2 DEF MayBePublic, Public, Pending
  <2>4. \A j \in Jobs : pc[j] \notin Free /\ Box(j) = "published" => Box(j)' = "published"
    BY <1>1, <1>3, <2>2 DEF Box, job
  <2>5. BatchInv' /\ WorkInv'
    BY <1>1, <1>3, <2>1, <2>3, <2>4 DEF BatchInv, BatchOk, WorkInv, WorkOk, job
  <2>6. BoxInv' /\ ClueInv'
    BY <1>1, <2>1, <2>2, <2>3 DEF BoxInv, BoxOk, ClueInv, ClueOk
  <2>7. RecInv'
    BY <1>1, <1>2, <1>4, <2>1, <2>3 DEF RecInv, rec
  <2> QED
    BY <2>5, <2>6, <2>7
<1>6. ASSUME NEW p \in Posts, OpSettle(p) \/ OpReopen(p)
      PROVE  BatchInv' /\ WorkInv' /\ BoxInv' /\ ClueInv' /\ RecInv'
  <2>1. UNCHANGED box
    BY <1>6 DEF OpSettle, OpReopen, meta
  <2>2. /\ \A q \in Posts : (MayBePublic(q)' <=> MayBePublic(q)) /\ Public(q)' = Public(q)
        /\ \A j \in Jobs : Box(j)' = Box(j)
    BY <1>1, <2>1 DEF MayBePublic, Public, Pending, Box, job
  <2>3. /\ ~AtWork(p)
        /\ \A q \in Posts \ {p} : status'[q] = status[q]
        /\ \/ status[p] = "uploading" /\ status'[p] = "posted" /\ Public(p) # {}
           \/ status[p] = "uploading" /\ status'[p] = "failed" /\ ~MayBePublic(p)
           \/ status[p] = "failed" /\ status'[p] = "ready" /\ clue[p].kind = "none"
    BY <1>6 DEF OpSettle, OpReopen, Write, LedgerIsHeeded, MayBePublic, TypeInv, TypeOK
  <2>4. BatchInv'
    BY <1>1, <2>3 DEF BatchInv, BatchOk, job, TypeInv, TypeOK, MemoryInv
  <2>5. WorkInv'
    <3>1. \A j \in Jobs : pc[j] \notin Free => post[j] \in Posts /\ post[j] # p
      BY <1>3, <2>3 DEF AtWork, Free
    <3> QED
      BY <1>1, <2>2, <2>3, <3>1 DEF WorkInv, WorkOk, job
  <2>6. BoxInv' /\ ClueInv'
    BY <1>1, <2>1, <2>2, <2>3 DEF BoxInv, BoxOk, ClueInv, ClueOk
  <2>7. RecInv'
    <3>1. status'[p] # "uploading" /\ (status'[p] = "ready" => ~Held(p))
      BY <2>3 DEF RecInv
    <3> QED
      BY <1>1, <1>2, <1>4, <2>2, <2>3, <3>1 DEF RecInv, rec, TypeInv, TypeOK
  <2> QED
    BY <2>4, <2>5, <2>6, <2>7
<1>7. CASE SlotStarts
  <2>1. UNCHANGED <<status, box>>
    BY <1>7 DEF SlotStarts, airtable, meta
  <2> QED
    BY <1>1, <1>2, <1>3, <1>4, <2>1
       DEF BatchInv, BatchOk, WorkInv, WorkOk, Box, BoxInv, BoxOk, ClueInv, ClueOk, RecInv,
           MayBePublic, Public, Pending, job, rec
<1> QED
  BY <1>5, <1>6, <1>7 DEF World

LEMMA ContractCrash ==
    ASSUME ContractInv, Crash
    PROVE  BatchInv' /\ WorkInv' /\ BoxInv' /\ ClueInv' /\ RecInv'
<1> USE DEF ContractInv
<1>1. UNCHANGED <<status, tries, box, clue>>
  BY DEF Crash, airtable, meta, ledger
<1>2. RecInv'
  BY DEF Crash, RecForget, RecInv, Held
<1>3. BoxInv' /\ ClueInv'
  BY <1>1 DEF BoxInv, BoxOk, ClueInv, ClueOk, MayBePublic, Public, Pending
<1>4. ASSUME NEW j \in Jobs PROVE BatchOk(j)' /\ WorkOk(j)'
  <2>1. CASE j \in Jobs \ Tools
    BY <2>1, EndedOk DEF Crash
  <2>2. CASE j \in Tools
    <3>1. pc'[j] = pc[j] /\ batch'[j] = batch[j] /\ post'[j] = post[j] /\ mine'[j] = mine[j]
      BY <2>2 DEF Crash, Ended
    <3> QED
      BY <1>1, <3>1 DEF BatchInv, BatchOk, WorkInv, WorkOk, Box, MayBePublic, Public, Pending
  <2> QED
    BY <2>1, <2>2
<1> QED
  BY <1>2, <1>3, <1>4 DEF BatchInv, WorkInv

LEMMA InitContract == Init => ContractInv
<1> SUFFICES ASSUME Init PROVE ContractInv
  OBVIOUS
<1>1. BoxInv
  BY DEF Init, BoxInv, BoxOk, MayBePublic, Public, Pending
<1>2. BatchInv /\ WorkInv /\ ClueInv /\ RecInv
  BY PublishAssumption
     DEF Init, NoClue, BatchInv, BatchOk, WorkInv, WorkOk, Free, ClueInv, ClueOk, RecInv, Held
<1> QED
  BY <1>1, <1>2, InitTypes, InitTurf DEF ContractInv

LEMMA ContractStep ==
    ASSUME JobsAlone, LedgerIsHeeded, ContractInv, [Next]_vars
    PROVE  ContractInv'
<1>1. TypeInv' /\ TurfInv'
  BY TypeStep, TurfStep DEF ContractInv
<1>2. BatchInv' /\ WorkInv' /\ BoxInv' /\ ClueInv' /\ RecInv'
  <2>1. CASE UNCHANGED vars
    BY <2>1
       DEF vars, airtable, meta, ledger, job, rec, ContractInv, BatchInv, BatchOk, WorkInv, WorkOk,
           Box, BoxInv, BoxOk, ClueInv, ClueOk, RecInv, Held, AtWork, MayBePublic, Public, Pending
  <2> QED
    BY <1>1, <2>1, ContractJob, ContractRec, ContractWorld, ContractCrash DEF Next
<1> QED
  BY <1>1, <1>2 DEF ContractInv

\* Whatever is published, claimed, reconciled or settled by hand, and whatever fails
\* meanwhile: the last claim of a post is the only one that may be public, a verdict
\* agrees with it, and a post is in the hands of one job or of the reconciler.
THEOREM ContractHolds ==
    ASSUME JobsAlone, LedgerIsHeeded
    PROVE  Spec => []ContractInv
BY InitContract, ContractStep, PTL DEF Spec

\* No followers see a post twice: claim_post_for_upload lets one job win it.
THEOREM PublishedOnceHolds ==
    ASSUME JobsAlone, LedgerIsHeeded
    PROVE  Spec => []PublishedOnce
<1>1. ASSUME BoxInv, NEW p \in Posts PROVE Cardinality(Public(p)) <= 1
  <2>1. CASE Public(p) = {}
    BY <2>1, FS_EmptySet
  <2>2. CASE Public(p) # {}
    <3>1. Public(p) = {tries[p]}
      BY <1>1, <2>2 DEF BoxInv, BoxOk, Public
    <3>2. Cardinality({tries[p]}) = 1
      BY FS_Singleton
    <3> QED
      BY <3>1, <3>2
  <2> QED
    BY <2>1, <2>2
<1>2. ContractInv => PublishedOnce
  BY <1>1 DEF ContractInv, PublishedOnce
<1> QED
  BY <1>2, ContractHolds, PTL

\* A post that is marked failed is not on Instagram and will not be: the reconciler
\* (main.py:1421-1425) and the jobs write only what they can prove.
THEOREM FailedIsNotPublicHolds ==
    ASSUME JobsAlone, LedgerIsHeeded
    PROVE  Spec => []FailedIsNotPublic
<1>1. ContractInv => FailedIsNotPublic
  BY DEF ContractInv, BoxInv, BoxOk, FailedIsNotPublic
<1> QED
  BY <1>1, ContractHolds, PTL

-----------------------------------------------------------------------------
(* The refinement: every step of the program is one of the contract's or      *)
(* changes nothing it speaks of.                                            *)

\* The verdict of the contract that a status stands for.
Verdict(p) ==
    CASE status[p] \in {"ready", "uploading"} -> "open"
      [] status[p] = "posted" -> "posted"
      [] OTHER -> "failed"

Quiet(P) == \A p \in P : Public(p)' = Public(p) /\ Verdict(p)' = Verdict(p)

LEMMA StutterIf == Quiet(Posts) => UNCHANGED Contract!vars
BY DEF Quiet, Verdict, Contract!vars

LEMMA PublishIf ==
    ASSUME NEW p \in Posts, NEW a \in Tries, Verdict(p) = "open", Verdict(p)' = "open",
           Public(p) = {}, Public(p)' = {a}, Quiet(Posts \ {p})
    PROVE  Contract!Next
<1>1. Contract!Publish(p)
  BY DEF Contract!Publish, Quiet, Verdict
<1> QED
  BY <1>1 DEF Contract!Next

LEMMA SettleIf ==
    ASSUME NEW p \in Posts, Verdict(p) = "open", Public(p)' = Public(p),
           Verdict(p)' = (IF Public(p) = {} THEN "failed" ELSE "posted"), Quiet(Posts \ {p})
    PROVE  Contract!Next
<1>1. Contract!Settle(p)
  BY DEF Contract!Settle, Quiet, Verdict
<1> QED
  BY <1>1 DEF Contract!Next

LEMMA ReopenIf ==
    ASSUME NEW p \in Posts, Verdict(p) = "failed", Verdict(p)' = "open",
           Public(p)' = Public(p), Quiet(Posts \ {p})
    PROVE  Contract!Next
<1>1. Contract!Reopen(p)
  BY DEF Contract!Reopen, Quiet, Verdict
<1> QED
  BY <1>1 DEF Contract!Next

\* A verdict that may be lost, is written when there was one already, or decides an
\* open post: none of them breaks the contract as long as it is true.
LEMMA TruthfulWrite ==
    ASSUME NEW p \in Posts, BoxOk(p), NEW s \in {"posted", "failed", "rejected"},
           s = "posted" => Public(p) # {}, s # "posted" => ~MayBePublic(p),
           status[p] \in {"ready", "uploading", "posted", "failed", "rejected"},
           status'[p] \in {status[p], s},
           \A q \in Posts : Public(q)' = Public(q),
           \A q \in Posts \ {p} : status'[q] = status[q]
    PROVE  [Contract!Next]_(Contract!vars)
<1>1. Quiet(Posts \ {p})
  BY DEF Quiet, Verdict
<1>2. MayBePublic(p) <=> Public(p) # {} \/ Pending(p) # {}
  BY DEF MayBePublic
<1>3. CASE Verdict(p)' = Verdict(p)
  BY <1>1, <1>3, StutterIf DEF Quiet
<1>4. CASE Verdict(p)' # Verdict(p)
  <2>1. status'[p] = s /\ status[p] \in {"ready", "uploading"}
    BY <1>2, <1>4 DEF Verdict, BoxOk
  <2> QED
    BY <1>1, <1>2, <2>1, SettleIf DEF Verdict
<1> QED
  BY <1>3, <1>4

LEMMA ContractInit == Init => Contract!Init
BY DEF Init, Contract!Init, Public

LEMMA JobKeepsContract ==
    ASSUME ContractInv, NEW j \in Jobs, JobStep(j)
    PROVE  [Contract!Next]_(Contract!vars)
<1> USE DEF ContractInv
<1>1. \/ Fetch(j) \/ Skip(j) \/ Pick(j) \/ End(j)
      \/ Refuse(j) \/ Hold(j) \/ Claim(j) \/ ClaimRaises(j)
      \/ AtWorkStep(j)
  BY DEF JobStep, Publishing, AtWorkStep
<1>2. \A q \in Posts : Public(q)' = Public(q)
  <2>1. \A q \in Posts, a \in Tries : box'[q][a] = "published" <=> box[q][a] = "published"
    <3>1. ASSUME AtWorkStep(j), NEW p \in Posts, p = post[j]
          PROVE  \A a \in Tries : box'[p][a] = "published" <=> box[p][a] = "published"
      <4>1. pc[j] \notin Free /\ mine[j] \in Tries /\ UNCHANGED <<post, mine>>
        BY <3>1, WorkBox
      <4>2. pc[j] \in {"make", "ask"} => box[p][mine[j]] # "published"
        BY <3>1, <4>1 DEF WorkInv, WorkOk, MayBePublic, Public
      <4> QED
        BY <3>1, <4>1, <4>2, WorkBox DEF Box
    <3>2. ~AtWorkStep(j) => UNCHANGED box
      BY <1>1 DEF Fetch, Skip, Pick, End, Refuse, Hold, Claim, ClaimRaises, meta
    <3> QED
      BY <3>1, <3>2, JobIsLocal
  <2> QED
    BY <2>1 DEF Public
<1>3. ASSUME UNCHANGED status PROVE [Contract!Next]_(Contract!vars)
  BY <1>2, <1>3, StutterIf DEF Quiet, Verdict
<1>4. ASSUME NEW s \in {"posted", "failed"}, Mark(j, s)
      PROVE  [Contract!Next]_(Contract!vars)
  <2>1. PICK p \in Posts : p = post[j]
    BY <1>4, WorkBox DEF AtWorkStep
  <2>2. pc[j] = MarkAt[s] /\ WorkOk(j) /\ Box(j) = box[p][mine[j]] /\ mine[j] \in Tries
    BY <1>4, <2>1, WorkBox DEF AtWorkStep, Mark, At, WorkInv, Box
  <2>3. (s = "posted" => Public(p) # {}) /\ (s # "posted" => ~MayBePublic(p))
    BY <2>1, <2>2 DEF MarkAt, WorkOk, Free, Public
  <2>4. status' = status \/ status' = [status EXCEPT ![p] = s]
    BY <1>4, <2>1 DEF Mark, Write, MaybeWritten
  <2> QED
    BY <1>2, <2>3, <2>4, TruthfulWrite DEF BoxInv, TypeInv, TypeOK
<1>5. CASE Refuse(j)
  <2>1. PICK p \in Posts : p = post[j]
    BY <1>5 DEF Refuse, At, TypeInv, MemoryInv
  <2>2. status[p] = "ready" /\ ~MayBePublic(p)
    BY <1>5, <2>1 DEF Refuse, At, BatchInv, BatchOk, BoxInv, BoxOk
  <2>3. PICK s \in {"failed", "rejected"} : status' = status \/ status' = [status EXCEPT ![p] = s]
    BY <1>5, <2>1 DEF Refuse, Write, MaybeWritten
  <2> QED
    BY <1>2, <2>2, <2>3, TruthfulWrite DEF BoxInv, TypeInv, TypeOK
<1>6. CASE Claim(j) \/ ClaimRaises(j)
  <2>1. PICK p \in Posts : p = post[j]
    BY <1>6 DEF Claim, ClaimRaises, At, TypeInv, MemoryInv
  <2>2. status[p] = "ready"
    BY <1>6, <2>1 DEF Claim, ClaimRaises, At, BatchInv, BatchOk
  <2>3. status' = status \/ status' = [status EXCEPT ![p] = "uploading"]
    BY <1>6, <2>1 DEF Claim, ClaimRaises, Write, MaybeWritten
  <2>4. \A q \in Posts : Verdict(q)' = Verdict(q)
    BY <2>2, <2>3 DEF Verdict, TypeInv, TypeOK
  <2> QED
    BY <1>2, <2>4, StutterIf DEF Quiet
<1>7. Fetch(j) \/ Skip(j) \/ Pick(j) \/ End(j) \/ Hold(j) => UNCHANGED status
  BY DEF Fetch, Skip, Pick, End, Hold, airtable
<1>8. AtWorkStep(j) => UNCHANGED status \/ \E s \in {"posted", "failed"} : Mark(j, s)
  BY DEF AtWorkStep, Consume, Make, MakeFails, List, WaitFails, Ask, AnswerOk, AnswerUnclear,
         Isolate, Tell, NoteUnrecorded, Clear, airtable
<1> QED
  BY <1>1, <1>3, <1>4, <1>5, <1>6, <1>7, <1>8

LEMMA OthersKeepContract ==
    ASSUME ContractInv, RecStep \/ SlotStarts \/ Crash \/ \E p \in Posts : World(p)
    PROVE  [Contract!Next]_(Contract!vars)
<1> USE DEF ContractInv
<1>1. ASSUME UNCHANGED <<status, box>> PROVE [Contract!Next]_(Contract!vars)
  <2>1. Quiet(Posts)
    BY <1>1 DEF Quiet, Verdict, Public
  <2> QED
    BY <2>1, StutterIf
<1>2. ASSUME UNCHANGED box PROVE \A q \in Posts : Public(q)' = Public(q)
  BY <1>2 DEF Public
<1>3. CASE RecWrite
  <2>1. /\ rpc = "write" /\ rpost \in Posts /\ rverdict \in {"posted", "failed"} /\ UNCHANGED box
        /\ status' = status \/ status' = [status EXCEPT ![rpost] = rverdict]
    BY <1>3 DEF RecWrite, Write, MaybeWritten, meta, TypeInv, VerdictInv
  <2>2. (rverdict = "posted" => Public(rpost) # {}) /\ (rverdict # "posted" => ~MayBePublic(rpost))
    BY <2>1 DEF RecInv
  <2> QED
    BY <1>2, <2>1, <2>2, TruthfulWrite DEF BoxInv, TypeInv, TypeOK
<1>4. CASE RecStep /\ ~RecWrite
  BY <1>1, <1>4 DEF RecStep, RecLoad, RecDecide, RecCheck, RecAlert, RecApply, airtable, meta
<1>5. CASE SlotStarts \/ Crash
  BY <1>1, <1>5 DEF SlotStarts, Crash, airtable, meta
<1>6. ASSUME NEW p \in Posts, NEW a \in Tries, Accept(p, a)
      PROVE  [Contract!Next]_(Contract!vars)
  <2>1. box[p][a] = "asked" /\ box' = [box EXCEPT ![p][a] = "published"] /\ UNCHANGED status
    BY <1>6 DEF Accept, airtable
  <2>2. MayBePublic(p) /\ a = tries[p] /\ Public(p) = {}
    BY <2>1 DEF MayBePublic, Public, Pending, BoxInv, BoxOk
  <2>3. Verdict(p) = "open"
    BY <2>2 DEF Verdict, BoxInv, BoxOk, TypeInv, TypeOK
  <2>4. Public(p)' = {a} /\ \A q \in Posts \ {p} : Public(q)' = Public(q)
    <3>1. \A b \in Tries : box'[p][b] = "published" <=> b = a
      BY <2>1, <2>2 DEF Public, TypeInv, TypeOK
    <3>2. \A q \in Posts \ {p} : box'[q] = box[q]
      BY <2>1 DEF TypeInv, TypeOK
    <3> QED
      BY <3>1, <3>2 DEF Public
  <2>5. \A q \in Posts : Verdict(q)' = Verdict(q)
    BY <2>1 DEF Verdict
  <2> QED
    BY <2>2, <2>3, <2>4, <2>5, PublishIf DEF Quiet
<1>7. ASSUME NEW p \in Posts, NEW a \in Tries, Expire(p, a)
      PROVE  [Contract!Next]_(Contract!vars)
  <2>1. \A q \in Posts, b \in Tries : box'[q][b] = "published" <=> box[q][b] = "published"
    BY <1>7 DEF Expire, TypeInv, TypeOK
  <2>2. UNCHANGED status
    BY <1>7 DEF Expire, airtable
  <2>3. Quiet(Posts)
    BY <2>1, <2>2 DEF Quiet, Verdict, Public
  <2> QED
    BY <2>3, StutterIf
<1>8. ASSUME NEW p \in Posts, OpSettle(p)
      PROVE  [Contract!Next]_(Contract!vars)
  <2>1. PICK s \in {"posted", "failed"} :
            /\ status' = [status EXCEPT ![p] = s] /\ UNCHANGED box
            /\ s = "posted" => Public(p) # {}
            /\ s # "posted" => ~MayBePublic(p)
    BY <1>8 DEF OpSettle, Write, meta, MayBePublic
  <2> QED
    BY <1>2, <2>1, TruthfulWrite DEF BoxInv, TypeInv, TypeOK
<1>9. ASSUME NEW p \in Posts, OpReopen(p)
      PROVE  [Contract!Next]_(Contract!vars)
  <2>1. status[p] = "failed" /\ status' = [status EXCEPT ![p] = "ready"] /\ UNCHANGED box
    BY <1>9 DEF OpReopen, Write, meta
  <2>2. /\ Verdict(p) = "failed" /\ Verdict(p)' = "open"
        /\ \A q \in Posts \ {p} : Verdict(q)' = Verdict(q)
    BY <2>1 DEF Verdict, TypeInv, TypeOK
  <2> QED
    BY <1>2, <2>1, <2>2, ReopenIf DEF Quiet
<1> QED
  BY <1>3, <1>4, <1>5, <1>6, <1>7, <1>8, <1>9 DEF World

\* The jobs, the reconciler and the people together keep the contract of PublishContract:
\* for any number of posts and claims, and whatever fails, a post goes public at most
\* once, only while its verdict is open, and the verdict written agrees with Instagram.
THEOREM RefinesContract ==
    ASSUME JobsAlone, LedgerIsHeeded
    PROVE  Spec => ImplementsContract
<1>1. Init => Contract!Init
  BY ContractInit
<1>2. ContractInv /\ [Next]_vars => [Contract!Next]_(Contract!vars)
  <2>1. CASE UNCHANGED vars
    <3>1. UNCHANGED vars => Quiet(Posts)
      BY DEF vars, airtable, meta, Quiet, Verdict, Public
    <3> QED
      BY <2>1, <3>1, StutterIf
  <2>2. CASE Next
    BY <2>2, JobKeepsContract, OthersKeepContract DEF Next
  <2> QED
    BY <2>1, <2>2
<1> QED
  BY <1>1, <1>2, ContractHolds, PTL DEF Spec, ImplementsContract, Contract!Spec

-----------------------------------------------------------------------------
(* The ledger: nothing that may be public is forgotten.                     *)

\* A post that nobody works on and that may be public, and what is left of it.
Loose(p) == Remembered(p) /\ status[p] = "uploading" /\ MayBePublic(p) /\ ~AtWork(p)
Known(p) == clue[p].kind # "none" \/ p \in told

\* The container of an entry is the one that may be public: both are of the last claim.
LEMMA ListedIs ==
    ContractInv => (ListedOrTold <=> \A p \in Posts : Loose(p) => Known(p))
<1>1. ASSUME NEW p \in Posts, MayBePublic(p), clue[p].kind # "none"
      PROVE  ContractInv => clue[p].try \in Public(p) \cup Pending(p)
  BY <1>1 DEF ContractInv, BoxInv, BoxOk, ClueInv, ClueOk, MayBePublic, Public, Pending
<1> QED
  BY <1>1 DEF ListedOrTold, Loose, Known

LEMMA ListedIsNext ==
    (ContractInv => (ListedOrTold <=> \A p \in Posts : Loose(p) => Known(p)))'
BY ListedIs, PTL

\* A step whose effect on the post, if it has one, is not to let go of it.
LEMMA StillKnown ==
    ASSUME NEW p \in Posts, Loose(p) => Known(p), crashed => crashed',
           status'[p] = "uploading" => status[p] = "uploading",
           MayBePublic(p)' => MayBePublic(p), AtWork(p) => AtWork(p)',
           status[p] = "uploading" /\ Known(p) => Known(p)' \/ status'[p] # "uploading"
    PROVE  Loose(p)' => Known(p)'
BY DEF Loose, Remembered

LEMMA CrashedGrows == ASSUME TypeInv, Next PROVE crashed => crashed'
BY DEF Next, JobStep, Publishing, Fetch, Skip, Pick, End, Refuse, Hold, Claim, ClaimRaises, Consume,
       Make, MakeFails, List, WaitFails, Ask, AnswerOk, AnswerUnclear, Isolate, Tell, Mark,
       NoteUnrecorded, Clear, RecStep, RecLoad, RecDecide, RecCheck, RecWrite, RecAlert, RecApply,
       World, Accept, Expire, OpSettle, OpReopen, SlotStarts, Crash, NoFault, Fault, TypeInv, TypeOK

\* A job that leaves the post has had it written, listed or told.
LEMMA OwnPostKnown ==
    ASSUME ContractInv, LeaveInv, NEW j \in Jobs, AtWorkStep(j), NEW p \in Posts, p = post[j],
           pc'[j] \in Free
    PROVE  status'[p] # "uploading" \/ ~MayBePublic(p)' \/ Known(p)'
<1> USE DEF ContractInv
<1>1. pc[j] \notin Free /\ WorkOk(j) /\ pc \in [Jobs -> JobPc]
  BY WorkBox DEF WorkInv, TypeInv, TypeOK
<1>2. Tell(j) \/ Clear(j) \/ \E s \in {"posted", "failed"} : Mark(j, s) \/ NoteUnrecorded(j, s)
  BY <1>1 DEF AtWorkStep, Consume, Make, MakeFails, List, WaitFails, Ask, AnswerOk, AnswerUnclear,
              Isolate, Go, Free
<1>3. CASE Tell(j)
  BY <1>3, <1>1 DEF Tell, At, Fault, LeaveInv, Known
<1>4. CASE Clear(j)
  BY <1>4, <1>1 DEF Clear, At, WorkOk, Free, airtable
<1>5. ASSUME NEW s \in {"posted", "failed"}, Mark(j, s) PROVE status'[p] # "uploading"
  BY <1>5, <1>1 DEF Mark, Write, Go, NoteAt, Free, TypeInv, TypeOK
<1>6. ASSUME NEW s \in {"posted", "failed"}, NoteUnrecorded(j, s) PROVE ~MayBePublic(p)'
  <2>1. s = "failed" /\ UNCHANGED box
    BY <1>6, <1>1 DEF NoteUnrecorded, Go, Free, meta
  <2>2. ~MayBePublic(p)
    BY <1>6, <1>1, <2>1 DEF NoteUnrecorded, At, NoteAt, WorkOk, Free
  <2> QED
    BY <2>1, <2>2 DEF MayBePublic, Public, Pending
<1> QED
  BY <1>2, <1>3, <1>4, <1>5, <1>6

LEMMA LeaveOwn ==
    ASSUME ContractInv, OneWarningWorks, LeaveInv, NEW j \in Jobs, AtWorkStep(j),
           NEW p \in Posts, p = post[j]
    PROVE  /\ pc'[j] \in {"ask", "answer", "isolate", "mark_posted", "note_posted", "tell"}
              /\ p \in Carousels => clue'[p].kind # "none"
           /\ pc'[j] = "tell" => clue'[p].kind # "none" \/ "slack" \notin FaultKinds
<1> USE DEF ContractInv
<1>1. pc[j] \notin Free /\ WorkOk(j)
  BY WorkBox DEF WorkInv
<1>2. CASE \/ Consume(j) \/ Make(j) \/ MakeFails(j) \/ List(j) \/ WaitFails(j)
           \/ Ask(j) \/ AnswerOk(j) \/ AnswerUnclear(j)
  BY <1>1, <1>2 DEF Consume, Make, MakeFails, List, WaitFails, Ask, AnswerOk, AnswerUnclear, At, Go,
                    Note, LeaveInv, ledger, TypeInv, TypeOK
<1>3. CASE Isolate(j)
  BY <1>1, <1>3 DEF Isolate, At, Go, Note, Fault, LeaveInv, OneWarningWorks, TypeInv, TypeOK
<1>4. ASSUME NEW s \in {"posted", "failed"}, NoteUnrecorded(j, s)
      PROVE  /\ pc'[j] \in {"ask", "answer", "isolate", "mark_posted", "note_posted", "tell"}
                /\ p \in Carousels => clue'[p].kind # "none"
             /\ pc'[j] = "tell" => clue'[p].kind # "none" \/ "slack" \notin FaultKinds
  BY <1>1, <1>4 DEF NoteUnrecorded, NoteAt, Unrecorded, At, Go, Note, Fault, LeaveInv,
                    OneWarningWorks, TypeInv, TypeOK
<1>5. CASE Tell(j) \/ Clear(j) \/ \E s \in {"posted", "failed"} : Mark(j, s)
  BY <1>1, <1>5 DEF Tell, Clear, Mark, AfterMark, MarkAt, NoteAt, At, Go, LeaveInv, ledger,
                    TypeInv, TypeOK
<1> QED
  BY <1>2, <1>3, <1>4, <1>5 DEF AtWorkStep

LEMMA ListJob ==
    ASSUME JobsAlone, OneWarningWorks, ContractInv, ContractInv', ListInv, Next,
           NEW j \in Jobs, JobStep(j)
    PROVE  ListInv'
<1> USE DEF ContractInv, ListInv
<1>1. \/ Fetch(j) \/ Skip(j) \/ Pick(j) \/ End(j)
      \/ Refuse(j) \/ Hold(j) \/ Claim(j) \/ ClaimRaises(j)
      \/ AtWorkStep(j)
  BY DEF JobStep, Publishing, AtWorkStep
<1>2. AtWorkStep(j) => pc[j] \notin Free /\ post[j] \in Posts /\ post'[j] = post[j]
  BY WorkBox
<1>3. LeaveInv'
  <2>1. ~AtWorkStep(j) => pc'[j] \notin {"ask", "answer", "isolate", "mark_posted", "note_posted", "tell"}
    BY <1>1 DEF Fetch, Skip, Pick, End, Refuse, Hold, Claim, ClaimRaises, Ended, Go, At, TypeInv, TypeOK
  <2>2. ASSUME NEW i \in Jobs \ {j}, pc[i] \notin Free
        PROVE  pc'[i] = pc[i] /\ post'[i] = post[i] /\ clue'[post[i]] = clue[post[i]]
    <3>1. post[i] \in Posts
      BY <2>2 DEF TypeInv, MemoryInv, Free
    <3> QED
      BY <3>1, JobIsLocal, OneWorker
  <2>3. \A i \in Jobs \ {j} : pc'[i] = pc[i]
    BY JobIsLocal
  <2> QED
    BY <1>2, <2>1, <2>2, <2>3, LeaveOwn DEF LeaveInv, Free
<1>4. ASSUME NEW p \in Posts PROVE Loose(p)' => Known(p)'
  <2>0. Loose(p) => Known(p)
    BY ListedIs
  <2>1. p # post[j] => (p \in told => p \in told')
    BY DEF JobStep, Publishing, Fetch, Skip, Pick, End, Refuse, Hold, Claim, ClaimRaises, Consume,
           Make, MakeFails, List, WaitFails, Ask, AnswerOk, AnswerUnclear, Isolate, Tell, Mark,
           NoteUnrecorded, Clear, ledger
  <2>2. CASE p # post[j]
    <3>1. status'[p] = status[p] /\ box'[p] = box[p] /\ clue'[p] = clue[p]
      BY <2>2, JobIsLocal
    <3>2. AtWork(p) => AtWork(p)'
      BY <2>2, JobIsLocal DEF AtWork
    <3>3. MayBePublic(p)' => MayBePublic(p)
      BY <3>1 DEF MayBePublic, Public, Pending
    <3> QED
      BY <2>0, <2>1, <2>2, <3>1, <3>2, <3>3, StillKnown, CrashedGrows DEF Known
  <2>3. CASE p = post[j] /\ (Fetch(j) \/ Skip(j) \/ Pick(j) \/ End(j))
    <3>1. UNCHANGED <<status, box, clue, told>> /\ pc[j] \in Free
      BY <2>3 DEF Fetch, Skip, Pick, End, At, Free, airtable, meta, ledger
    <3>2. AtWork(p) => AtWork(p)'
      BY <3>1, JobIsLocal DEF AtWork, Free
    <3>3. MayBePublic(p)' => MayBePublic(p)
      BY <3>1 DEF MayBePublic, Public, Pending
    <3> QED
      BY <2>0, <3>1, <3>2, <3>3, StillKnown, CrashedGrows DEF Known
  <2>4. CASE p = post[j] /\ (Refuse(j) \/ Hold(j) \/ Claim(j) \/ ClaimRaises(j))
    <3>1. UNCHANGED box /\ pc[j] = "gate"
      BY <2>4, GateOwn DEF Refuse, Hold, Claim, ClaimRaises, At
    <3>2. ~MayBePublic(p)
      BY <2>4, <3>1 DEF BatchInv, BatchOk, BoxInv, BoxOk
    <3>3. ~MayBePublic(p)'
      BY <3>1, <3>2 DEF MayBePublic, Public, Pending
    <3> QED
      BY <3>3 DEF Loose
  <2>5. CASE p = post[j] /\ AtWorkStep(j)
    <3>1. CASE pc'[j] \in Free
      BY <2>5, <3>1, OwnPostKnown DEF Loose
    <3>2. CASE pc'[j] \notin Free
      BY <1>2, <2>5, <3>2 DEF Loose, AtWork, Free
    <3> QED
      BY <3>1, <3>2
  <2> QED
    BY <1>1, <2>2, <2>3, <2>4, <2>5
<1> QED
  BY <1>3, <1>4, ListedIsNext

LEMMA ListOthers ==
    ASSUME ContractInv, ContractInv', ListInv, Next,
           RecStep \/ SlotStarts \/ Crash \/ \E p \in Posts : World(p)
    PROVE  ListInv'
<1> USE DEF ContractInv, ListInv
<1>1. \A p \in Posts : Loose(p) => Known(p)
  BY ListedIs
<1>2. CASE RecStep
  <2>1. UNCHANGED <<box, job>>
    BY <1>2 DEF RecStep, RecLoad, RecDecide, RecCheck, RecWrite, RecAlert, RecApply, meta
  <2>2. \A p \in Posts : /\ clue'[p].kind = "none" => clue[p].kind = "none" \/ status[p] # "uploading"
                         /\ AtWork(p) => clue'[p] = clue[p]
    <3>1. CASE RecApply
      <4>1. clue' = clue \/ clue' = Applied
        BY <3>1 DEF RecApply
      <4>2. \A p \in resolved \cup flagged : ~AtWork(p)
        BY DEF RecInv, Held, TypeInv, TypeOK
      <4>3. \A p \in resolved : status[p] # "uploading"
        BY DEF RecInv
      <4> QED
        BY <4>1, <4>2, <4>3 DEF Applied, TypeInv, TypeOK, Clues
    <3>2. CASE ~RecApply
      BY <1>2, <3>2 DEF RecStep, RecLoad, RecDecide, RecCheck, RecWrite, RecAlert, ledger
    <3> QED
      BY <3>1, <3>2
  <2>3. \A p \in Posts : /\ status'[p] = "uploading" => status[p] = "uploading"
                         /\ p \in told => p \in told'
    BY <1>2 DEF RecStep, RecLoad, RecDecide, RecCheck, RecWrite, RecAlert, RecApply, Write,
                MaybeWritten, airtable, ledger, TypeInv, TypeOK, VerdictInv
  <2>4. LeaveInv'
    <3>1. \A j \in Jobs : pc[j] \notin Free => post[j] \in Posts /\ AtWork(post[j])
      BY DEF AtWork, Free, TypeInv, MemoryInv
    <3> QED
      BY <2>1, <2>2, <3>1 DEF LeaveInv, Free, job
  <2>5. ASSUME NEW p \in Posts PROVE Loose(p)' => Known(p)'
    <3>1. (AtWork(p) => AtWork(p)') /\ (MayBePublic(p)' => MayBePublic(p))
      BY <2>1 DEF AtWork, MayBePublic, Public, Pending, job
    <3> QED
      BY <1>1, <2>2, <2>3, <3>1, StillKnown, CrashedGrows DEF Known
  <2> QED
    BY <2>4, <2>5, ListedIsNext
<1>3. CASE SlotStarts \/ \E p \in Posts : World(p)
  <2>1. UNCHANGED <<clue, job>>
    BY <1>3 DEF SlotStarts, World, Accept, Expire, OpSettle, OpReopen, ledger
  <2>2. LeaveInv'
    BY <2>1 DEF LeaveInv, job
  <2>3. ASSUME NEW p \in Posts PROVE Loose(p)' => Known(p)'
    <3>1. AtWork(p) => AtWork(p)'
      BY <2>1 DEF AtWork, job
    <3>2. \A a \in Tries : box'[p][a] \in {"asked", "published"} => box[p][a] \in {"asked", "published"}
      <4>1. ASSUME NEW q \in Posts, NEW b \in Tries, Accept(q, b) \/ Expire(q, b)
            PROVE  \A a \in Tries :
                       box'[p][a] \in {"asked", "published"} => box[p][a] \in {"asked", "published"}
        <5>1. CASE Accept(q, b)
          BY <5>1, BoxAfter DEF Accept, TypeInv
        <5>2. CASE Expire(q, b)
          BY <5>2, BoxAfter DEF Expire, TypeInv
        <5> QED
          BY <4>1, <5>1, <5>2
      <4>2. CASE UNCHANGED box
        BY <4>2
      <4> QED
        BY <1>3, <4>1, <4>2 DEF SlotStarts, World, OpSettle, OpReopen, meta
    <3>3. MayBePublic(p)' => MayBePublic(p)
      BY <3>2 DEF MayBePublic, Public, Pending
    <3>4. /\ status'[p] = "uploading" => status[p] = "uploading"
          /\ p \in told /\ status'[p] = "uploading" => p \in told'
      BY <1>3 DEF SlotStarts, World, Accept, Expire, OpSettle, OpReopen, Write, airtable, ledger,
                  TypeInv, TypeOK
    <3> QED
      BY <1>1, <2>1, <3>1, <3>3, <3>4, StillKnown, CrashedGrows DEF Known
  <2> QED
    BY <2>2, <2>3, ListedIsNext
<1>4. CASE Crash
  <2>1. /\ UNCHANGED <<status, box, ledger>>
        /\ \A j \in Jobs : \/ pc'[j] = pc[j] /\ post'[j] = post[j]
                          \/ pc'[j] = "idle"
    BY <1>4 DEF Crash, Ended, airtable, meta
  <2>2. LeaveInv'
    BY <2>1 DEF LeaveInv, ledger
  <2>3. ASSUME NEW p \in Posts, Loose(p)' PROVE Known(p)'
    <3>1. /\ status[p] = "uploading" /\ MayBePublic(p) /\ p \in Carousels
          /\ Known(p)' <=> Known(p)
      BY <1>4, <2>1, <2>3
         DEF Crash, Fault, Loose, Remembered, MayBePublic, Public, Pending, Known, ledger
    <3>2. CASE ~AtWork(p)
      BY <1>1, <3>1, <3>2 DEF Loose, Remembered
    <3>3. ASSUME NEW j \in Jobs, post[j] = p, pc[j] \notin Free PROVE clue[p].kind # "none"
      <4>1. pc[j] \in {"answer", "isolate", "mark_posted", "note_posted", "tell"}
        <5>1. WorkOk(j) /\ pc[j] \in JobPc
          BY DEF WorkInv, TypeInv, TypeOK
        <5>2. status[post[j]] = "uploading" /\ MayBePublic(post[j])
          BY <3>1, <3>3
        <5> QED
          BY <3>3, <5>1, <5>2 DEF WorkOk, Free, JobPc
      <4> QED
        BY <3>1, <3>3, <4>1 DEF LeaveInv
    <3> QED
      BY <3>1, <3>2, <3>3 DEF AtWork, Free, Known
  <2> QED
    BY <2>2, <2>3, ListedIsNext
<1> QED
  BY <1>2, <1>3, <1>4

LEMMA InitList == Init => ListInv
<1> SUFFICES ASSUME Init PROVE ListInv
  OBVIOUS
<1>1. LeaveInv
  BY DEF Init, LeaveInv
<1>2. ListedOrTold
  BY DEF Init, ListedOrTold
<1> QED
  BY <1>1, <1>2 DEF ListInv

LEMMA ListStep ==
    ASSUME JobsAlone, LedgerIsHeeded, OneWarningWorks, ContractInv, ContractInv', ListInv, [Next]_vars
    PROVE  ListInv'
<1>1. CASE UNCHANGED vars
  BY <1>1 DEF vars, airtable, meta, ledger, job, ListInv, LeaveInv, ListedOrTold, Remembered, AtWork,
              MayBePublic, Public, Pending
<1>2. CASE Next
  BY <1>2, ListJob, ListOthers DEF Next
<1> QED
  BY <1>1, <1>2

\* A post that may be public and that nobody works on any more is in the ledger with the
\* container in question, or a person was told: no publication is left "uploading" with
\* nothing but a line in a log (ERR-148).
THEOREM ListedOrToldHolds ==
    ASSUME JobsAlone, LedgerIsHeeded, OneWarningWorks
    PROVE  Spec => []ListedOrTold
<1>1. Init => ContractInv /\ ListInv
  BY InitContract, InitList
<1>2. ContractInv /\ ListInv /\ [Next]_vars => (ContractInv /\ ListInv)'
  BY ContractStep, ListStep
<1> QED
  BY <1>1, <1>2, PTL DEF Spec, ListInv
=============================================================================
