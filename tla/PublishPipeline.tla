--------------------------- MODULE PublishPipeline ---------------------------
(***************************************************************************)
(* Publishing to Instagram (launcher/main.py).  The 5-minute poller and the  *)
(* slot jobs take posts whose Airtable status is ready, claim them, build a  *)
(* container, publish it and write the outcome.  What they cannot decide     *)
(* stays "uploading" with a clue in publish_outcome_pending.json and a Slack *)
(* message; the reconciler settles clues it can prove, a person the rest.    *)
(*                                                                         *)
(* One step is one HTTP call or one change of a file.  The ledger file is    *)
(* changed under BEGIN IMMEDIATE, so a change of it is one step.             *)
(***************************************************************************)
EXTENDS Naturals, FiniteSets

CONSTANTS
    Posts,       \* records of Instagram_Posts
    SlotPosts,   \* those of accounts served by a slot job, which the poller skips
    Carousels,   \* slot posts whose package is a carousel
    Gated,       \* poller posts, all of one account that has post_hours
    Jobs,        \* runs of publishing jobs, at most one of each at a time
    SlotJobs,    \* those that run _job_aijomoojin_scheduled_post
    Tools,       \* those started by hand in a process of their own
    Nothing,     \* no post
    MaxTries,    \* bound: claims of one post
    MaxSlots,    \* slots of the gated account today: min(post_hours, daily_post_limit)
    FaultKinds,  \* the failures that may happen
    MaxFaults    \* bound: failures in one behaviour

ASSUME PublishAssumption ==
    /\ SlotPosts \subseteq Posts /\ Carousels \subseteq SlotPosts
    /\ Gated \subseteq Posts \ SlotPosts
    /\ SlotJobs \subseteq Jobs /\ Tools \subseteq Jobs
    /\ Nothing \notin Posts
    /\ MaxTries \in Nat \ {0} /\ MaxSlots \in Nat /\ MaxFaults \in Nat

Tries == 1..MaxTries

VARIABLES
    \* Airtable
    status,
    \* Meta: the containers of a post, by the claim that built them
    tries, box,
    \* publish_outcome_pending.json, and the posts a person was told to look at
    clue, told,
    \* poller_slot_state.json (claims today) and the slots whose hour has come
    slotFile, due,
    \* the jobs
    pc,       \* where the job is
    batch,    \* posts it fetched as ready and has not come to
    post,     \* the post it is at
    mine,     \* its claim of that post
    seen,     \* slot_state in its memory
    allow,    \* slots due at the time it started
    used,     \* whether slot_used holds the gated account
    \* the reconciler
    rpc, snap, left, rpost, rverdict, resolved, flagged,
    crashed,  \* whether the launcher ever died
    faults

airtable == <<status>>
meta     == <<tries, box>>
ledger   == <<clue, told>>
slots    == <<slotFile, due>>
job      == <<pc, batch, post, mine, seen, allow, used>>
rec      == <<rpc, snap, left, rpost, rverdict, resolved, flagged>>
vars     == <<airtable, meta, ledger, slots, job, rec, crashed, faults>>

Clues ==
    [kind : {"none", "in_flight", "outcome_unknown", "posted_unrecorded", "failed_unrecorded"},
     try : 0..MaxTries, alerted : BOOLEAN]
NoClue == [kind |-> "none", try |-> 0, alerted |-> FALSE]

\* Posts that wait and posts the gate turned down before, at some hour of the day.
Init ==
    /\ status \in [Posts -> {"ready", "rejected"}]
    /\ tries = [p \in Posts |-> 0]
    /\ box = [p \in Posts |-> [a \in Tries |-> "none"]]
    /\ clue = [p \in Posts |-> NoClue]
    /\ told = {}
    /\ due \in 0..MaxSlots /\ slotFile \in 0..due
    /\ pc = [j \in Jobs |-> "idle"]
    /\ batch = [j \in Jobs |-> {}]
    /\ post = [j \in Jobs |-> Nothing]
    /\ mine = [j \in Jobs |-> 0]
    /\ seen = [j \in Jobs |-> 0]
    /\ allow = [j \in Jobs |-> 0]
    /\ used = [j \in Jobs |-> FALSE]
    /\ rpc = "idle"
    /\ snap = [p \in Posts |-> NoClue]
    /\ left = {} /\ rpost = Nothing /\ rverdict = "hold"
    /\ resolved = {} /\ flagged = {}
    /\ crashed = FALSE
    /\ faults = 0

(***************************************************************************)
(* Helpers                                                                  *)
(***************************************************************************)
NoFault == UNCHANGED <<crashed, faults>>

Fault(kind) ==
    /\ kind \in FaultKinds
    /\ faults < MaxFaults
    /\ faults' = faults + 1
    /\ crashed' = (crashed \/ kind = "crash")

At(j, place) == pc[j] = place
Go(j, place) == pc' = [pc EXCEPT ![j] = place] /\ UNCHANGED <<batch, post, mine, seen, allow, used>>

Write(p, s) == status' = [status EXCEPT ![p] = s]

\* A PATCH that raised may have been applied.
MaybeWritten(p, s) == UNCHANGED status \/ Write(p, s)

Note(p, kind, a) ==
    clue' = [clue EXCEPT ![p] = [kind |-> kind, try |-> a, alerted |-> FALSE]]

Box(j) == box[post[j]][mine[j]]
SetBox(j, s) == box' = [box EXCEPT ![post[j]][mine[j]] = s] /\ UNCHANGED tries

\* After a claim, until the job leaves the post.
AtWork(p) ==
    \E j \in Jobs : post[j] = p /\ pc[j] \notin {"idle", "next", "gate"}

\* The job's memory is gone.
Ended(J) ==
    /\ pc' = [j \in Jobs |-> IF j \in J THEN "idle" ELSE pc[j]]
    /\ batch' = [j \in Jobs |-> IF j \in J THEN {} ELSE batch[j]]
    /\ post' = [j \in Jobs |-> IF j \in J THEN Nothing ELSE post[j]]
    /\ mine' = [j \in Jobs |-> IF j \in J THEN 0 ELSE mine[j]]
    /\ seen' = [j \in Jobs |-> IF j \in J THEN 0 ELSE seen[j]]
    /\ allow' = [j \in Jobs |-> IF j \in J THEN 0 ELSE allow[j]]
    /\ used' = [j \in Jobs |-> IF j \in J THEN FALSE ELSE used[j]]

(***************************************************************************)
(* A publishing job                                                         *)
(***************************************************************************)
\* The poller takes every ready post and leaves out those of slot accounts;
\* a slot job takes one ready post of its account.
Candidates(j) ==
    LET ready == {p \in Posts : status[p] = "ready"}
    IN IF j \in SlotJobs THEN {{p} : p \in ready \cap SlotPosts}
                         ELSE {ready \ SlotPosts} \ {{}}

Fetch(j) ==
    /\ At(j, "idle")
    /\ \E b \in Candidates(j) : batch' = [batch EXCEPT ![j] = b]
    /\ pc' = [pc EXCEPT ![j] = "next"]
    /\ seen' = [seen EXCEPT ![j] = slotFile]
    /\ allow' = [allow EXCEPT ![j] = due]
    /\ UNCHANGED <<post, mine, used, airtable, meta, ledger, slots, rec>> /\ NoFault

\* A kill switch, a missing account or a slot that is not due: the post stays ready.
Skip(j) ==
    /\ At(j, "next")
    /\ \E p \in batch[j] : batch' = [batch EXCEPT ![j] = @ \ {p}]
    /\ UNCHANGED <<pc, post, mine, seen, allow, used, airtable, meta, ledger, slots, rec>> /\ NoFault

SlotAllowed(j, p) == p \in Gated => ~used[j] /\ seen[j] < allow[j]

Pick(j) ==
    /\ At(j, "next")
    /\ \E p \in batch[j] :
          /\ SlotAllowed(j, p)
          /\ batch' = [batch EXCEPT ![j] = @ \ {p}]
          /\ post' = [post EXCEPT ![j] = p]
          /\ used' = [used EXCEPT ![j] = @ \/ p \in Gated]
    /\ pc' = [pc EXCEPT ![j] = "gate"]
    /\ UNCHANGED <<mine, seen, allow, airtable, meta, ledger, slots, rec>> /\ NoFault

End(j) ==
    /\ At(j, "next") /\ batch[j] = {}
    /\ Ended({j})
    /\ UNCHANGED <<airtable, meta, ledger, slots, rec>> /\ NoFault

\* resolve_publish_gate refuses: an unconditional write, outside any try.
Refuse(j) ==
    /\ At(j, "gate")
    /\ \E s \in {"failed", "rejected"} :
          \/ Write(post[j], s) /\ Go(j, "next") /\ NoFault
          \/ MaybeWritten(post[j], s) /\ Ended({j}) /\ Fault("gate")
    /\ UNCHANGED <<meta, ledger, slots, rec>>

\* Credentials or the package are not in order: the post stays ready.
Hold(j) ==
    /\ At(j, "gate")
    /\ Go(j, "next")
    /\ UNCHANGED <<airtable, meta, ledger, slots, rec>> /\ NoFault

\* claim_post_for_upload: a PATCH that does not look at the status.
Claim(j) ==
    /\ At(j, "gate")
    /\ tries[post[j]] < MaxTries
    /\ Write(post[j], "uploading")
    /\ tries' = [tries EXCEPT ![post[j]] = @ + 1]
    /\ mine' = [mine EXCEPT ![j] = tries[post[j]] + 1]
    /\ pc' = [pc EXCEPT ![j] = IF post[j] \in Gated THEN "consume" ELSE "make"]
    /\ told' = told \ {post[j]}
    /\ UNCHANGED <<box, clue, batch, post, seen, allow, used, slots, rec>> /\ NoFault

ClaimRaises(j) ==
    /\ At(j, "gate")
    /\ MaybeWritten(post[j], "uploading")
    /\ Ended({j})
    /\ Fault("claim")
    /\ UNCHANGED <<meta, ledger, slots, rec>>

\* Mutant: the slot is used up in memory only.
Consume_MemoryOnly(j) ==
    /\ At(j, "consume")
    /\ seen' = [seen EXCEPT ![j] = @ + 1]
    /\ pc' = [pc EXCEPT ![j] = "make"]
    /\ UNCHANGED <<slotFile, due, batch, post, mine, allow, used, airtable, meta, ledger, rec>> /\ NoFault

\* A claim uses up a slot, in memory and in the file.
Consume(j) ==
    /\ At(j, "consume")
    /\ seen' = [seen EXCEPT ![j] = @ + 1]
    /\ pc' = [pc EXCEPT ![j] = "make"]
    /\ \/ slotFile' = seen[j] + 1 /\ NoFault
       \/ UNCHANGED slotFile /\ Fault("save")
    /\ UNCHANGED <<due, batch, post, mine, allow, used, airtable, meta, ledger, rec>>

\* Phase A, for a carousel with its children.
Make(j) ==
    /\ At(j, "make")
    /\ SetBox(j, "made")
    /\ Go(j, IF post[j] \in Carousels THEN "list" ELSE "ask")
    /\ UNCHANGED <<airtable, ledger, slots, rec>> /\ NoFault

MakeFails(j) ==
    /\ At(j, "make")
    /\ Go(j, "mark_failed")
    /\ Fault("make")
    /\ UNCHANGED <<airtable, meta, ledger, slots, rec>>

\* on_parent_created: no clue in the ledger, no publication.
List(j) ==
    /\ At(j, "list")
    /\ \/ Note(post[j], "in_flight", mine[j]) /\ Go(j, "ask") /\ NoFault
       \/ UNCHANGED clue /\ Go(j, "mark_failed") /\ Fault("list")
    /\ UNCHANGED <<told, airtable, meta, slots, rec>>

\* _wait_container_finished gives up: nothing was asked yet.
WaitFails(j) ==
    /\ At(j, "ask")
    /\ Go(j, "mark_failed")
    /\ IF Box(j) = "expired" THEN NoFault ELSE Fault("wait")
    /\ UNCHANGED <<airtable, meta, ledger, slots, rec>>

\* POST media_publish has left.
Ask(j) ==
    /\ At(j, "ask") /\ Box(j) = "made"
    /\ SetBox(j, "asked")
    /\ Go(j, "answer")
    /\ UNCHANGED <<airtable, ledger, slots, rec>> /\ NoFault

AnswerOk(j) ==
    /\ At(j, "answer") /\ Box(j) = "published"
    /\ Go(j, "mark_posted")
    /\ UNCHANGED <<airtable, meta, ledger, slots, rec>> /\ NoFault

\* Mutant: a 4xx is a definite refusal, as it was before 260801.
AnswerUnclear_Fails(j) ==
    /\ At(j, "answer")
    /\ Go(j, "mark_failed")
    /\ IF Box(j) = "expired" THEN NoFault ELSE Fault("publish")
    /\ UNCHANGED <<airtable, meta, ledger, slots, rec>>

\* A timeout, a 4xx, a 5xx or an answer without an id, whatever Meta did.
AnswerUnclear(j) ==
    /\ At(j, "answer")
    /\ Go(j, "isolate")
    /\ IF Box(j) = "expired" THEN NoFault ELSE Fault("publish")
    /\ UNCHANGED <<airtable, meta, ledger, slots, rec>>

Isolate(j) ==
    /\ At(j, "isolate")
    /\ Go(j, "tell")
    /\ \/ Note(post[j], "outcome_unknown", mine[j]) /\ NoFault
       \/ UNCHANGED clue /\ Fault("note")
    /\ UNCHANGED <<told, airtable, meta, slots, rec>>

Tell(j) ==
    /\ At(j, "tell")
    /\ Go(j, "next")
    /\ \/ told' = told \cup {post[j]} /\ NoFault
       \/ UNCHANGED told /\ Fault("slack")
    /\ UNCHANGED <<clue, airtable, meta, slots, rec>>

MarkAt == [posted |-> "mark_posted", failed |-> "mark_failed"]
NoteAt == [posted |-> "note_posted", failed |-> "note_failed"]
Unrecorded == [posted |-> "posted_unrecorded", failed |-> "failed_unrecorded"]

AfterMark(j) == IF post[j] \in Carousels THEN "clear" ELSE "next"

\* Mutant: a carousel's clue is dropped whether or not the mark was written.
Mark_AlwaysClears(j, s) ==
    /\ At(j, MarkAt[s])
    /\ \/ Write(post[j], s) /\ Go(j, AfterMark(j)) /\ NoFault
       \/ MaybeWritten(post[j], s) /\ Go(j, AfterMark(j)) /\ Fault("mark")
    /\ UNCHANGED <<meta, ledger, slots, rec>>

\* mark_post_result with the outcome; a carousel's clue is then dropped.
Mark(j, s) ==
    /\ At(j, MarkAt[s])
    /\ \/ Write(post[j], s) /\ Go(j, AfterMark(j)) /\ NoFault
       \/ MaybeWritten(post[j], s) /\ Go(j, NoteAt[s]) /\ Fault("mark")
    /\ UNCHANGED <<meta, ledger, slots, rec>>

\* Only a publication that could not be recorded is also told to a person.
NoteUnrecorded(j, s) ==
    /\ At(j, NoteAt[s])
    /\ Go(j, IF s = "posted" THEN "tell" ELSE "next")
    /\ \/ Note(post[j], Unrecorded[s], mine[j]) /\ NoFault
       \/ UNCHANGED clue /\ Fault("note")
    /\ UNCHANGED <<told, airtable, meta, slots, rec>>

\* _clear_publish_pending drops whatever entry the post has.
Clear(j) ==
    /\ At(j, "clear")
    /\ Go(j, "next")
    /\ \/ clue' = [clue EXCEPT ![post[j]] = NoClue] /\ NoFault
       \/ UNCHANGED clue /\ Fault("clear")
    /\ UNCHANGED <<told, airtable, meta, slots, rec>>

Publishing(j) ==
    \/ Claim(j) \/ ClaimRaises(j) \/ Consume(j)
    \/ Make(j) \/ MakeFails(j) \/ List(j) \/ WaitFails(j)
    \/ Ask(j) \/ AnswerOk(j) \/ AnswerUnclear(j)
    \/ Isolate(j) \/ Tell(j)
    \/ \E s \in {"posted", "failed"} : Mark(j, s) \/ NoteUnrecorded(j, s)
    \/ Clear(j)

JobStep(j) ==
    \/ Fetch(j) \/ Skip(j) \/ Pick(j) \/ End(j)
    \/ Refuse(j) \/ Hold(j) \/ Publishing(j)

(***************************************************************************)
(* The reconciler                                                           *)
(***************************************************************************)
\* An entry is looked at 30 minutes after it was written, when the claim that
\* wrote it is over.
Aged(p) ==
    /\ clue[p].kind # "none"
    /\ \A j \in Jobs : post[j] = p /\ mine[j] = clue[p].try => pc[j] \in {"idle", "next", "gate"}

RecLoad ==
    /\ rpc = "idle"
    /\ \E p \in Posts : Aged(p)
    /\ left' = {p \in Posts : Aged(p)}
    /\ snap' = clue
    /\ rpc' = "entry"
    /\ UNCHANGED <<rpost, rverdict, resolved, flagged, airtable, meta, ledger, slots, job>> /\ NoFault

\* Mutant: what Meta says of the container is the verdict.
Evidence_Raw(entry, container) ==
    CASE entry.kind = "posted_unrecorded" -> "posted"
      [] entry.kind = "failed_unrecorded" -> "failed"
      [] OTHER -> IF container \in {"expired", "published"} THEN container ELSE "hold"

\* _reconcile_decide: a published container proves nothing about the media id.
Evidence(entry, container) ==
    CASE entry.kind = "posted_unrecorded" -> "posted"
      [] entry.kind = "failed_unrecorded" -> "failed"
      [] OTHER -> IF container = "expired" THEN "failed" ELSE "hold"

RecDecide ==
    /\ rpc = "entry"
    /\ \E p \in left :
          /\ left' = left \ {p}
          /\ rpost' = p
          /\ \/ rverdict' = Evidence(snap[p], box[p][snap[p].try]) /\ NoFault
             \/ rverdict' = "hold" /\ Fault("lookup")
    /\ rpc' = IF rverdict' = "hold" THEN "alert" ELSE "check"
    /\ UNCHANGED <<snap, resolved, flagged, airtable, meta, ledger, slots, job>>

\* _fetch_post_state: only a post that is still uploading is written.
RecCheck ==
    /\ rpc = "check"
    /\ \/ rpc' = (IF status[rpost] = "uploading" THEN "write" ELSE "alert") /\ NoFault
       \/ rpc' = "alert" /\ Fault("lookup")
    /\ UNCHANGED <<snap, left, rpost, rverdict, resolved, flagged, airtable, meta, ledger, slots, job>>

RecWrite ==
    /\ rpc = "write"
    /\ rpc' = "entry"
    /\ \/ Write(rpost, rverdict) /\ resolved' = resolved \cup {rpost} /\ NoFault
       \/ MaybeWritten(rpost, rverdict) /\ UNCHANGED resolved /\ Fault("write")
    /\ UNCHANGED <<snap, left, rpost, rverdict, flagged, meta, ledger, slots, job>>

\* Mutant: the entry is flagged without the message.
RecAlert_Silent ==
    /\ rpc = "alert"
    /\ rpc' = "entry"
    /\ flagged' = flagged \cup {rpost}
    /\ UNCHANGED <<clue, told, snap, left, rpost, rverdict, resolved, airtable, meta, slots, job>> /\ NoFault

\* A message is sent once per entry, and not sent again when Slack loses it.
RecAlert ==
    /\ rpc = "alert"
    /\ rpc' = "entry"
    /\ IF snap[rpost].alerted
       THEN UNCHANGED <<flagged, told>> /\ NoFault
       ELSE /\ flagged' = flagged \cup {rpost}
            /\ \/ told' = told \cup {rpost} /\ NoFault
               \/ UNCHANGED told /\ Fault("slack")
    /\ UNCHANGED <<clue, snap, left, rpost, rverdict, resolved, airtable, meta, slots, job>>

\* An entry that changed since it was loaded is left alone.
Applied ==
    [p \in Posts |->
        IF clue[p] # snap[p] THEN clue[p]
        ELSE IF p \in resolved THEN NoClue
        ELSE IF p \in flagged THEN [clue[p] EXCEPT !.alerted = TRUE]
        ELSE clue[p]]

RecForget ==
    /\ rpc' = "idle"
    /\ snap' = [p \in Posts |-> NoClue]
    /\ left' = {} /\ rpost' = Nothing /\ rverdict' = "hold"
    /\ resolved' = {} /\ flagged' = {}

RecApply ==
    /\ rpc = "entry" /\ left = {}
    /\ \/ clue' = Applied /\ NoFault
       \/ UNCHANGED clue /\ Fault("apply")
    /\ RecForget
    /\ UNCHANGED <<told, airtable, meta, slots, job>>

RecStep == RecLoad \/ RecDecide \/ RecCheck \/ RecWrite \/ RecAlert \/ RecApply

(***************************************************************************)
(* Meta, the clock, people and processes                                    *)
(***************************************************************************)
\* Meta publishes what it was asked to, also after the caller gave up.
Accept(p, a) ==
    /\ box[p][a] = "asked"
    /\ box' = [box EXCEPT ![p][a] = "published"]
    /\ UNCHANGED <<tries, airtable, ledger, slots, job, rec>> /\ NoFault

\* A container that will never be published: ERROR or EXPIRED.
Expire(p, a) ==
    /\ box[p][a] \in {"made", "asked"}
    /\ box' = [box EXCEPT ![p][a] = "expired"]
    /\ UNCHANGED <<tries, airtable, ledger, slots, job, rec>> /\ NoFault

SlotStarts ==
    /\ Gated # {} /\ due < MaxSlots
    /\ due' = due + 1
    /\ UNCHANGED <<slotFile, airtable, meta, ledger, job, rec>> /\ NoFault

Public(p) == {a \in Tries : box[p][a] = "published"}
Pending(p) == {a \in Tries : box[p][a] = "asked"}

\* A person who was told looks at the account and settles the post.
OpSettle(p) ==
    /\ p \in told /\ status[p] = "uploading"
    /\ ~AtWork(p) /\ Pending(p) = {}
    /\ Write(p, IF Public(p) # {} THEN "posted" ELSE "failed")
    /\ told' = told \ {p}
    /\ UNCHANGED <<clue, meta, slots, job, rec>> /\ NoFault

\* A person has a failed post tried again; "reopen_listed" stands for doing so
\* while the ledger still has an entry for the post, between two reconciler runs.
OpReopen(p) ==
    /\ status[p] = "failed" /\ tries[p] < MaxTries /\ ~AtWork(p)
    /\ clue[p].kind # "none" => "reopen_listed" \in FaultKinds /\ rpc = "idle"
    /\ Write(p, "ready")
    /\ UNCHANGED <<meta, ledger, slots, job, rec>> /\ NoFault

\* The launcher process dies; its jobs and the reconciler start afresh.
Crash ==
    /\ Ended(Jobs \ Tools)
    /\ RecForget
    /\ Fault("crash")
    /\ UNCHANGED <<airtable, meta, ledger, slots>>

World(p) ==
    \/ \E a \in Tries : Accept(p, a) \/ Expire(p, a)
    \/ OpSettle(p) \/ OpReopen(p)

Next ==
    \/ \E j \in Jobs : JobStep(j)
    \/ RecStep
    \/ \E p \in Posts : World(p)
    \/ SlotStarts
    \/ Crash

Spec == Init /\ [][Next]_vars

(***************************************************************************)
(* Fairness: a job that claimed a post goes on, the reconciler runs every    *)
(* few minutes, Meta makes up its mind, and a person who was told acts.      *)
(***************************************************************************)
Fairness ==
    /\ \A j \in Jobs : WF_vars(Publishing(j) /\ AtWork(post[j]))
    /\ WF_vars(RecStep)
    /\ \A p \in Posts :
          /\ \A a \in Tries : WF_vars(Accept(p, a) \/ (box[p][a] = "asked" /\ Expire(p, a)))
          /\ WF_vars(OpSettle(p))

FairSpec == Spec /\ Fairness

(***************************************************************************)
(* Properties                                                               *)
(***************************************************************************)
JobPc ==
    {"idle", "next", "gate", "consume", "make", "list", "ask", "answer", "isolate", "tell",
     "mark_posted", "mark_failed", "note_posted", "note_failed", "clear"}

\* Every variable has its type: the records and clues of main.py and of Airtable.
TypeOK ==
    /\ status \in [Posts -> {"ready", "uploading", "posted", "failed", "rejected"}]
    /\ tries \in [Posts -> 0..MaxTries]
    /\ box \in [Posts -> [Tries -> {"none", "made", "asked", "published", "expired"}]]
    /\ clue \in [Posts -> Clues] /\ told \subseteq Posts
    /\ due \in 0..MaxSlots /\ slotFile \in 0..MaxSlots
    /\ pc \in [Jobs -> JobPc]
    /\ batch \in [Jobs -> SUBSET Posts]
    /\ post \in [Jobs -> Posts \cup {Nothing}]
    /\ mine \in [Jobs -> 0..MaxTries]
    /\ seen \in [Jobs -> 0..MaxSlots] /\ allow \in [Jobs -> 0..MaxSlots]
    /\ used \in [Jobs -> BOOLEAN]
    /\ rpc \in {"idle", "entry", "check", "write", "alert"}
    /\ snap \in [Posts -> Clues] /\ left \subseteq Posts
    /\ rpost \in Posts \cup {Nothing}
    /\ rverdict \in {"hold", "posted", "failed"}
    /\ resolved \subseteq Posts /\ flagged \subseteq Posts
    /\ crashed \in BOOLEAN /\ faults \in 0..MaxFaults

Contract == INSTANCE PublishContract WITH
    copies <- [p \in Posts |-> Public(p)],
    verdict <- [p \in Posts |->
        CASE status[p] \in {"ready", "uploading"} -> "open"
          [] status[p] = "posted" -> "posted"
          [] OTHER -> "failed"]

\* The jobs, the reconciler and the people together keep the contract: a post
\* goes public at most once, never after a verdict, and the verdict that
\* mark_post_result writes, whoever calls it, agrees with Instagram.
ImplementsContract == Contract!Spec

MayBePublic(p) == Public(p) \cup Pending(p) # {}

\* A crash forgets a publication of publish_single; publish_carousel's in_flight
\* entry is made for this.
Remembered(p) == p \in Carousels \/ ~crashed

\* A post that may be public and that no job is at work on is in the ledger,
\* with that container, or a person was told of it (ERR-148: clues that were
\* only in the log left 21 posts uploading for two months).
ListedOrTold ==
    \A p \in Posts :
        Remembered(p) /\ status[p] = "uploading" /\ MayBePublic(p) /\ ~AtWork(p) =>
            \/ clue[p].kind # "none" /\ clue[p].try \in Public(p) \cup Pending(p)
            \/ p \in told

\* The account with post_hours has no more publications today than slots whose hour
\* has come (_poller_slot_allowed's promise), however often the process restarts and
\* whatever fails but the save of poller_slot_state.json: a run that cannot save a
\* claim loses it at its end, so with the fault "save" the promise is not kept.
DailyCap ==
    Cardinality({x \in Gated \X Tries : box[x[1]][x[2]] \in {"asked", "published"}}) <= due

\* A post is public at most once (claim_post_for_upload's docstring: the claim
\* is atomic and True means it was won).
PublishedOnce == \A p \in Posts : Cardinality(Public(p)) <= 1

\* A post that is marked failed is not public: what main.py:1421-1425 says of the
\* reconciler, that it writes only what can be proved.
FailedIsNotPublic == \A p \in Posts : status[p] = "failed" => ~MayBePublic(p)

\* A post that may be public, or has a clue in the ledger, leaves "uploading".
EventuallySettled ==
    \A p \in Posts :
        (status[p] = "uploading" /\ (MayBePublic(p) \/ clue[p].kind # "none"))
            ~> (status[p] # "uploading" \/ ~Remembered(p))
=============================================================================
