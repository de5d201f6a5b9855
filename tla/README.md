# A TLA+ model of the SNS automation program

The program runs Instagram, Threads and Facebook accounts of a small seller: it
crawls and writes content, publishes it, answers comments and direct messages, and
reports to Slack and Telegram. It is one Python process (`launcher/main.py`): an
APScheduler with some twenty jobs, a Flask thread for Meta's webhooks, a
retry-queue thread. Beside it stand a watchdog, a monitor, a few commands an operator
runs by hand and two Streamlit pages. Their state is spread over sqlite files, JSON files
and Airtable, and most of what can go wrong lies between two of them.

This directory holds TLA+ modules that model that coordination, TLC runs that check
them on small instances, and theorems that TLAPS proves for every instance.

## Inventory

| component | state | operations | hard because | module |
|---|---|---|---|---|
| comment event store | `comment_events`, `comment_dead_alerts` (sqlite) | claim with lease and token, fenced effect and record updates, dead marks | slow owners, reclaims, crashes between a send and its mark | `CommentEventInbox` |
| comment auto reply | `REPLY_LOCK`, mode flags | reply, Telegram notice, Airtable record of a comment | three effects with unknown outcomes, retries | `CommentEventInbox` |
| comment poller | cache file of handled ids | poll, process, cache | cached means never again | `CommentEventInbox`, `CampaignCutover` |
| comment safety guard | JSON files: budget, cooldown; breaker in memory | cooldown, budget, breaker | check, send and note are three steps | `PrivateReplies` |
| poll targets, baseline commands | `comment_poll_targets`, campaign file, modes | sync, apply, verify, activate | cutover without answering old comments | `CampaignCutover` |
| retry queue | `retry_queue` (sqlite) | enqueue, take due, back off, dead | a handler that ran but was not marked | with its handlers |
| dead monitors | alert rows | mark dead, alert once | crash between alert and mark | `CommentEventInbox`, `DirectMessages` |
| DM receiver, auto reply | event rows, slots, holds, AI pool | claim, record, reply by the account's mode | early acknowledgement, unknown sends | `DirectMessages` |
| DM follow-ups, orders, scores | `Lead_Interactions` in Airtable | follow up, convert, score, lose | five writers of one record without a condition | `LeadFollowUps` |
| publishing jobs | `instagram_posts`, `publish_outcome_pending.json`, slot state | claim, container, publish, mark, reconcile | outcome unknown after a timeout; several jobs, one ledger | `PublishPipeline` |
| content producer | Vault files, Sourcebook, producer lock, Airtable | build a package, upload, save, mark | a lock that outlives its holder, a save without an answer | `ContentProduction` |
| carousel text | none | write, check, rewrite | errors hidden behind errors | `CarouselText` |
| drawings | sketch pool, daily cap (sqlite) | draw, judge, take from the pool | producers of several accounts side by side | `NoteSketches` |
| reuse of posts | rows of `instagram_posts` | fill up each account | a host that fails while a round goes on | `ReusedPosts` |
| outbound engine | day file, local table, `Outbound_Actions`, `Prospect_Queue` | friend requests, follow, like, collect prospects | limits of the day across lost records | `FriendRequests`, `OutboundCalls` |
| review pages | `review_undo_batches` (sqlite), Airtable | submit, verify, recover, undo | a chunk of ten whose answer is lost | `ReviewBatches` |
| source export and its canary | `Source_Items`, `canary_runs` (sqlite), boot policy | crawl, export, canary under a write budget | two writers of a row, budget before the write | `SourceExport` |
| Facebook crawl | open-count file, `crawl_last_run` | open, read the page, save | three jobs write one file whole | `FacebookCrawl` |
| AdsPower health, heartbeat | two state files | tell of an outage once | a file lost between decision and note | `HealthAlerts` |
| start of the launcher | boot policy with its lock file, boot note | start, activate, record | launchers side by side | `RuntimeBoot` |
| CRM reports, metrics, dashboard, uploaders, helpers, tools | Airtable | fetch, render, aggregate | stateless or display | |

What makes them correct:

* **Comments.** A reply or notice goes out at most once; what was acknowledged is
  recorded or held by the queue; the row tells the truth; everything ends in a record or
  an alert; replies are decided one at a time, and stay within budget and cooldown.
* **Cutover.** No comment older than the baseline is answered once the post is active.
* **Direct messages.** One answer per message; the row is true; what stops half way is reported.
* **Leads.** Follow-ups only after an answered inquiry, in order, never to a buyer who ordered; no lead stays half way.
* **Publishing.** A post is published at most once; it is never left `uploading` with nobody to resolve it;
  the reconciler never overwrites what somebody else decided; a slot is used at most once a day.
* **Content.** One package, at most one post; one post waits at a time, and it can be published.
* **Outbound.** The limits of the day hold but for what a named number of lost records explains; a challenge stops the day.
* **Records.** "Committed" was read back; "exported" has a post; a canary sends no more than its budget.

`PROJECT.json` lists the components with their files and status, and the hazards
with their lines.

## Plan

Done: the modules of the table above, in this order: `CommentEventInbox` with its proofs,
`PublishPipeline` against `PublishContract`, `DirectMessages`, `LeadFollowUps`,
`ContentProduction`, then the parts with little state of their own.

Then the proofs, module by module, in the same order: `CommentEventInboxProofs` and
`CommentEventInboxDurability`, `PublishPipelineProofs`, `DirectMessagesProofs`, `LeadFollowUpsProofs`,
`ContentProductionProofs`, `RecordsProofs` (the parts of `MCRecords`), `PartsProofs` (the parts of `MCParts`).

Left: an abstract `CommentDelivery` that `CommentEventInbox` implements, as a refinement theorem.

Each module takes its sets and bounds as CONSTANTS with a named assumption, has one
action per operation, and declares no RECURSIVE operator, so that it can be proved about.

## What is proved and what is only checked

TLAPS proves, for every value of the constants that satisfies the named assumptions, every invariant and every action property
that a passing run checks, and that publishing implements its contract, step by step. Each proof has the same form: an
inductive invariant whose parts say what the code relies on between two of its steps, one lemma per action or group of actions, and a temporal
step at the end. Three theorems about publishing have hypotheses on the constants, stated where they are proved; no other theorem has any.

Proving found assumptions that a small instance had taken for granted, now part of the modules: the production of content
needs a first day (`ProductionAssumption`), the cutover a baseline with a time (`Last` of `CutoverAssumption`), and the parts at least
one rewriting (`MaxRounds`), one account that draws (`SketchAssumption`: with none and a cap of 0 the bound of the overshoot would be -1), one
failure before the breaker (`Breaker`), one watchdog (`MaxDogs`) and launchers whose names are not the two words of the lock file (`BootAssumption`).
The code has them all: the constants of the program are positive, some account draws, and a lock file holds an id.

Only model-checked:

* Liveness: `EveryCommentIsResolved`, `ReplyLockIsGranted`, `EventuallySettled`, `StoppedIsReported`, `FollowUpsEnd`,
  `BacklogIsSaved`. They rest on fairness and ENABLED, which this prover does not treat.
* The choice of the constants in the `.cfg` files says how much of each question the runs look at; the theorems above do not depend on it.

## How the runs are laid out

| run | modules | parts checked together |
|---|---|---|
| `inbox_safety`, `inbox_two_comments`, `inbox_liveness` | `CommentEventInbox` | the comment path, three instances |
| `publish_safety`, `publish_settles` | `PublishPipeline`, `PublishContract` | publishing, two instances |
| `dm_replies`, `dm_forgotten` | `DirectMessages` | direct messages |
| `leads` | `LeadFollowUps` | one lead |
| `content` | `ContentProduction` | the producer of one account |
| `friends_retry` | `FriendRequests` | what the job of the friend requests says of its next slot, against what it does |
| `parts` | `MCParts` | the text, the drawings, the reuse, the guard, the watchers, the boot, the friend requests, the calls |
| `records` | `MCRecords` | the review, the export, the Facebook crawl, the cutover |

`MCParts` and `MCRecords` choose one part at the start and let that part alone take steps: the parts share no
variable (but the switch of the account, which the friend requests and the calls both read), so interleaving them would only multiply states. Each part keeps its own Init, Next and properties; a property such as
`ExportIsSound` is the conjunction of the named parts that the module states one by one.

Deadlock is not checked in any run: deliveries, edits and faults are bounded and not forced, and a system
that has handled everything stops.

## CommentEventInbox

Models the comment path in *enforce* mode on campaign posts that are ACTIVE. One step is one
sqlite transaction, one file write or one network call; between two of them any other
thread may run, or the process may die.

| state | code |
|---|---|
| `status token lease effect air review task` | columns of `comment_events`; the uuid token is the number of claims so far, an absent row shows the defaults of an INSERT |
| `pc event held seen fx queued` | the locals of a thread inside `process_comment_event` |
| `lock` | `comment_safety_guard.REPLY_LOCK` |
| `todo fresh cached` | a cycle of `poll_new_comments`, the ids it will cache, the cache file |
| `taskEvent tries taskStatus` | rows of `retry_queue` |
| `rqPc rqTask`, `monPc monTask stored` | `RetryQueueWorker`, `check_dead_comment_tasks`, SENT rows of `comment_dead_alerts` |
| `records sent acked shown` | Airtable, deliveries, 200 answers, Slack |

| actions | code |
|---|---|
| `Claim ClaimRefused ExplainRefusal` | `try_claim` (insert or stale reclaim), the refusal and the second read that explains it |
| `ReadStatus` | `get_status` at the start of `_handle_comment_impl` |
| `TakeReplyLock GuardRefuses BeginEffect SendEffect SendEffectFails MarkDone MarkUnknown EffectFenced` | `_try_private_reply` under `REPLY_LOCK`, `_send_telegram_comment` |
| `RecordSettled FindLead FindLeadFails CreateLead CreateLeadFails CompleteRow Enqueue EnqueueFails HandOver GiveUp RecordFenced` | `_record_comment` |
| `PollBegin PollEnd` | the poller's cycle and `_save_cache` |
| `RqTake RqFind RqCreate RqFails RqComplete RqDone RqBackOff RqDie` | the queue's worker running `_retry_record_comment` |
| `MonitorVisit MonitorSend MonitorSendFails MonitorMarkSent` | the dead monitor |
| `LeaseExpires SweepStale Crash` | the clock, the manual `reclaim_stale`, a restart |

Abstractions. Comment texts are reduced to whether a reply is tried (`LeadEvents`). The guard's
reasons to refuse are one free choice (`PrivateReplies` looks inside). A lease is `live` or `expired`. A send or a creation that
fails may nevertheless have happened (a timeout). The webhook's payload holds one
comment; several comments of one payload are several calls, and a 503 for the payload is a
redelivery of all of them, which the model allows at any time. Meta redelivers at will, also what was
acknowledged. `find_by_retry_task_id` and `mark_dead` are one step, since
no thread replaces a task id that is set.

### Runs

| run | instance | shows |
|---|---|---|
| `inbox_safety` | 1 comment, 2 webhook threads and the poller, 2 tasks, 2 attempts, 3 faults | `TypeOK`, `AtMostOnce`, `AcceptedIsDurable`, `EffectEvidence`, `FinalRowIsTrue`, `SettledStays` |
| `inbox_two_comments` | 2 comments, 1 webhook thread and the poller, cache of 1, 2 faults | `AcceptedIsDurable`, `ReplySectionIsExclusive` |
| `inbox_liveness` | 1 comment, 1 webhook thread and the poller, 1 attempt, 3 faults | `EveryCommentIsResolved`, `ReplyLockIsGranted` under `FairSpec` |

Bounds. `MaxFaults` bounds failures of the environment: HTTP errors and timeouts, crashes,
leases that run out under a thread at work, manual sweeps. Three are enough for two
reclaims and a failure on top of them, and the deepest scenario found (a slow owner, a
reclaim, a failed creation, a task that dies) takes three. `TaskIds` bounds
the retry tasks of a behaviour: an enqueue needs a failed creation, hence a fault. `MaxCache`
is 1, so that two comments overflow it. Webhook threads, task ids and the two comments
are interchangeable, which the runs without liveness use as symmetry.

Fairness. Each thread keeps running, and each network call returns since every one of them
has a timeout; APScheduler keeps calling the poller and the monitor, and the monitor goes over all dead
tasks; a lease that nobody can complete runs out. No webhook is ever forced: the poller alone
must bring every comment home. A thread waiting for the
reply lock gets weak fairness only: another one can overtake it only with a new claim, and claims of
a row that is at work are bounded.

### Proofs

`CommentEventInboxProofs` and `CommentEventInboxDurability` prove, from `ConstantsAssumption` only, every safety
property the passing runs check, for any number of comments, threads, tasks and faults.

* `TypeCorrect`: `TypeOK` is not inductive by itself; `TypeInv` adds `JobInv`: which
  program points go with a comment or a task.
* `ReplyIsExclusive`: `LockInv`: the thread in the critical section is the holder of the lock.
* `SentAtMostOnce`, `EffectsAreEvidenced`: the heart of the argument, `FenceInv`.
  `TokenInv`: a thread's token was given out by its row, and no two threads on one comment share one.
  `OwnerInv`: the owner of a row finds an effect that still lies ahead of it untouched, and one it is at STARTED.
  `SendInv`: an effect that is about to be sent has not been sent, by anybody, and no two threads are about to send it; an
  untouched effect is in nobody's hands. `EvidenceInv` and `AirInv` relate the marks a thread is about to write to what it has done.
  A thread that has lost its row may still send, but nobody else will: the reclaim has made its effect
  UNKNOWN, which nobody starts again.
* `SettledIsFinal`: an action property from `FenceInv`.
* `NothingAcceptedIsLost`, `FinalRowsAreTrue`: `DurableInv`: a task once stored stays and names its comment;
  what the row says about its record (`RowInv`) and what was promised outside (`PromiseInv`) is backed
  by a record or a task. The proof first shows that tasks and records never go back (`StoredStays`) and then only looks at the steps that
  change a row or make a promise.

Frame lemmas (`BackgroundFrame`, `RecordFrame`, `EffectFrame`) say once what a kind of step leaves alone.

Only model-checked: the two liveness properties, as `tlapm` has no fairness reasoning that reaches them. The last section of the
module states three claims of comments and documents that the code does not keep (Known limits).

## PublishPipeline

Models how a ready post becomes public (`launcher/main.py`): the 5-minute poller, a slot job with carousels, the
pending ledger, the daily slot gate, and the reconciler, against Airtable, Meta, Slack and a person.
`PublishContract` states the promise without any of them: a post goes public at most once, while its verdict is
open, and the verdict agrees with what followers see. The refinement reads `copies` off the containers that are
published and `verdict` off `status` (`ready` and `uploading` are open, `rejected` counts as failed).

| state | code |
|---|---|
| `status` | `Instagram_Posts.post_status` |
| `tries box` | containers at Meta: one per claim; `asked` means `media_publish` was received and is undecided |
| `clue` | entries of `publish_outcome_pending.json`; `try` stands for `creation_id`, `ig_media_id` and `at` |
| `told` | posts of an urgent Slack message nobody has acted on |
| `slotFile due` | `poller_slot_state.json`, slots whose hour has come, within one day |
| `pc batch post mine seen allow used` | the locals of a run of `_job_insta_upload` or `_job_aijomoojin_scheduled_post` |
| `rpc snap left rpost rverdict resolved flagged` | the locals of `_job_publish_reconcile` |

| actions | code |
|---|---|
| `Fetch Skip Pick End Refuse Hold` | reading ready posts, holds, the slot gate, the content gate |
| `Claim ClaimRaises Consume` | `claim_post_for_upload`, `_save_poller_slot_state` |
| `Make MakeFails List WaitFails` | phases A of `publish_single` and `publish_carousel`, `on_parent_created`, `_wait_container_finished` |
| `Ask AnswerOk AnswerUnclear` | `_publish_ready_container` |
| `Isolate Tell Mark NoteUnrecorded Clear` | what the job does with the result |
| `RecLoad RecDecide RecCheck RecWrite RecAlert RecApply` | `_job_publish_reconcile` |
| `Accept Expire SlotStarts OpSettle OpReopen Crash` | Meta, the clock, a person, a restart |

Abstractions. The three attempts at a container are one: an abandoned container is never published.
A 4xx, a 5xx, a timeout and a 200 without an id are one unclear answer. A PATCH that raises may have been applied.
The age of 30 minutes is "the claim that wrote the entry is over", as the comment at `main.py:1427` intends; an older
claim's entry is aged also while a new claim is at work. A change of the ledger holds `BEGIN IMMEDIATE`, so it is one step.
Slot posts are of one account, gated posts of one account; Threads, off by default, is left out. A person acts only when no
job is at work on the post, and settles by what Instagram shows once Meta has decided.

| run | instance | shows |
|---|---|---|
| `publish_safety` | a carousel and a gated single post with the last slot of the day, or two gated posts with two slots; poller and slot job, 2 claims each, 2 faults | `TypeOK`, `ListedOrTold`, `DailyCap`, `ImplementsContract` |
| `publish_settles` | the carousel and one post, 1 claim each, Slack delivers | `EventuallySettled` under fairness (`MCFairSpec`) |

`Init` takes any set of posts as turned down earlier and any number of slots as used, since a launcher starts at any hour; `MCPublishPipeline` picks the
two scenarios above of it, as all three posts together are out of TLC's reach. The theorems are of `Spec` with its whole `Init`.

Bounds. Two claims let a failed post be tried again with the first container still around; two faults let a
lost answer meet a lost write, or either a crash. `FaultKinds` names what may fail. The passing runs leave out `note` (an entry
that cannot be written, with a lost Slack message on top, hides a post: see the hazards), `save` (a slot count that cannot be written) and `reopen_listed` (a person has a
failed post tried again although the ledger still lists it), and there is no tool
process in them: Known limits says what happens with each. So `DailyCap` is a statement about slot counts that can be saved. `ListedOrTold` and `EventuallySettled` are about a single post only while the launcher has not died, since
`publish_single` leaves nothing in the ledger before it publishes; for carousels they hold with crashes.

Fairness. A job that claimed a post goes on (every call has a timeout), the reconciler runs every 30 minutes,
Meta decides what it was asked, and a person who was told acts, which is what the message asks of them. No job is forced to fetch.

### Proofs

`PublishPipelineProofs` proves the three properties of the runs and what they rest on.

* `TypeCorrect`, from `TypeInv`: `MemoryInv` and `VerdictInv` add what a job and the reconciler remember at each of their steps.
* `CapHolds`: `DailyCap`. The count of the day is in the file, in the memory of the poller and in the containers that are asked for; `CapInv` ties the
  three, with room for the one that is about to be asked. Hypotheses: `OnePoller`, since two runs of the poller would each read the count of the other too early
  (APScheduler's `max_instances=1`), and that the slot file can be saved (`save` is not in `FaultKinds`; Known limits says what happens otherwise).
* `ContractHolds`: of all claims of a post only the last one may be public; a job and the reconciler never hold the same post; every verdict
  about to be written is true. The age of a ledger entry is what keeps the reconciler off a post at work. Hypotheses: `JobsAlone` (each job runs once at a time and no
  publishing tool runs by hand) and `LedgerIsHeeded` (nobody has a listed post tried again). Without the first `PublishedOnce` fails, without the second
  `FailedIsNotPublic` does: both behaviours are under Known limits.
* `PublishedOnceHolds`, `FailedIsNotPublicHolds`: the two properties of the contract, read off that invariant.
* `RefinesContract`: under the same hypotheses the initial states map to initial states of `PublishContract`, and each action to a publication, a verdict or a stutter.
* `ListedOrToldHolds`: a publication that nobody works on is in the ledger with its container or was told. It needs `OneWarningWorks`: not both the
  ledger and Slack fail, which is the pair that Known limits names.

`publish_safety` satisfies the hypotheses of the theorems about the properties it checks.

## DirectMessages

Models `modules/dm/dm_receiver.py` and `dm_auto_reply.py` for the messages of one buyer to one account: every guard (burst slot, hold, hand-over, lock)
is per account and buyer.

| state | code |
|---|---|
| `mode dedup` | `Account_Registry.reply_mode`, `DM_EVENT_DEDUP_ENABLED` |
| `row token lease reply` | the row of the message in `comment_events` and its effect |
| `pc msg held quiet` | a request thread inside `_process_webhook_event` and `handle_price_inquiry` |
| `slots hold handoff` | reserved reply slots, the UNKNOWN hold, the 24 hours after a hand-over to WhatsApp |
| `job aiLock permits` | jobs of `_AI_EXECUTOR`, the buyer's lock, `_AI_PENDING` |
| `taskKind taskMsg tries taskStatus aged`, `rqPc rqTask` | `retry_queue`, its worker; `aged` holds the tasks from before the last start |
| `deadAlert told` | `comment_dead_alerts`, what the operators were shown |
| `leads replies acked` | Airtable, deliveries, 200 answers |

| actions | code |
|---|---|
| `Claim Duplicate TakeUnclaimed Record QueueRecord CompleteQueued Complete` | `_claim_dm_event` to `_complete_dm_event` |
| `NoReply DispatchAi SkipBusy Reserve Release StartReply SendReply MarkReplied MarkDoubt QueueReply` | `handle_price_inquiry` by policy |
| `AiTake AiLock AiBegin AiGenerate AiSend AiMarkDone AiFailed AiEnqueue AiDoubt AiFinish` | `_ai_en_worker`, `_ai_en_process` |
| `RqTake RqCheck RqSend RqMarkDone RqFailed RqDoubt RqRecord RqEnd` | the queue with `_retry_send_ig_reply` and the record handler |
| `ReportStuck ReportDead` | `check_stuck_sending`, `check_dead_dm_tasks` |
| `LeaseExpires WindowEnds Restart` | the clock, a restart |

Abstractions. Which policy a text calls for is a free choice; alerts that are throttled change nothing the program reads. A send
that gets no answer, or a 5xx, may have gone out.

Run `dm_replies`: 2 messages, 2 requests, modes `ai_en` and `handoff_en`, one retry task with 2 attempts, pool of 2, 2 faults. With
one message no job would ever wait for the buyer's lock, and a third would repeat the second. Two faults let a lost answer meet a restart.
It shows `OneReplyPerMessage` (with deduplication on), `RowTellsTheTruth`, `AiJobsAreOrderly` and, under `FairSpec`, `StoppedIsReported`. Fairness: the pool's
threads, the queue's thread and the monitor's job go on; no request is forced.

Run `dm_forgotten`: `AckedIsKept` is violated (below).

### Proofs of `DirectMessages`

`DirectMessagesProofs` proves the four safety properties from the assumption on the constants alone.

* `RepliesHold` is the inductive invariant. A claim token is given out once, so at most one request completes the row of a message. From
  then on the answer is in one hand at a time: the request, the AI job or the one retry task. The row tells each of them how far the others came: a hand
  that may still send finds it SENDING with nothing sent, NOT_APPLICABLE means that no reply went out and DONE that one did.
* `OneReplyHolds`, `RowTruthHolds`, `AiJobsHold`, `TypeCorrect` are read off it. `AiJobsHold` also counts: the permits that are out are the jobs that have one to give back.

## LeadFollowUps

Models a record of `Lead_Interactions` and the five that write it: the webhook thread (score, order, reply, schedule), `process_due_followups`,
`process_lost_candidates`, the retry queue, a person. Each reads the record and later overwrites `bridge_status` without a condition.

| state | code |
|---|---|
| `status due grade account order` | `bridge_status`, `relay_scheduled_at` against the clock, `lead_grade`, `account_code_ref`, the kind of message |
| `pc` | the webhook thread after the record |
| `pollPc batch seen current`, `lostBatch` | the locals of the two jobs |
| `taskKind taskLead taskArg tries taskStatus`, `rqTask rqOk` | the retry queue and its worker |
| `answered sent` | what the buyer received |

Actions: `Score Record Convert Answer UpdateReplied Schedule` (webhook), `FetchDue PollSkip PollSend PollAdvance PollError` (follow-ups),
`LostFetch LostMark`, `RqRun RqEnd`, `TimePasses Close Restart`.

Abstractions. One lead suffices: the writers meet on one record, an aborted run over several leads is a fault at any of
them, and the other records of the buyer (a repeated inquiry) are a free choice. `lead_closer` has no caller in production; a person's close is `Close`.

Run `leads`: one lead, 2 tasks, 2 attempts, 3 faults. `FollowUpsInOrder`, `WritesAreKept`, and `FollowUpsEnd` under fairness of the follow-up job, which
APScheduler calls every five minutes, and of time. `LOST_DRY_RUN` is off, so that the loss writes.

### Proofs of `LeadFollowUps`

The record proves nothing by itself, since each of the five writers writes from what it read earlier. `LeadsHold` therefore says of every place
where a stage is remembered (record, snapshot of the job, batch of the lost candidates, task of the queue) that the stages before it went out and the buyer
was answered (`Ready`). `Ready` never becomes false, so no stale reader can be wrong about it. `FollowUpsAreInOrder` and `WritesAreKeptHolds` follow, for any number of leads, tasks and failures.

## ContentProduction

Models `_job_aijomoojin_content_producer` for one account: the lock without expiry, the look at what waits, the pending packages, topic, files, upload,
save and mark; the slot job that takes posts away; a second producer started by hand.

| state | code |
|---|---|
| `account day persona` | its settings and format, the date, the active persona |
| `vault` | the package of a `content_id`: frontmatter status, pictures on disk, persona, upload addresses |
| `posts` | records of `Instagram_Posts` of a `content_id` |
| `lock run` | `producer_lock`, the locals of each run |

Actions: `Start ReadStatus Scan Topic Write Upload Save Mark` (the run), `Claim Finish Reject` (slot job, person), `ForceRelease ChangePersona Midnight Crash`.

Abstractions. Generating a text with its pictures is one step that succeeds or leaves nothing (`CarouselText` and `NoteSketches` look inside), and it does not cross midnight. The
format of an account is fixed. An upload gives an address that is not in use. A save that is applied after the next run's look is not modelled. A carousel whose process dies
among its pictures has no text yet: its next attempt of the day ends in `DUPLICATE_CONTENT_ID`.

Run `content`: 2 processes, 2 sources, 2 days, 2 slides, 2 faults. `SavedOnce`, `WaitingIsPublishable`, `VaultIsTrue`; under `FairSpec` `BacklogIsSaved`. Fairness: the jobs
come round every day, the slot job publishes what waits, and a person removes the lock of a dead process, which the log asks for; until then nothing is produced, by design.

### Proofs of `ContentProduction`

`ProductionHolds`: only the holder of the lock is at work; nothing waits between a run's look and its save; a package in a run's hands was never saved, and the address it saves
is the one the Vault names (`RunOk`); a package in nobody's hands is whole or can be taken up again (`PackageOk`). A lock that a person takes from a dead process is
free of work, because its run ended with it. `SavedOnceHolds`, `WaitingIsPublishableHolds` and `VaultIsTrueHolds` follow. The module picks the last day and the first package with CHOOSE;
`LastNumber` and `FirstPair` show that there is one to pick.

## The parts of `MCParts`

| module | code | state and steps | property |
|---|---|---|---|
| `CarouselText` | `generate_carousel_content` | A text is the set of its defects; the contract reports the first one only, and a rewriting may bring new ones into its field: `Write Repair Scenes Review` | `TextIsSound`: a package is made of a text without defects; a skilled writer with no more different errors than rounds never fails the contract |
| `NoteSketches` | `_build_note_carousel_images`, `image_pool`, `image_provider_cloudflare` | Drawings of two accounts over the daily cap, the judge, the pool with its pruning and damaged files: `Begin Ask Drawn Take Judge Die NewDay` | `SketchesAreSound`: no account shows a sketch twice; whatever is shown was judged; the cap is passed by at most one drawing for each other producer |
| `ReusedPosts` | `reuse_replenisher` | Count, breaker, accounts, assets, with the poller publishing meanwhile: `CountReady Check Enter Try Break Poll Age Others` | `ReuseIsSound`: an account gets an asset once in its life; the targets hold; a broken host costs a bounded number of rows |
| `PrivateReplies` | `comment_safety_guard`, the section of `_try_private_reply` under `REPLY_LOCK` | Threads, both files, the breaker, a clock: `Passes Fenced Answered Failed Notes NoteFails Damaged Reborn Later CircuitCloses` | `RepliesAreRare`: the budget of a day holds whatever crashes; nobody gets two replies within a cooldown unless the first was never noted |
| `HealthAlerts` | `_job_adspower_health`, `heartbeat_monitor.py` | Two watchers with a state file each: `RunsWithState RunsWithout JobWrites JobBreaks AdsChanges Ticks WatchdogChanges` | `AlertsAreKept`: only changes are told, but for cut-short runs; an outage is told; a dead watchdog is told in time |
| `RuntimeBoot` | `watchdog.ps1`, `canary_safe_mode.py`, `record_boot_commit` | Launchers, boot policy, its lock file, the boot note: `DogStarts StartsByHand Records Locks Keeps Replaces Unlocks Imports Dies WritesPolicy Expires RemovesLock Commits` | `BootIsSound`: a policy is activated once; the note is true; a second launcher is a stray; modes agree |
| `FriendRequests` | `friend_daily_run`, `friend_request_canary`, the day file | `StartRun EnterGroup PassOver AskMember Confirmed NotConfirmed Checkpoint LeaveGroup EndRun Midnight Crash` | `FriendsAreSound`: confirmed requests of a day stay within the limit, but for a day's count per lost access; `CheckpointStopsTheDay`; and `NextSlotRetries`, which the job's docstring promises and the code does not keep (run `friends_retry`) |
| `OutboundCalls` | `follow_once`, `like_once`, `friend_in_group`, `crawl_prospects`, `outbound_rules.evaluate` | One kind of call per behaviour, its gates, click, local table and Airtable row; scores of prospects | `CallsAreSound`: follows and likes stay within the limit but for lost records; nobody is asked twice; a card is scored only if it speaks of another country |

Bounds (`parts.cfg`): two of everything that competes (accounts, threads, launchers, people, groups), one or two lost files or crashes.
For the reuse three assets, two ready posts for each account, three for all and a breaker at two: each of the promises is below what the six cells could hold, so that a missing target, a missing cap and a missing or late breaker each break one. `MaxSketches` is above the cap by the overshoot
that `CapOvershoot` allows; `LastTick` lets a cooldown and a day end; `MaxDogs` is 2, so that a launcher outlives a watchdog.

Abstractions. What a web page shows is a free choice: whether a click had effect, whether the page is a challenge. The contract's word limits and empty slides are one kind of
defect each. The trash of the pool and the files behind it are one step with the row. Assets without a hash and the note that an account's assets are used up are
left out of the reuse. Of the outbound engine `engagement_tracker`, `auto_liker`, the KPI functions and `_pick_first_eligible_member` are not modelled.

Properties with a count of faults. `FriendBudget`, `CallBudget`, `ClickedOnce`, `OnlyChangesAreTold` and `CapOvershoot` say how much each lost record costs. The
code cannot promise more, since a read that fails is taken for an empty file and a record that fails is only logged; what they rule out is that one loss costs more than
itself, or that something is exceeded without any.

### Proofs of the parts

`PartsProofs` proves, of the specification of each part, the property that the run `parts` checks of it.

* `RepliesAreRareHolds`. One thread is at work under `REPLY_LOCK`; the file of the day is never behind what was begun; a reply that nobody noted belongs to a
  user of whom the property says so, or to the thread that is about to note it.
* `AlertsAreKeptHolds`. What the job believes is what it is about to write, or its file. A message that repeats the last one needs a belief that is wrong (`Wrong`), and each wrong
  belief was paid with a mishap; the silence about a dead watchdog is bounded by the age of its log or of the last alarm, and by the monitor's missed runs.
* `TextIsSoundHolds`. A skilled writer takes one kind of error away with each rewriting, so the kinds left and the rewritings so far are no more than the kinds of the first answer.
* `BootIsSoundHolds`. One launcher is inside the lock; a policy that was armed and read there is not yet active; a launcher under whose eyes no policy was written holds, chooses and works with the mode the policy has now (`Settled`).
* `ReuseIsSoundHolds`. The run has counted once, so the number of ready posts is not what it believes. What is ready is bounded by what it counted and made; what may still fail
  by the places (an account and a number within its target) the run has not gone past.
* `CallsAreSoundHolds`. What was clicked today is recorded, or is the click of the call under way, or cost a fault (`BudgetOfCalls`); the same of each person and the local table
  (`ClicksInv`). `ScoredSpeaksOfAbroad` does the arithmetic of a card: without a word of another country at most 56 points, within the band of doubt.
* `FriendsAreSoundHolds`. `FriendBudget` is not inductive: the count is read before the click and written after it, and midnight, a crash or a file that cannot be read may come
  in between. `CountInv` says that the file is behind what was sent by what was lost only, `RoomInv` that a click under way still has its room.
* `ChallengeStops`. `StopInv`: on a day that was stopped, and until an access to the day file fails, no run is on and the file keeps the next from starting. The docstring of the job and its message
  say the opposite, that the next slot tries again: run `friends_retry` shows the disagreement, which is a finding.
* `SketchesAreSoundHolds`. "Nobody shows a sketch twice" is not inductive: it rests on who knows of what. A drawing that is not judged yet is known to its account only
  (`NewInv`), whoever has shown or holds a sketch of the pool is recorded as its user (`UseInv`), so what `Take` finds unused is new to its taker and already judged. `OneDraws` proves it once
  for any step of one account; `WithoutOne`, `OneLess`, `TwoParts` and `NewestIs` say what the pool keeps when a file is dropped, sketches are saved and the oldest go. The cap is
  `CapOfDay`: what was made and what is asked for stay together within the overshoot.

## The parts of `MCRecords`

| module | code | state and steps | property |
|---|---|---|---|
| `ReviewBatches` | `review_grid_ui`, `review_batch_committer`, `undo_state_store` | Sessions of the page, batches on file, chunks whose answer may be lost with any part written: `Submit SaveChunk Recheck VerifyChunk FinishSave Recover FinishRecovery Undo FinishUndo Restart` | `ReviewIsSound`: committed batches were read back, failed ones were refused or seen wrong, nothing written is without a batch |
| `SourceExport` | `_job_dome_crawl`, `source_exporter`, `canary_execution_guard` | The crawl, the export with stale recovery and retries, the canary with its budget, the boot policy: `CrawlItem CrawlSave CrawlTouch ExportStart ExportClaim ExportCheck ExportMake ExportPost ExportDone ExportRetry CanaryBegin CanaryClaim CanaryPost CanaryFinish CanaryReject CanaryEnd CanaryDies TurnPolicy Reboot` | `ExportIsSound`: exported items have a post; the canary keeps its budget; a completed canary left its draft; items of other accounts are left alone |
| `FacebookCrawl` | `_job_fb_crawl`, `facebook_crawler` | The crawl, the training crawl and the friend requests share the file of opens; pictures meet under several addresses: `CrawlStart TrainStart FriendStart Open ReadFile AddOpen Block NextPicture Find SavePost SaveCandidate DropPicture Breaks Close` | `CrawlIsSound`: a picture is posted once and is a candidate once; the file is never ahead of what happened; a route left out was crawled to its end |
| `CampaignCutover` | `comment_poll_targets`, `comment_campaign_baseline_cli`, the modes and gates at the entry of `process_comment_event` | One campaign post: polling and webhook in every mode, edits of the file and the modes, the commands with every step they may die after | `CutoverIsSound`: the comments of the baseline stay quiet once the post is active, unless the file changes while one is between the two reads of it; each has a row no claim takes up again; the mark of an alert is of this streak |

Bounds (`records.cfg`): three candidates in chunks of two (one chunk full, one not), two batches, one tab (several in the module), two faults; one item with its budget of two patches and
one post, two breaks, two turns of the policy; one route and one picture under two addresses, a ceiling of one with two opens, two days; two comments, two other campaign lists, four commands, two edits.

Abstractions. The requests for one item end before half an hour is over, so that a stale claim is not the one at work. Midnight does not fall between an open and its note. An operator does not
take the modes back while a post is active. The campaign file may change at any time, also between the gate and `is_campaign_post`; the comment that this sends to the old path is the one exception in `OldStaysQuiet`
(`torn` marks it), and Known limits says what happens to it. The cutover is any time, also a future one. A comment that is being handled is through before the next command, which takes minutes.

### Proofs of the records

`RecordsProofs` proves the property of each part of `MCRecords` from the assumption of its module.

* `ExportIsSoundHolds`. A row says EXPORTED only by the hand of one who has just seen or made a post, and no post is taken away again; the canary's budget is written
  before the request, so what was sent is never more than what is counted.
* `ReviewIsSoundHolds`. A job carries its batch's decisions unchanged; what it has read so far is true of what it saw, its verdict rests on these reads, and every value that may reach
  Airtable is in a batch on file.
* `CutoverIsSoundHolds`. Once the baseline is verified its comments are settled for good, since no claim takes their rows up again; while the post is active both modes are
  those of the campaign, and nobody who has passed the gate is at work on a comment of the baseline but one under whom the file has changed (`Heeds`, `TornIs`).
* `CrawlIsSoundHolds`. Each open that is not noted yet is owed its place in the count (`Owed`), in the file and in what a job has read of it and is about to write back; so notes may be overwritten,
  but the file never says more opens than there were. A job that saves a picture has seen that none of its addresses is known.

## Known limits of the code

What the models show the code not to keep. For each, what a document promises is in `PROJECT.json`'s findings if there is such a
promise. Where a module states the property, TLC finds the behaviour if the property is added to the run named.

* **`AckedIsKept`** (run `dm_forgotten`). A process that dies between the claim of a message and its record leaves a row at work under a live lease; Meta's redelivery
  within a minute is answered 200 as a duplicate, and no other follows. The message is neither in Airtable nor in the queue.
* **`EveryCommentSettles`** (`inbox_liveness`, 2 faults). The retry task is enqueued before the row is marked RETRY_PENDING (`comment_auto_reply.py:302`, `:310`). If
  the queue runs it in between, its completion finds no RETRY_PENDING row; the row is then marked and stays PROCESSING for ever. Only the row is wrong: the record exists.
* **`NoDuplicateRecord`** (`inbox_safety`). Lookup and creation of the Airtable record are two calls (`comment_auto_reply.py:242-255`), which two owners may interleave.
* **`OpenEffectIsIsolated`** (`inbox_safety`). A RETRY_PENDING row can be reclaimed, and its new owner be sending when the queue completes it; if the owner dies then, the effect
  stays STARTED, as a reclaim only visits PROCESSING rows. Nothing is sent twice, but nobody is asked to look at it.
* **`PublishedOnce`** (`publish_safety` with `SPECIFICATION Spec`, `Posts = {c1}`, `Gated = {}`, `SlotJobs = {slot, poller}`, `Tools = {poller}`, no faults: `poller` stands for the tool). The claim does not look at the status and
  the publishing job takes no lock, so a slot job and the manual tool can publish the same post.
* **`FailedIsNotPublic`** (`FaultKinds` with `reopen_listed`: a person has a failed post tried again although the ledger still lists it). Entries are per post, not per attempt, so the reconciler may judge a new attempt by an old container.
* **`DailyCap`** (`publish_safety` with `save` in `FaultKinds`). After a failed save the count is lost with the run's local variable (`main.py:1031`), and the next run, five minutes later, publishes into the same slot.
  The log text says that duplicates are still blocked within this process (`main.py:1034`, 이번 프로세스 내 중복만 차단됨); the variable belongs to one run of the job, so they are blocked within that run only.
* **`NextSlotRetries`** (run `friends_retry`, a finding). After a challenge the day file is marked blocked and every run of the day ends at once; the docstring and the Slack message of the job
  (`main.py:2674-2675`, `:2753-2755`) announce an automatic retry in the next slot.
* **`OldStaysQuiet`** without its exception (`records`, `slipped` left out of `Answers`). The campaign file is read at the gate (`comment_auto_reply.py:695`) and again in `is_campaign_post` (`:705`). If the post is taken out in between, or the
  file cannot be read for a moment, an old comment of an active post goes to `handle_comment` (`:707`) and is answered, past its suppressed row.
* A cutover in the future is accepted (`comment_campaign_baseline_cli.py:204-209`). Comments written after `apply` and `verify` and before that time are in no baseline and have no suppressed row, so they are answered once the post is
  active. `OldStaysQuiet` speaks of the baseline's comments; said of all comments before the cutover it would not hold.
* A ledger entry that cannot be written, with a lost Slack message on top, hides a post (`note` in `FaultKinds`); a lost message of the reconciler leaves an entry marked alerted (`slack`, for `EventuallySettled`).
* The daily limit of `friend_in_group` never closes: it counts rows whose `relationship_status` is `requested` (`airtable_repository.py:1576`), and the row is written without that column (`outbound_connector.py:1853-1861`).
* The first follow-up may go out twice: the reply sets the status (`airtable_repository.py:1851`) before it sets the time, and the job that finds the old time in between sends at once (`dm_followup_scheduler.py:183-190`). `FollowUpsInOrder` says nothing of the number.
* The text of a single post is put in place before its picture (`content_package_builder.py:905`): a process that dies between the two leaves a pending package that every later run takes up first. `BacklogIsSaved` counts it as one a person must repair.
* A second post of one item after a lost answer: the save's key is a hash of the address (`source_exporter.py:215`) while the post carries another one (`:263`), so the duplicate check does not find it.
* The undo button may undo a batch that is not the newest one after a failed mark.
* The open ceiling of the crawl may be passed by as many opens as notes were overwritten, which the code accepts (`facebook_crawler.py:67-70`).
* `max_per_run` of the friend requests is counted from the day's count: over midnight a run may send more.
* A retry of a reply does not look at the hold of the buyer (`dm_auto_reply.py:149-153`).

## Not modelled

Prompts and parsing of language models, text and image filters, page parsing, Graph API payloads, rendering, wording and logging are pure functions of their
input or descriptions of a web page; the models choose their outcome freely. `publish_ledger.py` and `aijomoojin_scheduled_publish_job.py` have no caller in
the launcher. Threads publishing, off by default, is left out. The dashboards, reports and metrics read what other parts own. The tools and
migrations are scripts that run once. Methods of the Airtable repository that only these call are left out with them. The component list of `PROJECT.json` gives the reason for each.

