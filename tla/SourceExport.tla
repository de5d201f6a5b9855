----------------------------- MODULE SourceExport ------------------------------
(***************************************************************************)
(* Products on their way from the crawl of Domeggook (_job_dome_crawl)     *)
(* through Source_Items to a post (source_exporter), and the controlled    *)
(* canary that takes one approved item there under the budget of           *)
(* canary_execution_guard.  The crawl, the export and the runner of the    *)
(* canary work side by side; the launcher runs one of each job at a time.  *)
(* A request without an answer may have been applied or not.  The requests *)
(* of one item end within their timeouts, before half an hour is over.     *)
(***************************************************************************)
EXTENDS Integers, FiniteSets

CONSTANTS
    Items,        \* products of the source
    NoItem,       \* none of them
    Approved,     \* the one item of the canary
    MaxFailures,  \* export_retry_count at which an item is FAILED
    PatchBudget,  \* SOURCE_ITEM_PATCH of CanaryWriteBudget.for_dome
    PostBudget,   \* INSTAGRAM_POST_CREATE of CanaryWriteBudget.for_dome
    MaxBreaks,    \* bound: requests without an answer, dead processes
    MaxTurns      \* bound: changes of the boot policy

ASSUME ExportAssumption ==
    /\ IsFiniteSet(Items) /\ Approved \in Items /\ NoItem \notin Items
    /\ MaxFailures \in Nat \ {0} /\ PatchBudget \in Nat /\ PostBudget \in Nat
    /\ MaxBreaks \in Nat /\ MaxTurns \in Nat

VARIABLES
    source,   \* rows of Source_Items
    made,     \* posts of each item: ready ones of the export, drafts of the canary
    crawl,    \* the crawl job: what it does with which item
    export,   \* the export job; read: the counts of retries it fetched with its items
    canary,   \* the process of the canary
    run,      \* the row of canary_runs, and what it has counted
    policy,   \* mode of the boot policy file, and the one the launcher started with
    sent,     \* ghost: requests the canary has sent
    breaks

exportVars == <<source, made, crawl, export, canary, run, policy, sent, breaks>>

Break == breaks < MaxBreaks /\ breaks' = breaks + 1
Fine  == UNCHANGED breaks

NoRow == [status |-> "none", retries |-> 0, wait |-> FALSE, old |-> FALSE, account |-> "none"]
CrawlIdle  == [at |-> "idle", item |-> NoItem]
ExportIdle == [at |-> "idle", item |-> NoItem, batch |-> {}, read |-> [i \in Items |-> 0]]
CanaryIdle == [at |-> "idle", begun |-> FALSE]

\* A PATCH of row i: answered, or cut off before or after it was applied.
Patch(i, row, then, otherwise) ==
    \/ source' = [source EXCEPT ![i] = row] /\ Fine /\ then
    \/ source' \in {source, [source EXCEPT ![i] = row]} /\ Break /\ otherwise

-----------------------------------------------------------------------------
(* The crawl: what has no row yet gets one, and its state once more.       *)

CrawlItem(i) ==
    /\ crawl.at = "idle" /\ policy.booted = "production"
    /\ source[i].status = "none"                              \* find_source_item_by_hash
    /\ crawl' = [at |-> "save", item |-> i]
    /\ UNCHANGED <<source, made, export, canary, run, policy, sent, breaks>>

CrawlSave ==
    LET i == crawl.item IN
    /\ crawl.at = "save"
    /\ Patch(i, [NoRow EXCEPT !.status = "NEW"],
             crawl' = [crawl EXCEPT !.at = "touch"], crawl' = CrawlIdle)
    /\ UNCHANGED <<made, export, canary, run, policy, sent>>

CrawlTouch ==
    /\ crawl.at = "touch"
    /\ Patch(crawl.item, [source[crawl.item] EXCEPT !.status = "NEW"],
             crawl' = CrawlIdle, crawl' = CrawlIdle)
    /\ UNCHANGED <<made, export, canary, run, policy, sent>>

-----------------------------------------------------------------------------
(* The export.                                                             *)

\* recover_stale_queued_source_items: a row whose PATCH fails is left out.
Unstuck(left) == [i \in Items |-> IF source[i].status = "QUEUED" /\ source[i].old /\ i \notin left
                                  THEN [source[i] EXCEPT !.status = "NEW"] ELSE source[i]]

Due(rows) == {i \in Items : rows[i].status = "NEW" /\ ~rows[i].wait}

ExportStart ==
    /\ export.at = "idle" /\ policy.booted = "production" /\ policy.mode = "production"
    /\ \E left \in SUBSET Items :
          /\ IF left = {} THEN Fine ELSE Break
          /\ left \subseteq {i \in Items : source[i].status = "QUEUED" /\ source[i].old}
          /\ source' = Unstuck(left)
    /\ Due(source') # {}
    /\ export' = [ExportIdle EXCEPT !.at = "next", !.batch = Due(source'),
                                    !.read = [i \in Items |-> source'[i].retries]]
    /\ UNCHANGED <<made, crawl, canary, run, policy, sent>>

NextItem == export' = [export EXCEPT !.at = IF export.batch = {} THEN "idle" ELSE "next",
                                     !.item = NoItem]

\* claim_source_item_for_export: the state it finds is not asked for.
Claimed(i) == [source[i] EXCEPT !.status = "QUEUED", !.old = FALSE, !.account = "own"]

ExportClaim(i) ==
    LET rest == export.batch \ {i}
        passed == [export EXCEPT !.batch = rest, !.at = IF rest = {} THEN "idle" ELSE "next"]
    IN  /\ export.at = "next" /\ i \in export.batch
        /\ \/ source[i].account = "other" /\ export' = passed /\ UNCHANGED <<source, breaks>>
           \/ /\ source[i].account # "other"
              /\ Patch(i, Claimed(i), export' = [passed EXCEPT !.at = "check", !.item = i],
                       export' = passed)
        /\ UNCHANGED <<made, crawl, canary, run, policy, sent>>

\* exists_post_by_image_url asks for the hash of the address.  A post of the
\* export carries the hash of the picture's bytes, the draft of the canary that
\* of the address that was approved for it, which need not be the item's.
Found(i) == made[i].draft > 0

Exported(i) == [source[i] EXCEPT !.status = "EXPORTED"]

ExportCheck ==
    LET i == export.item IN
    /\ export.at = "check"
    /\ \/ export' = [export EXCEPT !.at = "make"] /\ UNCHANGED <<source, breaks>>
       \/ Found(i) /\ Patch(i, Exported(i), NextItem, NextItem)
       \/ Break /\ NextItem /\ UNCHANGED source
    /\ UNCHANGED <<made, crawl, canary, run, policy, sent>>

\* update_source_item_retry, from the count of the fetch; an exception of it ends the job.
Delayed(i) ==
    LET n == export.read[i] + 1
    IN  [source[i] EXCEPT !.retries = n, !.wait = TRUE,
                          !.status = IF n >= MaxFailures THEN "FAILED" ELSE "NEW"]

ExportRetry ==
    /\ export.at = "retry"
    /\ Patch(export.item, Delayed(export.item), NextItem, export' = ExportIdle)
    /\ UNCHANGED <<made, crawl, canary, run, policy, sent>>

\* Mutant: the item is called exported before its post is there.
ExportMake_DoneFirst ==
    /\ export.at = "make"
    /\ export' = [export EXCEPT !.at = "post"]
    /\ source' = [source EXCEPT ![export.item] = Exported(export.item)]
    /\ UNCHANGED <<made, crawl, canary, run, policy, sent, breaks>>

\* The caption and the hosted picture.
ExportMake ==
    /\ export.at = "make"
    /\ \E at \in {"post", "retry"} : export' = [export EXCEPT !.at = at]
    /\ UNCHANGED <<source, made, crawl, canary, run, policy, sent, breaks>>

\* save_instagram_post: the classification is checked against the policy once more.
ExportPost ==
    LET i == export.item
        more == [made EXCEPT ![i].ready = @ + 1]
    IN  /\ export.at = "post"
        /\ \/ /\ policy.mode = "production" /\ made' = more
              /\ export' = [export EXCEPT !.at = "done"] /\ Fine
           \/ /\ policy.mode = "production" /\ made' \in {made, more}
              /\ export' = [export EXCEPT !.at = "retry"] /\ Break
           \/ /\ policy.mode # "production" /\ UNCHANGED made
              /\ export' = [export EXCEPT !.at = "retry"] /\ Fine
        /\ UNCHANGED <<source, crawl, canary, run, policy, sent>>

ExportDone ==
    /\ export.at = "done"
    /\ Patch(export.item, Exported(export.item), NextItem, NextItem)
    /\ UNCHANGED <<made, crawl, canary, run, policy, sent>>

\* Half an hour after the claim; the time of the next attempt.
Ages(i) ==
    /\ source[i].status = "QUEUED" /\ ~source[i].old
    /\ export.item # i /\ crawl.item # i
    /\ i = Approved => canary.at = "idle"
    /\ source' = [source EXCEPT ![i].old = TRUE]
    /\ UNCHANGED <<made, crawl, export, canary, run, policy, sent, breaks>>

ComesDue(i) ==
    /\ source[i].wait /\ export.item # i /\ crawl.item # i
    /\ source' = [source EXCEPT ![i].wait = FALSE]
    /\ UNCHANGED <<made, crawl, export, canary, run, policy, sent, breaks>>

-----------------------------------------------------------------------------
(* The canary: the guard counts a request before it is sent.               *)

Live == policy.mode = "safe"

CanaryBegin ==
    /\ canary.at = "idle" /\ ~canary.begun /\ Live
    /\ run.status = "none"                                    \* a run ID is never used again
    /\ run' = [run EXCEPT !.status = "RUNNING"]
    /\ canary' = [canary EXCEPT !.begun = TRUE]
    /\ UNCHANGED <<source, made, crawl, export, policy, sent, breaks>>

MayWrite == Live /\ canary.begun /\ run.status = "RUNNING"
MayPatch == MayWrite /\ run.patches < PatchBudget
MayPost  == MayWrite /\ run.posts < PostBudget

CanaryStart ==
    /\ canary.at = "idle" /\ Live
    /\ source[Approved].status = "NEW" /\ source[Approved].account # "other"
    /\ ~Found(Approved)
    /\ canary' = [canary EXCEPT !.at = "claim"]
    /\ UNCHANGED <<source, made, crawl, export, run, policy, sent, breaks>>

\* A PATCH the guard allows, with what follows an answer and what follows none.
CanaryPatch(row, then, otherwise) ==
    /\ MayPatch
    /\ run' = [run EXCEPT !.patches = @ + 1] /\ sent' = [sent EXCEPT !.patches = @ + 1]
    /\ \/ /\ source' = [source EXCEPT ![Approved] = row] /\ Fine
          /\ canary' = [canary EXCEPT !.at = then]
       \/ /\ source' \in {source, [source EXCEPT ![Approved] = row]} /\ Break
          /\ canary' = [canary EXCEPT !.at = otherwise]

CanaryDenied(then) ==
    /\ canary' = [canary EXCEPT !.at = then]
    /\ UNCHANGED <<source, run, sent, breaks>>

CanaryClaim ==
    /\ canary.at = "claim"
    /\ \/ CanaryPatch(Claimed(Approved), "post", "reject")
       \/ ~MayPatch /\ CanaryDenied("failed")
    /\ UNCHANGED <<made, crawl, export, policy>>

CanaryPost ==
    LET more == [made EXCEPT ![Approved].draft = @ + 1] IN
    /\ canary.at = "post"
    /\ \/ /\ MayPost
          /\ run' = [run EXCEPT !.posts = @ + 1] /\ sent' = [sent EXCEPT !.posts = @ + 1]
          /\ \/ made' = more /\ Fine /\ canary' = [canary EXCEPT !.at = "finish"]
             \/ made' \in {made, more} /\ Break /\ canary' = [canary EXCEPT !.at = "reject"]
          /\ UNCHANGED source
       \/ ~MayPost /\ CanaryDenied("reject") /\ UNCHANGED made
    /\ UNCHANGED <<crawl, export, policy>>

CanaryFinish ==
    /\ canary.at = "finish"
    /\ \/ CanaryPatch(Exported(Approved), "passed", "failed")
       \/ ~MayPatch /\ CanaryDenied("reject")
    /\ UNCHANGED <<made, crawl, export, policy>>

CanaryReject ==
    /\ canary.at = "reject"
    /\ \/ CanaryPatch([source[Approved] EXCEPT !.status = "REJECTED"], "failed", "failed")
       \/ ~MayPatch /\ CanaryDenied("failed")
    /\ UNCHANGED <<made, crawl, export, policy>>

\* The runner closes the run; outside its time it cannot.
CanaryEnd ==
    /\ canary.at \in {"passed", "failed"}
    /\ run' = IF MayWrite
              THEN [run EXCEPT !.status = IF canary.at = "passed" THEN "COMPLETED" ELSE "FAILED"]
              ELSE run
    /\ canary' = [canary EXCEPT !.at = "idle"]
    /\ UNCHANGED <<source, made, crawl, export, policy, sent, breaks>>

CanaryDies ==
    /\ canary # CanaryIdle /\ Break /\ canary' = CanaryIdle
    /\ UNCHANGED <<source, made, crawl, export, run, policy, sent>>

-----------------------------------------------------------------------------

\* The operator replaces the policy file, or its time is over.
TurnPolicy(m) ==
    /\ policy.turns < MaxTurns /\ m # policy.mode
    /\ policy' = [policy EXCEPT !.mode = m, !.turns = @ + 1]
    /\ UNCHANGED <<source, made, crawl, export, canary, run, sent, breaks>>

\* The launcher starts again; without a valid policy it does not come up.
Reboot ==
    /\ Break /\ policy' = [policy EXCEPT !.booted = policy.mode]
    /\ crawl' = CrawlIdle /\ export' = ExportIdle
    /\ UNCHANGED <<source, made, canary, run, sent>>

\* Rows from before may belong to another account.
ExportInit ==
    /\ source \in [Items -> {NoRow, [NoRow EXCEPT !.status = "NEW", !.account = "other"]}]
    /\ made = [i \in Items |-> [ready |-> 0, draft |-> 0]]
    /\ crawl = CrawlIdle /\ export = ExportIdle /\ canary = CanaryIdle
    /\ run = [status |-> "none", patches |-> 0, posts |-> 0]
    /\ policy = [mode |-> "production", booted |-> "production", turns |-> 0]
    /\ sent = [patches |-> 0, posts |-> 0] /\ breaks = 0

ExportNext ==
    \/ \E i \in Items : CrawlItem(i) \/ ExportClaim(i) \/ Ages(i) \/ ComesDue(i)
    \/ CrawlSave \/ CrawlTouch
    \/ ExportStart \/ ExportCheck \/ ExportMake \/ ExportRetry
    \/ ExportPost \/ ExportDone
    \/ CanaryBegin \/ CanaryStart \/ CanaryClaim \/ CanaryPost \/ CanaryFinish
    \/ CanaryReject \/ CanaryEnd \/ CanaryDies
    \/ \E m \in {"production", "safe", "expired"} : TurnPolicy(m)
    \/ Reboot

ExportSpec == ExportInit /\ [][ExportNext]_exportVars

-----------------------------------------------------------------------------

\* The types of the variables.
ExportTypeOK ==
    /\ \A i \in Items :
          /\ source[i].status \in {"none", "NEW", "QUEUED", "EXPORTED", "FAILED", "REJECTED"}
          /\ source[i].account \in {"none", "own", "other"}
    /\ crawl.at \in {"idle", "save", "touch"}
    /\ export.at \in {"idle", "next", "check", "make", "retry", "post", "done"}
    /\ run.status \in {"none", "RUNNING", "COMPLETED", "FAILED"}

\* An item is called exported only when a post of it exists: no lost answer, no
\* second writer of its row and no duplicate check lets one vanish.
ExportedHasPost ==
    \A i \in Items : source[i].status = "EXPORTED" => made[i].ready + made[i].draft > 0

\* The canary sends no more requests than its budget, however often its process
\* dies, is started again or finds the time of its policy over.
CanaryKeepsBudget == sent.patches <= PatchBudget /\ sent.posts <= PostBudget

\* A canary that is closed as completed has left its draft.
CompletedHasDraft == run.status = "COMPLETED" => made[Approved].draft > 0

\* An item of another account is never posted for this one.
OthersAreLeft ==
    \A i \in Items : source[i].account = "other" => made[i].ready + made[i].draft = 0

\* The way of an item keeps its word, part by part as above.
ExportIsSound ==
    /\ ExportTypeOK /\ ExportedHasPost /\ CanaryKeepsBudget /\ CompletedHasDraft /\ OthersAreLeft

=============================================================================
