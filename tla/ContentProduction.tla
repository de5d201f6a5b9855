-------------------------- MODULE ContentProduction --------------------------
(***************************************************************************)
(* How one content account gets its next post (_job_aijomoojin_content_    *)
(* producer): under a lock without expiry, a run looks whether a post is   *)
(* already waiting, takes up a package of the Vault that was never saved   *)
(* or builds a new one out of the Sourcebook or of the news, uploads its   *)
(* pictures, saves the post in Airtable and only then marks the package.   *)
(* The slot job publishes what is saved.                                   *)
(*                                                                         *)
(* The scheduled job and a manual run are two processes; a process may die *)
(* between any two steps, and its lock stays until a person removes it.    *)
(* A package is named by its source and its day, as content_id is.         *)
(* Generation is one step that succeeds or fails: it leaves nothing behind *)
(* (NoteSketches looks inside).  Nobody's generation crosses midnight.     *)
(***************************************************************************)
EXTENDS Integers, FiniteSets

CONSTANTS
    Runs,       \* processes that run the producer: the scheduler, a manual run
    NoRun,      \* no process
    Sources,    \* sources of the Sourcebook, numbered in its order
    Days,       \* bound: days looked at, 1..n
    Slides,     \* AIJOMOOJIN_CAROUSEL_SLIDE_COUNT
    MaxFaults   \* bound: failures and crashes in one behaviour

ASSUME ProductionAssumption ==
    /\ NoRun \notin Runs
    /\ Sources \subseteq Nat \ {0} /\ IsFiniteSet(Sources)
    /\ Days \subseteq Nat \ {0} /\ IsFiniteSet(Days) /\ 1 \in Days
    /\ Slides \in Nat \ {0, 1}
    /\ MaxFaults \in Nat

VARIABLES
    account,   \* its settings: an account of its own Vault or the first one, and the format
    day,
    persona,   \* persona_code of the active persona in Airtable
    vault,     \* the package of each content_id
    posts,     \* the records of Instagram_Posts of each content_id
    lock,      \* producer_lock: the process whose token it holds
    run,       \* what each process is doing
    faults

vars == <<account, day, persona, vault, posts, lock, run, faults>>

News     == 0                                  \* a page found in the news feeds
Contents == (Sources \cup {News}) \X (Days \cup {0})
NoContent == <<News, 0>>
Personas == 1..2

\* A package of the time before idempotency_version: day 0.
Legacy(c) == c[2] = 0

NoPackage == [md |-> "none", images |-> 0, persona |-> 0, urls |-> 0]
NoPost    == [count |-> 0, status |-> "none", url |-> 0]
Idle      == [pc |-> "idle", item |-> NoContent, persona |-> 0, url |-> 0]

Carousel == account.format = "carousel"
Images   == IF Carousel THEN Slides ELSE 1

\* get_active_post_status_for_account
Waiting == {c \in Contents : posts[c].status \in {"ready", "uploading"}}

Fault == faults < MaxFaults /\ faults' = faults + 1
Fine  == UNCHANGED faults

world == <<account, day, persona>>

-----------------------------------------------------------------------------
(* The lock. *)

\* acquire: the INSERT is refused while the row is there.
Acquire(p) == lock = NoRun /\ lock' = p

\* release: only the row of the own token is deleted.
Release(p) == lock' = IF lock = p THEN NoRun ELSE lock

Start(p) ==
    /\ run[p] = Idle
    /\ Acquire(p)
    /\ run' = [run EXCEPT ![p].pc = "status"]
    /\ UNCHANGED <<world, vault, posts, faults>>

\* The end of the try block, whatever the reason.
Leave(p) == run' = [run EXCEPT ![p] = Idle] /\ Release(p)

\* A waiting post, an unreadable one or an incomplete persona ends the run.
ReadStatus(p) ==
    /\ run[p].pc = "status"
    /\ \/ Waiting # {} /\ Leave(p) /\ Fine
       \/ Fault /\ Leave(p)
       \/ /\ Waiting = {}
          /\ run' = [run EXCEPT ![p].pc = "scan", ![p].persona = persona]
          /\ Fine /\ UNCHANGED lock
    /\ UNCHANGED <<world, vault, posts>>

-----------------------------------------------------------------------------
(* Which package. *)

Pending == {c \in Contents : vault[c].md = "pending"}

\* Mutant: a package counts as saved only while its post waits.
Stale_WaitingOnly(c) == c \in Waiting

\* Already in Airtable: by content_id, and for a legacy package by its source.
Stale(c) ==
    IF Legacy(c) THEN \E d \in Contents : d[1] = c[1] /\ posts[d].count > 0
    ELSE posts[c].count > 0

\* The persona of a package must be the one the run has read.
OtherPersona(p, c) == account.own /\ vault[c].persona # run[p].persona

\* The files are read in the order of their names.
Before(c, d) == c[1] < d[1] \/ (c[1] = d[1] /\ c[2] < d[2])

\* Mutant: only the first pending package is looked at.
Stops_FirstOnly(p) == {c \in Pending : /\ \A d \in Pending \ {c} : Before(c, d)
                                       /\ OtherPersona(p, c) \/ ~Stale(c)}

\* The candidates at which the loop over the pending packages ends.
Stops(p) == {c \in Pending : OtherPersona(p, c) \/ ~Stale(c)}
First(p) == CHOOSE c \in Stops(p) : \A d \in Stops(p) \ {c} : Before(c, d)

Scan(p) ==
    /\ run[p].pc = "scan"
    /\ \/ /\ Stops(p) = {}
          /\ run' = [run EXCEPT ![p].pc = "topic"]
          /\ Fine /\ UNCHANGED lock
       \/ /\ Stops(p) # {} /\ OtherPersona(p, First(p))
          /\ Leave(p) /\ Fine
       \/ /\ Stops(p) # {} /\ ~OtherPersona(p, First(p))
          /\ run' = [run EXCEPT ![p].pc = "upload", ![p].item = First(p)]
          /\ Fine /\ UNCHANGED lock
       \/ Fault /\ Leave(p)
    /\ UNCHANGED <<world, vault, posts>>

Complete(s) == {c \in Contents : c[1] = s /\ vault[c].md # "none"}

\* scan_used_source_urls, scan_source_url_last_used
UsedToday(s) == \E c \in Complete(s) : c[2] = day
LastUsed(s)  == IF Complete(s) = {} THEN 0
                ELSE CHOOSE d \in Days \cup {0} :
                       /\ \E c \in Complete(s) : c[2] = d
                       /\ \A c \in Complete(s) : c[2] <= d

\* The source longest out of use, in the order of the Sourcebook.
Older(s, t) == LastUsed(s) < LastUsed(t) \/ (LastUsed(s) = LastUsed(t) /\ s < t)
Selectable  == {s \in Sources : ~UsedToday(s)}
NextSource  == CHOOSE s \in Selectable : \A t \in Selectable \ {s} : Older(s, t)

\* A page of the news serves once: it is looked up in the Vault and in Airtable.
FreshNews == /\ ~account.own
             /\ Complete(News) = {}
             /\ \A c \in Contents : c[1] = News => posts[c].count = 0

Build(p, c) ==
    IF vault[c].md # "none" \/ vault[c].images > 0
    THEN Leave(p)                                         \* DUPLICATE_CONTENT_ID
    ELSE run' = [run EXCEPT ![p].pc = "write", ![p].item = c] /\ UNCHANGED lock

\* create_content_package up to its files; NEWS_QUOTA ends the run as a failure does.
Topic(p) ==
    /\ run[p].pc = "topic"
    /\ \/ Selectable # {} /\ Build(p, <<NextSource, day>>) /\ Fine
       \/ FreshNews /\ Build(p, <<News, day>>) /\ Fine
       \/ Selectable = {} /\ Leave(p) /\ Fine             \* NO_SELECTABLE_TOPIC
       \/ Fault /\ Leave(p)
    /\ UNCHANGED <<world, vault, posts>>

-----------------------------------------------------------------------------
(* The files of a new package. *)

PutImage(c) == vault' = [vault EXCEPT ![c].images = @ + 1]
PutText(p, c) == vault' = [vault EXCEPT ![c].md = "pending",
                                        ![c].persona = run[p].persona]

\* Mutant: a carousel puts its text first, as a single picture does.
WriteNext_TextFirst(p, c) ==
    IF vault[c].md = "none" THEN PutText(p, c) ELSE PutImage(c)

\* The pictures of a carousel and then its text; a single picture after its text.
WriteNext(p, c) ==
    IF Carousel
    THEN IF vault[c].images < Slides THEN PutImage(c) ELSE PutText(p, c)
    ELSE IF vault[c].md = "none" THEN PutText(p, c) ELSE PutImage(c)

Written(c) == vault'[c].md # "none" /\ vault'[c].images = Images

Write(p) ==
    /\ run[p].pc = "write"
    /\ LET c == run[p].item IN
       \/ /\ WriteNext(p, c)
          /\ run' = [run EXCEPT ![p].pc = IF Written(c) THEN "upload" ELSE "write"]
          /\ Fine /\ UNCHANGED lock
       \/ /\ Fault                                        \* ATOMIC_WRITE_FAILED
          /\ vault' = [vault EXCEPT ![c] = NoPackage]
          /\ Leave(p)
    /\ UNCHANGED <<world, posts>>

-----------------------------------------------------------------------------
(* The pictures go to the host, the post to Airtable, the mark to the Vault. *)

\* The host gives every upload an address of its own.
FreshUrl(c) == CHOOSE u \in 1..3 : u # vault[c].urls /\ u # posts[c].url

\* _classify_aijomoojin_package holds what has no version; a missing file cannot be sent.
Sendable(c) == ~Legacy(c) /\ vault[c].images = Images

\* Mutant: the addresses of the pictures are not kept in the Vault.
KeepUrls_Not(c) == UNCHANGED vault

KeepUrls(c) == IF Carousel THEN vault' = [vault EXCEPT ![c].urls = FreshUrl(c)]
               ELSE UNCHANGED vault

Upload(p) ==
    /\ run[p].pc = "upload"
    /\ LET c == run[p].item IN
       \/ /\ Sendable(c)
          /\ KeepUrls(c)
          /\ run' = [run EXCEPT ![p].pc = "save", ![p].url = FreshUrl(c)]
          /\ Fine /\ UNCHANGED lock
       \/ ~Sendable(c) /\ Leave(p) /\ Fine /\ UNCHANGED vault
       \/ Fault /\ Leave(p) /\ UNCHANGED vault
    /\ UNCHANGED <<world, posts>>

\* save_instagram_post
Create(p, c) == posts' = [posts EXCEPT ![c].count = @ + 1, ![c].status = "ready",
                                       ![c].url = run[p].url]

\* Without an answer nobody knows whether the record exists: the run ends there.
Save(p) ==
    /\ run[p].pc = "save"
    /\ LET c == run[p].item IN
       \/ /\ Create(p, c)
          /\ run' = [run EXCEPT ![p].pc = "mark"]
          /\ Fine /\ UNCHANGED lock
       \/ Fault /\ (Create(p, c) \/ UNCHANGED posts) /\ Leave(p)
    /\ UNCHANGED <<world, vault>>

\* mark_channel_status; a failure leaves a package that is pending and saved.
Mark(p) ==
    /\ run[p].pc = "mark"
    /\ \/ vault' = [vault EXCEPT ![run[p].item].md = "queued"] /\ Fine
       \/ Fault /\ UNCHANGED vault
    /\ Leave(p)
    /\ UNCHANGED <<world, posts>>

Step(p) == \/ ReadStatus(p) \/ Scan(p) \/ Topic(p) \/ Write(p)
           \/ Upload(p) \/ Save(p) \/ Mark(p)

-----------------------------------------------------------------------------
(* The slot job, the operator, the clock and the end of a process. *)

\* _resolve_aijomoojin_slot_package: what the slot job does not hold back.
Resolves(c) ==
    /\ vault[c].md # "none" /\ ~Legacy(c)
    /\ Carousel => vault[c].urls = posts[c].url /\ vault[c].urls # 0

SetStatus(c, s) == /\ posts' = [posts EXCEPT ![c].status = s]
                   /\ UNCHANGED <<world, vault, lock, run, faults>>

Claim(c) == posts[c].status = "ready" /\ Resolves(c) /\ SetStatus(c, "uploading")

\* Posted, failed, or rejected by the text gate.
Finish(c) == posts[c].status = "uploading" /\ SetStatus(c, "over")
Reject(c) == posts[c].status = "ready" /\ Resolves(c) /\ SetStatus(c, "over")

\* force_release, by a person who has seen the process end.
ForceRelease ==
    /\ lock # NoRun
    /\ run[lock] = Idle
    /\ lock' = NoRun
    /\ UNCHANGED <<world, vault, posts, run, faults>>

\* The first account's packages name no persona.
ChangePersona ==
    /\ account.own
    /\ persona = 1 /\ persona' = 2
    /\ UNCHANGED <<account, day, vault, posts, lock, run, faults>>

Midnight ==
    /\ day + 1 \in Days
    /\ \A p \in Runs : run[p].pc # "write"
    /\ day' = day + 1
    /\ UNCHANGED <<account, persona, vault, posts, lock, run, faults>>

Crash(p) ==
    /\ run[p] # Idle
    /\ Fault
    /\ run' = [run EXCEPT ![p] = Idle]
    /\ UNCHANGED <<world, vault, posts, lock>>

-----------------------------------------------------------------------------

\* The first account may have a package from before idempotency_version,
\* with or without a record of its source.
Init ==
    /\ account \in [own : BOOLEAN, format : {"single", "carousel"}]
    /\ day = 1 /\ persona = 1
    /\ \E old \in (IF account.own THEN {} ELSE Sources) \cup {News}, saved \in BOOLEAN :
         /\ saved => old # News
         /\ vault = [c \in Contents |->
                       IF c = <<old, 0>> /\ old # News
                       THEN [NoPackage EXCEPT !.md = "pending", !.images = 1] ELSE NoPackage]
         /\ posts = [c \in Contents |->
                       IF c = <<old, 0>> /\ saved
                       THEN [NoPost EXCEPT !.count = 1, !.status = "over"] ELSE NoPost]
    /\ lock = NoRun
    /\ run = [p \in Runs |-> Idle]
    /\ faults = 0

Next ==
    \/ \E p \in Runs : Start(p) \/ Step(p) \/ Crash(p)
    \/ \E c \in Contents : Claim(c) \/ Finish(c) \/ Reject(c)
    \/ ForceRelease \/ ChangePersona \/ Midnight

\* The jobs come round every day, and a person removes the lock of a dead process.
Fairness ==
    /\ WF_vars(\E p \in Runs : Start(p))
    /\ WF_vars(\E p \in Runs : Step(p))
    /\ WF_vars(\E c \in Contents : Claim(c) \/ Finish(c))
    /\ WF_vars(ForceRelease)

Spec == Init /\ [][Next]_vars
FairSpec == Spec /\ Fairness

-----------------------------------------------------------------------------

TypeOK ==
    /\ account \in [own : BOOLEAN, format : {"single", "carousel"}]
    /\ day \in Days /\ persona \in Personas
    /\ vault \in [Contents -> [md : {"none", "pending", "queued"}, images : 0..Slides,
                               persona : {0} \cup Personas, urls : 0..3]]
    /\ posts \in [Contents -> [count : 0..(MaxFaults + 2), url : 0..3,
                               status : {"none", "ready", "uploading", "over"}]]
    /\ lock \in Runs \cup {NoRun}
    /\ run \in [Runs -> [pc : {"idle", "status", "scan", "topic", "write", "upload", "save", "mark"},
                         item : Contents, persona : {0} \cup Personas, url : 0..3]]
    /\ faults \in 0..MaxFaults

\* A package becomes at most one post, whatever answer is lost and whoever
\* dies: the next run recognises what was saved (the stale branch).
SavedOnce == \A c \in Contents : posts[c].count <= 1

\* At most one post of the account waits for its slot, though the slot job
\* takes posts away at any moment, and it can be published: the Vault still
\* agrees with the record, so that the slot job never holds it back and the
\* producer never starves behind it.
OneWaiting == Cardinality(Waiting) <= 1
WaitingIsPublishable == OneWaiting /\ \A c \in Waiting : Resolves(c)

\* The Vault tells the truth after any crash: what it calls queued is in
\* Airtable ("only after the save is certain"), and the text of a carousel is
\* there only with all its pictures (".md last").
VaultIsTrue ==
    /\ TypeOK
    /\ \A c \in Contents : vault[c].md = "queued" => posts[c].count > 0
    /\ Carousel => \A c \in Pending : Legacy(c) \/ vault[c].images = Slides

\* A package that blocks the producer until a person repairs it: torn, of
\* another persona, or legacy and never saved.
Blocking(c) == \/ account.own /\ vault[c].persona # persona
               \/ ~Stale(c) /\ ~Sendable(c)

\* What was built is saved in the end, past stale packages, lost answers and
\* dead holders of the lock, if nothing blocks the way.
Unsaved == {c \in Pending : ~Stale(c)}
BacklogIsSaved == (Unsaved # {}) ~> (Unsaved = {} \/ \E c \in Pending : Blocking(c))
=============================================================================
