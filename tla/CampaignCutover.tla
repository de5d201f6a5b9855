--------------------------- MODULE CampaignCutover ----------------------------
(***************************************************************************)
(* How a post becomes a campaign post whose comments are answered.  The    *)
(* campaign file says what the operator wants, comment_poll_targets what   *)
(* may be answered, and the commands of comment_campaign_baseline_cli lead *)
(* from one to the other: apply suppresses the comments from before a      *)
(* cutover, verify compares, activate lets the answers begin.  The webhook *)
(* and the poller of the launcher, which keeps the modes it was started    *)
(* with, bring comments all the while.  One post is followed: every guard  *)
(* is of one post, and the others matter by the hash of the file only.     *)
(* The commands take minutes; a comment that is being handled is through   *)
(* before the next command.                                                *)
(***************************************************************************)
EXTENDS Integers, FiniteSets

CONSTANTS
    Last,        \* bound: comments of the post, numbered as they were written
    Lists,       \* contents of the rest of the campaign file
    Threshold,   \* FAILURE_ALERT_THRESHOLD
    MaxEdits,    \* bound: changes of the campaign file and of the modes
    MaxCommands, \* bound: commands of the operator
    MaxFailed  \* bound: polls without an answer

ASSUME CutoverAssumption ==
    /\ Last \in Nat \ {0} /\ Lists # {} /\ Threshold \in Nat \ {0}
    /\ MaxEdits \in Nat /\ MaxCommands \in Nat /\ MaxFailed \in Nat

VARIABLES
    json,     \* the campaign file: readable, with the post in it, the rest of it
    target,   \* the row of the post in comment_poll_targets
    events,   \* rows of comment_events
    posted,   \* comments written so far
    env,      \* the modes in .env, and those of the running launcher
    work,     \* the webhook thread and the poller with a comment; torn: the file has
              \* changed between the gate and the next read of it (ghost)
    cached,   \* the poller's file
    cli,      \* the command that is running, and the hash the operator noted
    late,     \* ghost: old comments answered after the activation
    edits, commands

cutVars == <<json, target, events, posted, env, work, cached, cli, late, edits, commands>>

Comments == 1..Last
Workers  == {"hook", "poll"}

Unnoted   == [in |-> FALSE, rest |-> "none"]
Hash      == [in |-> json.in, rest |-> json.rest]      \* of the list of the file
NoTarget  == [state |-> "none", config |-> Unnoted, base |-> Unnoted, cut |-> 0, old |-> {},
              applied |-> 0, verified |-> FALSE, fails |-> 0, alerted |-> FALSE]
NoCommand == [at |-> "idle", cut |-> 0, old |-> {}, stamp |-> 0, todo |-> {}, noted |-> Unnoted]
NoWork    == [at |-> "idle", c |-> 0, torn |-> FALSE]

Allow == [gate |-> "allowlist", store |-> "enforce"]

-----------------------------------------------------------------------------
(* comment_poll_targets.                                                   *)

\* sync_from_campaign_json, of a file that can be read.
Synced ==
    CASE json.in /\ target.state = "none" ->
             [NoTarget EXCEPT !.state = "PENDING", !.config = Hash]
      [] json.in /\ target.state = "PAUSED" ->
             [NoTarget EXCEPT !.state = "PENDING", !.config = Hash,
                              !.fails = target.fails, !.alerted = target.alerted]
      [] json.in /\ target.state \in {"PENDING", "ACTIVE"} -> [target EXCEPT !.config = Hash]
      [] ~json.in /\ target.state \in {"PENDING", "ACTIVE"} -> [target EXCEPT !.state = "PAUSED"]
      [] OTHER -> target

\* What a poll of the active post leaves: record_poll_success, record_poll_failure,
\* and mark_alerted when the message of a streak went out.
Succeeded == [target EXCEPT !.fails = 0, !.alerted = FALSE]

PollFails ==
    /\ work["poll"].at = "idle" /\ env.live.gate = "allowlist" /\ json.ok
    /\ target.state = "ACTIVE" /\ target = Synced /\ target.fails < MaxFailed
    /\ \E told \in BOOLEAN :
          LET n == target.fails + 1
          IN  target' = [target EXCEPT !.fails = n,
                                       !.alerted = @ \/ (n >= Threshold /\ told)]
    /\ UNCHANGED <<json, events, posted, env, work, cached, cli, late, edits, commands>>

PollSync ==
    /\ work["poll"].at = "idle" /\ env.live.gate = "allowlist" /\ json.ok
    /\ target' = Synced
    /\ UNCHANGED <<json, events, posted, env, work, cached, cli, late, edits, commands>>

-----------------------------------------------------------------------------
(* Comments on their way in.                                               *)

\* _blocked_by_allowlist_gating
Blocked ==
    \/ ~json.ok
    \/ target.state # "none" /\ (~json.in \/ target.state # "ACTIVE")
    \/ target.state = "none" /\ json.in /\ env.live.gate = "allowlist"

\* A comment is delivered, or found by the poller: among the newest posts, or on
\* the active ones, of which it reads every page.
Arrives(w, c) ==
    /\ work[w].at = "idle" /\ c <= posted
    /\ w = "poll" => /\ c \notin cached
                     /\ env.live.gate = "allowlist" => json.ok /\ target.state = "ACTIVE"
    /\ ~Blocked
    /\ target' = IF w = "poll" /\ env.live.gate = "allowlist" THEN Succeeded ELSE target
    /\ work' = [work EXCEPT ![w] = [NoWork EXCEPT !.at = "passed", !.c = c]]
    /\ UNCHANGED <<json, events, posted, env, cached, cli, late, edits, commands>>

Campaign == json.ok /\ json.in                           \* guard.is_campaign_post

Remember(w) == cached' = IF w = "poll" THEN cached \cup {work[w].c} ELSE cached

\* process_comment_event behind the gate, up to the first request of the answer.
Enters(w) ==
    LET c == work[w].c
        enforced == env.live.store = "enforce" /\ Campaign
        owned == \E v \in Workers \ {w} : work[v].at = "claimed" /\ work[v].c = c
    IN  /\ work[w].at = "passed"
        /\ \/ /\ ~enforced                                \* disabled, shadow, no campaign
              /\ work' = [work EXCEPT ![w].at = "legacy"]
              /\ events' = IF env.live.store = "shadow" /\ events[c] = "none"
                           THEN [events EXCEPT ![c] = "shadow"] ELSE events
              /\ UNCHANGED cached
           \/ /\ enforced /\ (events[c] = "none" \/ (events[c] = "working" /\ ~owned))
              /\ work' = [work EXCEPT ![w].at = "claimed"]
              /\ events' = [events EXCEPT ![c] = "working"]
              /\ UNCHANGED cached
           \/ /\ enforced /\ events[c] \in {"shadow", "working"}   \* IN_PROGRESS
              /\ events[c] = "working" => owned
              /\ work' = [work EXCEPT ![w] = NoWork]
              /\ UNCHANGED <<events, cached>>
           \/ /\ enforced /\ events[c] \in {"done", "suppressed"}
              /\ work' = [work EXCEPT ![w] = NoWork]
              /\ Remember(w) /\ UNCHANGED events
        /\ UNCHANGED <<json, target, posted, env, cli, late, edits, commands>>

\* The answer, and the end of the handling.
Answers(w) ==
    LET c == work[w].c
        slipped == work[w].at = "legacy" /\ work[w].torn IN
    /\ work[w].at \in {"legacy", "claimed"}
    /\ events' = IF work[w].at = "claimed" THEN [events EXCEPT ![c] = "done"] ELSE events
    /\ late' = IF target.state = "ACTIVE" /\ c \in target.old /\ ~slipped
               THEN late \cup {c} ELSE late
    /\ work' = [work EXCEPT ![w] = NoWork]
    /\ Remember(w)
    /\ UNCHANGED <<json, target, posted, env, cli, edits, commands>>

Writes ==
    /\ posted < Last /\ posted' = posted + 1
    /\ UNCHANGED <<json, target, events, env, work, cached, cli, late, edits, commands>>

-----------------------------------------------------------------------------
(* The commands.                                                           *)

Command(at) ==
    /\ cli.at = "idle" /\ commands < MaxCommands /\ commands' = commands + 1
    /\ Campaign                                           \* _require_campaign_media
    /\ \A w \in Workers : work[w].at = "idle"

Ends == cli' = [NoCommand EXCEPT !.noted = cli.noted]

\* Mutant: a row at work counts as settled, whether or not its worker lives.
Safe_Working(c) == events[c] # "none"

\* _classify_existing
Safe(c) == events[c] \in {"shadow", "suppressed", "done"}

Before(cut) == {c \in 1..posted : c <= cut}

DryRun ==
    /\ cli.at = "idle" /\ Campaign /\ cli.noted # Hash
    /\ cli' = [cli EXCEPT !.noted = Hash]
    /\ UNCHANGED <<json, target, events, posted, env, work, cached, late, edits, commands>>

\* Any time is taken for the cutover, also one that is still to come.
Apply ==
    /\ Command("apply") /\ env.file.gate = "allowlist"
    /\ target' = Synced
    /\ \E cut \in 0..Last :
          IF cli.noted = Hash /\ target'.state = "PENDING"
          THEN cli' = [cli EXCEPT !.at = "fetch", !.cut = cut]
          ELSE Ends
    /\ UNCHANGED <<json, events, posted, env, work, cached, late, edits>>

\* _fetch_and_split; a state that calls for a person stops the command.
ApplyFetch ==
    LET before == Before(cli.cut) IN
    /\ cli.at = "fetch"
    /\ IF \A c \in before : events[c] = "none" \/ Safe(c)
       THEN cli' = [cli EXCEPT !.at = "suppress", !.old = before,
                               !.todo = {c \in before : ~Safe(c)}]
       ELSE Ends
    /\ UNCHANGED <<json, target, events, posted, env, work, cached, late, edits, commands>>

\* suppress_pre_cutover; a row that has come up meanwhile is looked at again.
ApplySuppress(c) ==
    /\ cli.at = "suppress" /\ c \in cli.todo
    /\ events' = IF events[c] = "none" THEN [events EXCEPT ![c] = "suppressed"] ELSE events
    /\ IF events[c] = "none" \/ Safe(c)
       THEN cli' = [cli EXCEPT !.todo = @ \ {c}] ELSE Ends
    /\ UNCHANGED <<json, target, posted, env, work, cached, late, edits, commands>>

\* apply_baseline
ApplyRecord ==
    /\ cli.at = "suppress" /\ cli.todo = {}
    /\ target' = IF target.state # "PENDING" THEN target
                 ELSE [target EXCEPT !.cut = cli.cut, !.old = cli.old, !.base = target.config,
                                     !.applied = commands, !.verified = FALSE]
    /\ Ends
    /\ UNCHANGED <<json, events, posted, env, work, cached, late, edits, commands>>

\* What verify reads: the same comments before the cutover, each of them safe, and
\* none suppressed after it.
Clean ==
    /\ Before(target.cut) = target.old
    /\ \A c \in target.old : Safe(c)
    /\ \A c \in 1..posted : c > target.cut => events[c] # "suppressed"

Verify ==
    /\ Command("verify")
    /\ IF target.state = "PENDING" /\ target.applied > 0 /\ Clean
       THEN cli' = [cli EXCEPT !.at = "record", !.stamp = target.applied]
       ELSE Ends
    /\ UNCHANGED <<json, target, events, posted, env, work, cached, late, edits>>

VerifyRecord ==
    /\ cli.at = "record"
    /\ target' = LET now == IF json.ok THEN Synced ELSE target IN
                 IF json.ok /\ now.state = "PENDING" /\ now.applied = cli.stamp
                    /\ now.config = now.base
                 THEN [now EXCEPT !.verified = TRUE] ELSE now
    /\ Ends
    /\ UNCHANGED <<json, events, posted, env, work, cached, late, edits, commands>>

\* The operator has seen that the launcher runs in the modes of the file.
Activate ==
    /\ Command("activate") /\ env.file = Allow /\ env.live = Allow
    /\ target' = IF Synced.state = "PENDING" /\ Synced.verified /\ Synced.config = Synced.base
                 THEN [Synced EXCEPT !.state = "ACTIVE"] ELSE Synced
    /\ Ends
    /\ UNCHANGED <<json, events, posted, env, work, cached, late, edits>>

CommandDies ==
    /\ cli.at # "idle" /\ Ends
    /\ UNCHANGED <<json, target, events, posted, env, work, cached, late, edits, commands>>

-----------------------------------------------------------------------------

Edit == edits < MaxEdits /\ edits' = edits + 1

\* The file changes, or cannot be read for a while, also while a comment is between
\* the gate and is_campaign_post.
EditFile ==
    /\ Edit
    /\ json' \in [ok : BOOLEAN, in : BOOLEAN, rest : Lists] \ {json}
    /\ work' = [w \in Workers |-> IF work[w].at = "passed"
                                  THEN [work[w] EXCEPT !.torn = TRUE] ELSE work[w]]
    /\ UNCHANGED <<target, events, posted, env, cached, cli, late, commands>>

\* The modes are not taken back while a post is active.
EditModes ==
    /\ Edit /\ target.state # "ACTIVE"
    /\ \E m \in [gate : {"legacy", "allowlist"}, store : {"disabled", "shadow", "enforce"}] :
          m # env.file /\ env' = [env EXCEPT !.file = m]
    /\ UNCHANGED <<json, target, events, posted, work, cached, cli, late, commands>>

\* The poller's file is written in place: one that breaks off reads as empty.
LauncherRestart ==
    /\ env.live # env.file \/ \E w \in Workers : work[w].at # "idle"
    /\ env' = [env EXCEPT !.live = env.file]
    /\ work' = [w \in Workers |-> NoWork]
    /\ cached' \in {cached, {}}
    /\ UNCHANGED <<json, target, events, posted, cli, late, edits, commands>>

CutoverInit ==
    /\ json \in [ok : {TRUE}, in : BOOLEAN, rest : {CHOOSE l \in Lists : TRUE}]
    /\ target = NoTarget /\ events = [c \in Comments |-> "none"]
    /\ posted = 1
    /\ \E m \in {"disabled", "shadow", "enforce"} :
          env = [file |-> [Allow EXCEPT !.gate = "legacy", !.store = m],
                 live |-> [Allow EXCEPT !.gate = "legacy", !.store = m]]
    /\ work = [w \in Workers |-> NoWork] /\ cached = {}
    /\ cli = NoCommand /\ late = {} /\ edits = 0 /\ commands = 0

CutoverNext ==
    \/ PollFails \/ PollSync \/ Writes
    \/ \E w \in Workers :
          Enters(w) \/ Answers(w) \/ \E c \in Comments : Arrives(w, c)
    \/ DryRun \/ Apply \/ ApplyFetch \/ ApplyRecord
    \/ \E c \in Comments : ApplySuppress(c)
    \/ Verify \/ VerifyRecord \/ Activate \/ CommandDies
    \/ EditFile \/ EditModes \/ LauncherRestart

CutoverSpec == CutoverInit /\ [][CutoverNext]_cutVars

-----------------------------------------------------------------------------

\* The types of the variables.
CutoverTypeOK ==
    /\ target.state \in {"none", "PENDING", "ACTIVE", "PAUSED"}
    /\ target.old \subseteq Comments /\ target.fails \in 0..MaxFailed
    /\ \A c \in Comments : events[c] \in {"none", "shadow", "working", "done", "suppressed"}
    /\ \A w \in Workers : work[w].at \in {"idle", "passed", "legacy", "claimed"}
    /\ cli.at \in {"idle", "fetch", "suppress", "record"}
    /\ cached \subseteq Comments /\ posted \in 0..Last

\* A comment that the baseline lists (those from before the cutover at the time of
\* apply) is not answered once the post is active, whatever edits, restarts, dead
\* commands and repeated ones lie between, but in one case: the file changes while the
\* comment is between the gate and is_campaign_post (comment_auto_reply.py:695-707),
\* whose second read then sends it the old way, past the store.
OldStaysQuiet == late = {}

\* While the post is active each comment of its baseline has a row that no claim can
\* take up again.
ActiveIsSettled == target.state = "ACTIVE" => \A c \in target.old : Safe(c)

\* The mark of an alert belongs to the streak that is going on, so no streak of
\* failed polls is passed over for the mark of an earlier one.
MarkIsOfThisStreak == target.alerted => target.fails >= Threshold

\* The way to an active post keeps its word, part by part as above.
CutoverIsSound == CutoverTypeOK /\ OldStaysQuiet /\ ActiveIsSettled /\ MarkIsOfThisStreak

=============================================================================
