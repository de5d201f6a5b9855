--------------------------- MODULE FriendRequests ---------------------------
(***************************************************************************)
(* The scheduled job that sends friend requests: a run visits the active   *)
(* groups one after the other in one browser and asks the members it finds *)
(* there, until the run's or the day's number is reached.  Its only memory *)
(* from run to run is a JSON file with the day's count and block, loaded   *)
(* and saved whole, where a failed read is an empty file and a failed save *)
(* is only logged.                                                         *)
(***************************************************************************)
EXTENDS Integers

CONSTANTS
    People,      \* members of the groups
    NoPerson,    \* no person
    Groups,      \* active groups of Prospect_Groups
    FriendCap,   \* Account_Registry.daily_friend_limit (0: not set, blocked)
    MaxPerRun,   \* max_per_run of the job
    MaxFaults    \* bound: failures and crashes in one behaviour

ASSUME ConstantsAssumption ==
    /\ NoPerson \notin People
    /\ FriendCap \in Nat /\ MaxFaults \in Nat
    /\ MaxPerRun \in Nat \ {0}

VARIABLES
    enabled,   \* automation_enabled of the account, set by a person
    asked,     \* whom the platform shows a pending request or friendship for
    file,      \* outbound_friend_daily.json: whether its date is today, count, blocked
    visit,     \* the job: label, groups left, sent_before, the group's goal and
               \* successes, the members looked at, the target
    \* what happened: requests confirmed today and in this run; the day was blocked and
    \* no access to the file failed since
    sentToday, sentByRun, stopped,
    faults

history == <<sentToday, sentByRun, stopped>>
vars == <<enabled, asked, file, visit, history, faults>>

Fault == faults < MaxFaults /\ faults' = faults + 1
Fine  == UNCHANGED faults

-----------------------------------------------------------------------------
(* The day file of the job. *)

EmptyRow == [fresh |-> FALSE, count |-> 0, blocked |-> FALSE]

\* _friend_daily_load: a read that fails is an empty file.
Load(row) ==
    \/ row = file /\ Fine
    \/ row = EmptyRow /\ Fault

CountOf(row) == IF row.fresh THEN row.count ELSE 0
BlockedBy(row) == row.fresh /\ row.blocked

\* Mutant: the first request of a day does not take over the date.
Increment_KeepsOldDate(row) == [row EXCEPT !.count = CountOf(row) + 1]

\* _friend_daily_increment.
Increment(row) ==
    IF row.fresh THEN [row EXCEPT !.count = @ + 1]
    ELSE [fresh |-> TRUE, count |-> 1, blocked |-> FALSE]

\* Mutant: the block is set on the row as it is, under the date of an earlier day.
MarkBlocked_KeepsOldDate(row) == [row EXCEPT !.blocked = TRUE]

\* _friend_daily_mark_blocked.
MarkBlocked(row) == [fresh |-> TRUE, count |-> CountOf(row), blocked |-> TRUE]

\* _friend_daily_save: load, change, save; a failed save is only logged, and one that
\* breaks off leaves a file that cannot be read.  changed is the file changed, anew
\* the change of an empty one.
Update(changed, anew) ==
    \/ file' = changed /\ Fine
    \/ file' \in {anew, file, EmptyRow} /\ Fault

KeepStop == stopped' = (stopped /\ faults' = faults)

-----------------------------------------------------------------------------
(* The job: friend_daily_run, one group after the other in one browser. *)

Idle == [pc |-> "idle", todo |-> {}, before |-> 0, goal |-> 0, ok |-> 0,
         seen |-> {}, target |-> NoPerson]

\* _job_yuna_friend_request up to the browser: a blocked or a full day opens none.
StartRun ==
    /\ visit.pc = "idle"
    /\ \E row \in {file, EmptyRow} :
        /\ Load(row)
        /\ ~BlockedBy(row)
        /\ CountOf(row) < FriendCap
        /\ visit' = [Idle EXCEPT !.pc = "groups", !.todo = Groups, !.before = CountOf(row)]
    /\ sentByRun' = 0
    /\ KeepStop
    /\ UNCHANGED <<enabled, asked, file, sentToday>>

\* What the run may still send, by the day and by the run.
Remaining(count) ==
    LET byDay == FriendCap - count
        byRun == MaxPerRun - (count - visit.before)
    IN IF byDay < byRun THEN byDay ELSE byRun

\* The gates of friend_request_canary.
MayEnter(row) == enabled /\ ~BlockedBy(row) /\ CountOf(row) < FriendCap

\* A group opens, or its page fails and the next one is tried.
EnterGroup(g) ==
    /\ visit.pc = "groups" /\ g \in visit.todo
    /\ \E row \in {file, EmptyRow} :
        /\ Load(row)
        /\ Remaining(CountOf(row)) > 0
        /\ MayEnter(row)
        /\ \/ visit' = [visit EXCEPT !.pc = "scan", !.todo = @ \ {g}, !.ok = 0, !.seen = {},
                                 !.goal = Remaining(CountOf(row))]
           \/ visit' = [visit EXCEPT !.todo = @ \ {g}]
    /\ KeepStop
    /\ UNCHANGED <<enabled, asked, file, sentToday, sentByRun>>

\* The loop over the groups ends: none left, the goal reached, the switch off, the day
\* blocked.
EndRun ==
    /\ visit.pc = "groups"
    /\ \E row \in {file, EmptyRow} :
        /\ Load(row)
        /\ \/ visit.todo = {} \/ Remaining(CountOf(row)) <= 0
           \/ ~enabled \/ BlockedBy(row)
    /\ visit' = Idle
    /\ KeepStop
    /\ UNCHANGED <<enabled, asked, file, sentToday, sentByRun>>

\* A card still to do, with a button to add a friend (_scan_member_cards).
Candidate(p) == p \notin visit.seen /\ p \notin asked

\* The head of the loop in friend_request_canary.
GoesOn(row) == CountOf(row) < FriendCap /\ visit.ok < visit.goal

\* _should_skip_target, a button that is not rendered, a profile that does not open.
PassOver(p) ==
    /\ visit.pc = "scan" /\ Candidate(p) /\ GoesOn(file)
    /\ visit' = [visit EXCEPT !.seen = @ \cup {p}]
    /\ UNCHANGED <<enabled, asked, file, history, faults>>

\* _send_friend_visible: one click, with or without effect on the platform.
AskMember(p) ==
    /\ visit.pc = "scan" /\ Candidate(p)
    /\ \E row \in {file, EmptyRow} : Load(row) /\ GoesOn(row)
    /\ visit' = [visit EXCEPT !.pc = "clicked", !.seen = @ \cup {p}, !.target = p]
    /\ asked' \in {asked, asked \cup {p}}
    /\ KeepStop
    /\ UNCHANGED <<enabled, file, sentToday, sentByRun>>

\* The area of the target says "cancel request": the day counts one more.
Confirmed ==
    /\ visit.pc = "clicked" /\ visit.target \in asked
    /\ Update(Increment(file), Increment(EmptyRow))
    /\ visit' = [visit EXCEPT !.pc = "scan", !.ok = @ + 1, !.target = NoPerson]
    /\ sentToday' = sentToday + 1
    /\ sentByRun' = sentByRun + 1
    /\ KeepStop
    /\ UNCHANGED <<enabled, asked>>

\* It says something else, or cannot be read: only this target is given up.
NotConfirmed ==
    /\ visit.pc = "clicked"
    /\ visit' = [visit EXCEPT !.pc = "scan", !.target = NoPerson]
    /\ UNCHANGED <<enabled, asked, file, history, faults>>

\* Goal or cap reached, no new card after four scrolls, the list cannot be reopened, an
\* exception of the browser.
LeaveGroup ==
    /\ visit.pc = "scan"
    /\ visit' = [visit EXCEPT !.pc = "groups", !.goal = 0, !.ok = 0, !.seen = {}]
    /\ UNCHANGED <<enabled, asked, file, history, faults>>

\* A page of the group, of a profile or before the click shows a challenge: the day is
\* blocked and the run stops.
Checkpoint ==
    /\ \/ visit.pc = "groups" /\ visit.todo # {} /\ MayEnter(file) /\ Remaining(CountOf(file)) > 0
       \/ visit.pc = "scan" /\ GoesOn(file)
    /\ Update(MarkBlocked(file), MarkBlocked(EmptyRow))
    /\ visit' = Idle
    /\ stopped' = (faults' = faults)
    /\ UNCHANGED <<enabled, asked, sentToday, sentByRun>>

-----------------------------------------------------------------------------
(* The world. *)

\* A person flips automation_enabled.
FlipSwitch ==
    /\ enabled' = ~enabled
    /\ UNCHANGED <<asked, file, visit, history, faults>>

\* A call (OutboundCalls) or a person asks; a request is declined or taken back.
AskedElsewhere(p) ==
    /\ asked' = IF p \in asked THEN asked \ {p} ELSE asked \cup {p}
    /\ UNCHANGED <<enabled, file, visit, history, faults>>

\* Midnight in Seoul, also in the middle of a run.
Midnight ==
    /\ file' = [file EXCEPT !.fresh = FALSE]
    /\ sentToday' = 0
    /\ stopped' = FALSE
    /\ UNCHANGED <<enabled, asked, visit, sentByRun, faults>>

\* The launcher dies.
Crash ==
    /\ visit # Idle /\ Fault
    /\ visit' = Idle
    /\ UNCHANGED <<enabled, asked, file, history>>

-----------------------------------------------------------------------------
Init ==
    /\ enabled \in BOOLEAN
    /\ asked = {}
    /\ file = EmptyRow
    /\ visit = Idle
    /\ sentToday = 0 /\ sentByRun = 0 /\ stopped = FALSE
    /\ faults = 0

Next ==
    \/ StartRun \/ EndRun \/ Confirmed \/ NotConfirmed \/ LeaveGroup \/ Checkpoint
    \/ \E g \in Groups : EnterGroup(g)
    \/ \E p \in People : PassOver(p) \/ AskMember(p) \/ AskedElsewhere(p)
    \/ FlipSwitch \/ Midnight \/ Crash

Spec == Init /\ [][Next]_vars

-----------------------------------------------------------------------------
(* Properties. *)

TypeOK ==
    /\ enabled \in BOOLEAN
    /\ asked \subseteq People
    /\ file \in [fresh : BOOLEAN, count : Nat, blocked : BOOLEAN]
    /\ visit \in [pc : {"idle", "groups", "scan", "clicked"}, todo : SUBSET Groups,
                before : Nat, goal : Nat, ok : Nat, seen : SUBSET People,
                target : People \cup {NoPerson}]
    /\ visit.pc = "clicked" => visit.target \in People
    /\ sentToday \in Nat /\ sentByRun \in Nat /\ stopped \in BOOLEAN
    /\ faults \in 0 .. MaxFaults

\* The job never has more requests confirmed in a day than the account allows, over all
\* its runs, groups and restarts; what an access to the day file loses is at most a day's
\* count each time.
FriendBudget == sentToday <= FriendCap * (1 + faults)

\* The job keeps its word within a day, part by part as above.
FriendsAreSound == TypeOK /\ FriendBudget

\* After a challenge the job clicks nothing for the rest of the day, in this run or a
\* later one, at this group or another: the block of the day file sees to it
\* (_friend_daily_mark_blocked), until midnight or until an access to the file fails,
\* which ends "stopped" since the block may be gone with it.
CheckpointStopsTheDay ==
    [][(visit.pc = "scan" /\ visit'.pc = "clicked") => ~stopped']_vars

\* What the docstring of the job (main.py:2674-2675) and its message to the operator
\* (main.py:2753-2755) say instead: a run that a challenge stopped is tried again in
\* the next slot, so that a day with requests left can be gone on with.
NextSlotRetries ==
    (stopped /\ visit = Idle /\ CountOf(file) < FriendCap) => ENABLED StartRun
=============================================================================
