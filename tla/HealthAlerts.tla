----------------------------- MODULE HealthAlerts -----------------------------
(***************************************************************************)
(* Two watchers that tell a person of an outage.  _job_adspower_health     *)
(* asks the AdsPower API and tells of its changes, with its state in a     *)
(* file so that a restart of the launcher tells nothing twice.             *)
(* heartbeat_monitor, a process of its own at every tick, looks how old    *)
(* the last line of the watchdog's log is, and repeats an alarm only after *)
(* a while.  They share nothing; a step is one of either.                  *)
(***************************************************************************)
EXTENDS Integers

CONSTANTS
    FailThreshold,  \* _ADSPOWER_HEALTH_FAIL_THRESHOLD
    Stale,          \* _STALE_THRESHOLD_SEC, in ticks
    Suppress,       \* _REALERT_SUPPRESS_SEC, in ticks
    MaxMishaps,     \* bound: runs cut short, files lost, runs of the monitor that fail
    MaxChanges      \* bound: messages of the job

ASSUME HealthAssumption ==
    /\ FailThreshold \in Nat \ {0} /\ Stale \in Nat /\ Suppress \in Nat
    /\ MaxMishaps \in Nat /\ MaxChanges \in Nat

VARIABLES
    ads,      \* AdsPower answers
    state,    \* adspower_health_state.json
    job,      \* the running job, with what it is about to write
    told,     \* ghost: the last message of the job
    repeats,  \* ghost: messages that said what the one before had said
    streak,   \* ghost: runs in a row that got no answer, since the last mishap
    watchdog, \* the watchdog runs
    line,     \* ticks since the last line of watchdog.log
    stamp,    \* heartbeat_monitor_state.txt: ticks since the alarm it notes
    silence,  \* ghost: ticks since the watchdog died or an alarm was raised
    missed,   \* ghost: runs of the monitor that did not come about
    mishaps, changes

healthVars == <<ads, state, job, told, repeats, streak, watchdog, line, stamp, silence,
                missed, mishaps, changes>>

adsVars == <<ads, state, job, told, repeats, streak, changes>>
dogVars == <<watchdog, line, stamp, silence, missed>>

Fresh   == [fails |-> 0, alerted |-> FALSE]
NoJob   == [on |-> FALSE, write |-> Fresh]

Older(n, most) == IF n < most THEN n + 1 ELSE most

Mishap == mishaps < MaxMishaps /\ mishaps' = mishaps + 1

-----------------------------------------------------------------------------
(* The AdsPower job.                                                       *)

Says(what) ==
    /\ changes < MaxChanges /\ changes' = changes + 1
    /\ told' = what /\ repeats' = IF told = what THEN repeats + 1 ELSE repeats

Quiet == UNCHANGED <<told, repeats, changes>>

OverThreshold(fails, alerted) == fails >= FailThreshold /\ ~alerted

\* The ping, the state as it was read, and the message.
JobRuns(read, before) ==
    LET fails == read.fails + 1
        over  == OverThreshold(fails, read.alerted)
    IN  /\ ~job.on
        /\ \/ /\ ads
              /\ IF read.alerted THEN Says("up") ELSE Quiet
              /\ streak' = 0
              /\ job' = [on |-> TRUE, write |-> Fresh]
           \/ /\ ~ads
              /\ IF over THEN Says("down") ELSE Quiet
              /\ streak' = Older(before, FailThreshold)
              /\ job' = [on |-> TRUE, write |-> [fails |-> IF fails > FailThreshold
                                                           THEN FailThreshold ELSE fails,
                                                 alerted |-> read.alerted \/ over]]

RunsWithState == JobRuns(state, streak) /\ UNCHANGED <<ads, state, mishaps, dogVars>>

\* The file is gone or cannot be read: the job starts anew.
RunsWithout ==
    /\ Mishap /\ state # Fresh /\ JobRuns(Fresh, 0)
    /\ UNCHANGED <<ads, state, dogVars>>

JobWrites ==
    /\ job.on /\ state' = job.write /\ job' = NoJob
    /\ UNCHANGED <<ads, told, repeats, streak, changes, mishaps, dogVars>>

\* The file is not written, or the launcher stops in between.
JobBreaks ==
    /\ Mishap /\ job.on /\ job' = NoJob /\ streak' = 0
    /\ UNCHANGED <<ads, state, told, repeats, changes, dogVars>>

AdsChanges ==
    /\ ads' = ~ads
    /\ UNCHANGED <<state, job, told, repeats, streak, changes, mishaps, dogVars>>

-----------------------------------------------------------------------------
(* The monitor of the watchdog.                                            *)

Alarm(age, since) == age > Stale /\ since >= Suppress

\* Mutant: an alarm that is held back is noted like one that was raised.
Noted_HeldBack(age, since) == IF age > Stale THEN {0} ELSE {since}

\* check_heartbeat notes an alarm whether it went out or not; the note may fail.
Noted(age, since) == IF Alarm(age, since) THEN {0, since} ELSE {since}

\* A round of the watchdog, also one that fails, adds a line; the monitor reads the
\* last line, whatever it says, unless this run of it does not come about.
Ticks ==
    LET age   == IF watchdog THEN 0 ELSE Older(line, Stale + 1)
        since == Older(stamp, Suppress)
    IN  /\ line' = age
        /\ \/ /\ stamp' \in Noted(age, since)
              /\ silence' = IF watchdog \/ Alarm(age, since) THEN 0 ELSE silence + 1
              /\ UNCHANGED <<missed, mishaps>>
           \/ /\ Mishap /\ stamp' = since
              /\ silence' = IF watchdog THEN 0 ELSE silence + 1
              /\ missed' = missed + 1
        /\ UNCHANGED <<watchdog, adsVars>>

WatchdogChanges ==
    /\ Mishap /\ watchdog' = ~watchdog /\ silence' = 0
    /\ line' = IF watchdog' THEN 0 ELSE line
    /\ UNCHANGED <<stamp, missed, adsVars>>

-----------------------------------------------------------------------------

HealthInit ==
    /\ ads = TRUE /\ state = Fresh /\ job = NoJob
    /\ told = "nothing" /\ repeats = 0 /\ streak = 0
    /\ watchdog = TRUE /\ line = 0 /\ stamp = Suppress /\ silence = 0 /\ missed = 0
    /\ mishaps = 0 /\ changes = 0

HealthNext ==
    \/ RunsWithState \/ RunsWithout \/ JobWrites \/ JobBreaks \/ AdsChanges
    \/ Ticks \/ WatchdogChanges

HealthSpec == HealthInit /\ [][HealthNext]_healthVars

-----------------------------------------------------------------------------

\* The job tells of a change once: a message that repeats the one before it takes a
\* run cut short or a lost file ("only on a change of state, not again while it is
\* down", _job_adspower_health).
OnlyChangesAreTold == repeats <= mishaps

\* AdsPower does not stay away unreported: after as many runs as the threshold without
\* a mishap the last message is that it is down, except where the recovery before was
\* told and its note lost: the file then keeps the next outage quiet.
OutageIsTold ==
    streak >= FailThreshold =>
        told = "down" \/ (told = "up" /\ state.alerted)

\* A dead watchdog does not stay unreported for longer than it takes to go stale or
\* an earlier alarm to be forgotten (check_heartbeat), but for the runs that failed.
DeadDogIsTold ==
    silence <= missed + (IF Stale < Suppress THEN Suppress ELSE Stale)

\* The watchers tell of what they watch, part by part as above.
AlertsAreKept ==
    /\ state.fails \in 0..FailThreshold /\ line \in 0..Stale + 1 /\ stamp \in 0..Suppress
    /\ OnlyChangesAreTold /\ OutageIsTold /\ DeadDogIsTold
=============================================================================
