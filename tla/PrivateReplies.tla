---------------------------- MODULE PrivateReplies ----------------------------
(***************************************************************************)
(* What keeps the private replies to comments rare: comment_safety_guard   *)
(* and the section of _try_private_reply that REPLY_LOCK guards.  Webhook  *)
(* threads and the poller answer commenters; who was answered lately and   *)
(* how many replies a day has seen are files, the circuit breaker lives in *)
(* the process.  The claim and the effects of a comment are the business   *)
(* of CommentEventInbox, which knows of the guard only that it may refuse. *)
(***************************************************************************)
EXTENDS Integers, FiniteSets

CONSTANTS
    Threads,    \* the threads of the launcher that handle comments
    Users,      \* commenters
    Nobody,     \* a comment without an author: neither an id nor a name
    Budget,     \* DAILY_BUDGET
    Cooldown,   \* COOLDOWN_HOURS, in ticks of the clock
    Day,        \* ticks of a day of UTC
    Threshold,  \* CIRCUIT_FAILURE_THRESHOLD
    LastTick,   \* bound: the clock
    MaxSlips    \* bound: files damaged, crashes, notes that are not written

ASSUME RepliesAssumption ==
    /\ Nobody \in Users /\ Budget \in Nat /\ Cooldown \in Nat \ {0} /\ Day \in Nat \ {0}
    /\ Threshold \in Nat \ {0} /\ LastTick \in Nat /\ MaxSlips \in Nat

VARIABLES
    tick,
    reply,     \* per thread: where it is in _try_private_reply, and for whom
    cooldown,  \* comment_reply_cooldown.json
    budget,    \* comment_reply_budget.json
    circuit,
    given,     \* ghost: when each user got a reply last
    again,     \* ghost: users who got two within a cooldown
    loose,     \* ghost: users who got a reply that is not noted
    begun,     \* ghost: replies begun, per day
    slips

repliesVars == <<tick, reply, cooldown, budget, circuit, given, again, loose, begun, slips>>

Never == 0 - Cooldown
Today == tick \div Day
Days  == 0..(LastTick \div Day)

NoReply     == [at |-> "idle", for |-> Nobody]
EmptyNotes  == [whole |-> TRUE, last |-> [u \in Users |-> Never]]
EmptyBudget == [whole |-> TRUE, day |-> 0, n |-> 0]
Closed      == [fails |-> 0, open |-> FALSE]

-----------------------------------------------------------------------------

\* A file that cannot be parsed blocks everyone; without an author there is no cooldown.
InCooldown(u) ==
    u # Nobody /\ (~cooldown.whole \/ tick - cooldown.last[u] < Cooldown)

Used == IF budget.day = Today THEN budget.n ELSE 0

\* Mutant: the section is not guarded.
Unlocked_Always == TRUE

\* REPLY_LOCK: one thread at a time from the first check to the last note.
Unlocked == \A t \in Threads : reply[t].at = "idle"

\* The checks, the last of which spends a reply of the day's budget.
Passes(t, u) ==
    /\ reply[t].at = "idle" /\ Unlocked
    /\ ~circuit.open /\ ~InCooldown(u) /\ budget.whole /\ Used < Budget
    /\ budget' = [budget EXCEPT !.day = Today, !.n = Used + 1]
    /\ begun' = [begun EXCEPT ![Today] = @ + 1]
    /\ reply' = [reply EXCEPT ![t] = [at |-> "started", for |-> u]]
    /\ UNCHANGED <<tick, cooldown, circuit, given, again, loose, slips>>

\* The claim was lost to another thread, before the request.
Fenced(t) ==
    /\ reply[t].at = "started"
    /\ reply' = [reply EXCEPT ![t] = NoReply]
    /\ UNCHANGED <<tick, cooldown, budget, circuit, given, again, loose, begun, slips>>

Reaches(u) ==
    /\ given' = [given EXCEPT ![u] = tick]
    /\ again' = IF tick - given[u] < Cooldown THEN again \cup {u} ELSE again

Answered(t) ==
    /\ reply[t].at = "started" /\ Reaches(reply[t].for)
    /\ reply' = [reply EXCEPT ![t].at = "noting"]
    /\ UNCHANGED <<tick, cooldown, budget, circuit, loose, begun, slips>>

\* Refused, or delivered and the answer lost: both count as a failure.
Failed(t) ==
    LET fails == circuit.fails + 1 IN
    /\ reply[t].at = "started"
    /\ \/ UNCHANGED <<given, again, loose>>
       \/ Reaches(reply[t].for) /\ loose' = loose \cup {reply[t].for}
    /\ circuit.fails <= Threshold                          \* bound: more change nothing
    /\ circuit' = [fails |-> fails, open |-> circuit.open \/ fails >= Threshold]
    /\ reply' = [reply EXCEPT ![t] = NoReply]
    /\ UNCHANGED <<tick, cooldown, budget, begun, slips>>

\* mark_user_replied, which starts anew from a file it cannot parse, and
\* record_circuit_success.
Notes(t) ==
    LET u == reply[t].for IN
    /\ reply[t].at = "noting"
    /\ cooldown' = IF u = Nobody THEN cooldown
                   ELSE IF cooldown.whole THEN [cooldown EXCEPT !.last[u] = tick]
                   ELSE [EmptyNotes EXCEPT !.last[u] = tick]
    /\ loose' = IF cooldown.whole \/ u = Nobody THEN loose ELSE loose \cup (Users \ {u})
    /\ circuit' = [circuit EXCEPT !.fails = 0]
    /\ reply' = [reply EXCEPT ![t] = NoReply]
    /\ UNCHANGED <<tick, budget, given, again, begun, slips>>

Slip == slips < MaxSlips /\ slips' = slips + 1

NoteFails(t) ==
    /\ Slip /\ reply[t].at = "noting"
    /\ loose' = loose \cup {reply[t].for}
    /\ reply' = [reply EXCEPT ![t] = NoReply]
    /\ UNCHANGED <<tick, cooldown, budget, circuit, given, again, begun>>

Damaged ==
    /\ Slip
    /\ \/ cooldown' = [cooldown EXCEPT !.whole = FALSE] /\ UNCHANGED budget
       \/ budget' = [budget EXCEPT !.whole = FALSE] /\ UNCHANGED cooldown
    /\ UNCHANGED <<tick, reply, circuit, given, again, loose, begun>>

\* The circuit breaker forgets, the files stay.
Reborn ==
    /\ Slip
    /\ loose' = loose \cup {reply[t].for : t \in {t \in Threads : reply[t].at = "noting"}}
    /\ reply' = [t \in Threads |-> NoReply] /\ circuit' = Closed
    /\ UNCHANGED <<tick, cooldown, budget, given, again, begun>>

Later ==
    /\ tick < LastTick /\ tick' = tick + 1
    /\ UNCHANGED <<reply, cooldown, budget, circuit, given, again, loose, begun, slips>>

\* The minutes of the circuit are over; the failures stay counted.
CircuitCloses ==
    /\ circuit.open /\ circuit' = [circuit EXCEPT !.open = FALSE]
    /\ UNCHANGED <<tick, reply, cooldown, budget, given, again, loose, begun, slips>>

RepliesInit ==
    /\ tick = 0 /\ reply = [t \in Threads |-> NoReply]
    /\ cooldown = EmptyNotes /\ budget = EmptyBudget /\ circuit = Closed
    /\ given = [u \in Users |-> Never] /\ again = {} /\ loose = {}
    /\ begun = [d \in Days |-> 0] /\ slips = 0

RepliesNext ==
    \/ \E t \in Threads :
          \/ \E u \in Users : Passes(t, u)
          \/ Fenced(t) \/ Answered(t) \/ Failed(t) \/ Notes(t) \/ NoteFails(t)
    \/ Damaged \/ Reborn \/ Later \/ CircuitCloses

RepliesSpec == RepliesInit /\ [][RepliesNext]_repliesVars

-----------------------------------------------------------------------------

\* No day begins more replies than its budget, whatever threads and crashes do, and
\* the file never knows of fewer than were begun (consume_daily_budget).
BudgetHolds ==
    /\ \A d \in Days : begun[d] <= Budget
    /\ begun[Today] <= Used

\* A commenter gets two private replies within a cooldown only where the first was
\* never noted: its answer was lost, its note was, or the notes were (mark_user_replied).
NobodyIsPestered == again \subseteq loose \cup {Nobody}

\* The private replies stay rare, part by part as above.
RepliesAreRare ==
    /\ tick \in 0..LastTick /\ slips \in 0..MaxSlips
    /\ \A t \in Threads : reply[t].at \in {"idle", "started", "noting"} /\ reply[t].for \in Users
    /\ BudgetHolds /\ NobodyIsPestered
=============================================================================
