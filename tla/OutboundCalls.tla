---------------------------- MODULE OutboundCalls ----------------------------
(***************************************************************************)
(* The one-off calls of a person: Follow, Instagram Like, a friend request *)
(* in a group, and the collection of prospects.  Each call looks at the    *)
(* switch, at what is known of its target, at the count of the day, clicks *)
(* once in a browser and records the attempt in a local table and in       *)
(* Outbound_Actions.                                                       *)
(*                                                                         *)
(* The kinds of call share no row: their keys, counts and limits are by    *)
(* action, so a behaviour is about one kind, chosen at the start; the      *)
(* collection of prospects starts from what earlier calls recorded.        *)
(***************************************************************************)
EXTENDS Integers

CONSTANTS
    People,      \* persons, pages and posts
    NoPerson,    \* no person
    FriendCap,   \* Account_Registry.daily_friend_limit
    CallCap,     \* daily_follow_limit, OUTBOUND_LIKE_DAILY_LIMIT
    MaxTries,    \* bound: friend requests tried in a day
    MaxFaults    \* bound: failures and crashes in one behaviour

VARIABLES
    enabled,   \* automation_enabled of the account, set by a person
    act,       \* the kind of call of this behaviour
    shown,     \* whom the platform shows as followed, liked or asked
    call,      \* the call: label, target, outcome
    local,     \* outbound_actions.db: result by target
    rows,      \* Outbound_Actions of today: all, and with relationship_status requested
    found,     \* Outbound_Actions ever: "none", "failed" or "success"
    queue,     \* Prospect_Queue: status, and whether the evidence speaks of abroad
    clicksToday, clicks,   \* what happened
    faults

Kinds == {"follow", "like", "friend", "prospect"}

store   == <<local, rows, found, queue>>
counted == <<clicksToday, clicks>>
vars == <<enabled, act, shown, call, store, counted, faults>>

Fault == faults < MaxFaults /\ faults' = faults + 1
Fine  == UNCHANGED faults

-----------------------------------------------------------------------------
(* The calls. *)

NoCall == [pc |-> "idle", target |-> NoPerson, result |-> "none"]

\* _daily_limit_gate, _like_daily_gate: friend requests count by relationship_status.
Used == IF act = "friend" THEN rows.requested ELSE rows.all
DayLimit == IF act = "friend" THEN FriendCap ELSE CallCap

Begin(p) ==
    /\ call = NoCall
    /\ enabled
    /\ Used < DayLimit
    /\ call' = [NoCall EXCEPT !.pc = "open", !.target = p]
    /\ UNCHANGED <<enabled, act, shown, store, counted, faults>>

\* Mutant: only a success stops it, as for a Like.
FollowOnce_RetriesFailed(p) ==
    act = "follow" /\ local[p] # "success" /\ found[p] # "success" /\ Begin(p)

\* follow_once: whatever is known of the target stops it.
FollowOnce(p) == act = "follow" /\ local[p] = "none" /\ found[p] = "none" /\ Begin(p)

\* like_once: only a success stops it.
LikeOnce(p) == act = "like" /\ local[p] # "success" /\ found[p] # "success" /\ Begin(p)

\* friend_in_group looks at the local table once the profile is open.
FriendInGroup(p) == act = "friend" /\ rows.all < MaxTries /\ Begin(p)

\* Known to Outbound_Actions but not to the local table.
Relearn(p) ==
    /\ call = NoCall /\ enabled
    /\ \/ act = "follow" /\ local[p] = "none" /\ found[p] # "none"
       \/ act = "like" /\ local[p] # "success" /\ found[p] = "success"
    /\ local' = [local EXCEPT ![p] = IF act = "like" THEN "success" ELSE "duplicate"]
    /\ UNCHANGED <<enabled, act, shown, call, rows, found, queue, counted, faults>>

\* The page cannot be used: an attempt that failed (a challenge too, for a Like).
Unusable ==
    /\ call.pc = "open"
    /\ call' = [call EXCEPT !.pc = "settle", !.result = "failed"]
    /\ UNCHANGED <<enabled, act, shown, store, counted, faults>>

\* friend_in_group leaves without a record: a challenge, a target it knows, a person in
\* Korea, who is remembered.
TurnAway ==
    /\ call.pc = "open" /\ act = "friend"
    /\ call' = NoCall
    /\ local' \in {local, [local EXCEPT ![call.target] =
                               IF @ = "none" THEN "skipped" ELSE @]}
    /\ UNCHANGED <<enabled, act, shown, rows, found, queue, counted, faults>>

\* like_once on a post that shows Unlike.
AlreadyLiked ==
    /\ call.pc = "open" /\ act = "like" /\ call.target \in shown
    /\ call' = [call EXCEPT !.pc = "settle", !.result = "success"]
    /\ UNCHANGED <<enabled, act, shown, store, counted, faults>>

\* One click, with or without effect on the platform.
Click ==
    /\ call.pc = "open"
    /\ call.target \notin shown
    /\ act = "friend" => local[call.target] = "none"
    /\ call' = [call EXCEPT !.pc = "clicked"]
    /\ shown' \in {shown, shown \cup {call.target}}
    /\ clicksToday' = clicksToday + 1
    /\ clicks' = IF act = "like" THEN clicks ELSE [clicks EXCEPT ![call.target] = @ + 1]
    /\ UNCHANGED <<enabled, act, store, faults>>

\* The page shows the new state.
Confirmed ==
    /\ call.pc = "clicked" /\ call.target \in shown
    /\ call' = [call EXCEPT !.pc = "settle", !.result = "success"]
    /\ UNCHANGED <<enabled, act, shown, store, clicksToday, clicks, faults>>

\* It does not, or cannot be read.
NotConfirmed ==
    /\ call.pc = "clicked"
    /\ call' = [call EXCEPT !.pc = "settle", !.result = "failed"]
    /\ UNCHANGED <<enabled, act, shown, store, counted, faults>>

\* _local_mark keeps what is there.
LocalMark(p, result) ==
    local' = [local EXCEPT ![p] = IF @ = "none" THEN result ELSE @]

\* For a Like only a success is kept (_local_upsert).
LocalUpsert(p, result) ==
    local' = [local EXCEPT ![p] = IF result = "success" THEN result ELSE @]

\* create_outbound_action; no caller passes a relationship_status.
CreateAction(p, result, requested) ==
    /\ rows' = [all |-> rows.all + 1,
                requested |-> IF requested THEN rows.requested + 1 ELSE rows.requested]
    /\ found' = [found EXCEPT ![p] = IF @ = "success" THEN @ ELSE result]

\* The record of the attempt; a failure of Airtable is only logged.
Settle ==
    /\ call.pc = "settle"
    /\ IF act = "like" THEN LocalUpsert(call.target, call.result)
                       ELSE LocalMark(call.target, call.result)
    /\ \/ CreateAction(call.target, call.result, FALSE) /\ Fine
       \/ UNCHANGED <<rows, found>> /\ Fault
    /\ call' = NoCall
    /\ UNCHANGED <<enabled, act, shown, queue, counted>>

-----------------------------------------------------------------------------
(* Prospects: outbound_rules.evaluate on what a card or a profile shows. *)

\* The evidence words in the text and in the name, and the state of the profile.  Both
\* callers leave the category empty and the number of followers unknown.
Infos == [blocked : BOOLEAN, usable : BOOLEAN, beautyText : BOOLEAN, beautyName : BOOLEAN,
          tradeText : BOOLEAN, tradeName : BOOLEAN, korea : BOOLEAN, abroad : BOOLEAN,
          customers : BOOLEAN, korean : BOOLEAN, other : BOOLEAN]

Beauty(i) == i.beautyText \/ i.beautyName
Trade(i)  == i.tradeText \/ i.tradeName
Foreign(i) == i.abroad \/ i.customers

\* A person or a place in Korea, without a sign of business abroad.
InKorea(i) ==
    \/ i.korean /\ ~(Beauty(i) /\ Trade(i))
    \/ i.korea /\ ~Foreign(i) /\ ~Trade(i)

\* The score of a card, by part: the field (the text of the card also stands in for the
\* recent post), the place, the activity, the link.
ScoreOf(i) ==
    LET field == (IF i.beautyText THEN 15 ELSE 0)
                 + (IF i.beautyText \/ i.tradeText THEN 15 ELSE 0)
        place == CASE i.abroad /\ ~i.korea -> 30
                   [] i.abroad /\ i.korea -> 22
                   [] i.customers /\ i.korea -> 15
                   [] i.customers /\ ~i.korea -> 12
                   [] OTHER -> 0
    IN field + place + 16 + 10

Cutoff == 55
Band == 10

\* The hard filters.
Excluded(i) ==
    \/ i.blocked \/ ~i.usable
    \/ InKorea(i)
    \/ ~Beauty(i) /\ ~Trade(i) /\ i.other

Decision(i) ==
    CASE Excluded(i) -> "filtered_out"
      [] ~Excluded(i) /\ ~Beauty(i) /\ ~Trade(i) -> "needs_review"
      [] ~Excluded(i) /\ (Beauty(i) \/ Trade(i)) ->
           CASE ~Foreign(i) /\ ~i.korea -> "needs_review"
             [] ScoreOf(i) \in Cutoff - Band .. Cutoff + Band -> "needs_review"
             [] (Foreign(i) \/ i.korea) /\ ScoreOf(i) < Cutoff - Band -> "filtered_out"
             [] (Foreign(i) \/ i.korea) /\ ScoreOf(i) > Cutoff + Band -> "scored"

\* What evaluate makes of every text, with whether the text speaks of another country.
Outcomes == {[status |-> Decision(i), abroad |-> Foreign(i)] : i \in Infos}

Unknown(p) == queue[p].status = "none" /\ found[p] = "none"

\* crawl_group_prospects, for one card.
CrawlProspect(p) ==
    /\ act = "prospect" /\ Unknown(p)
    /\ \E o \in Outcomes : queue' = [queue EXCEPT ![p] = o]
    /\ UNCHANGED <<enabled, act, shown, call, local, rows, found, counted, faults>>

\* enrich_one_prospect: the hard filters and the button decide, the score does not.
EnrichOutcomes ==
    {[status |-> IF Excluded(i) \/ ~button THEN "filtered_out" ELSE "CANARY_TARGET_READY",
      abroad |-> Foreign(i)] : i \in Infos, button \in BOOLEAN}

EnrichProspect(p) ==
    /\ act = "prospect" /\ Unknown(p)
    /\ \E o \in EnrichOutcomes : queue' = [queue EXCEPT ![p] = o]
    /\ UNCHANGED <<enabled, act, shown, call, local, rows, found, counted, faults>>

-----------------------------------------------------------------------------
(* The world. *)

\* A person flips automation_enabled.
FlipSwitch ==
    /\ enabled' = ~enabled
    /\ UNCHANGED <<act, shown, call, store, counted, faults>>

\* The job (FriendRequests) or a person does it; it is declined or taken back.
DoneElsewhere(p) ==
    /\ shown' = IF p \in shown THEN shown \ {p} ELSE shown \cup {p}
    /\ UNCHANGED <<enabled, act, call, store, counted, faults>>

\* Midnight UTC, for the count of Outbound_Actions.
UtcMidnight ==
    /\ rows' = [all |-> 0, requested |-> 0]
    /\ clicksToday' = 0
    /\ UNCHANGED <<enabled, act, shown, call, local, found, queue, clicks, faults>>

\* The process of a call dies.
Crash ==
    /\ call # NoCall /\ Fault
    /\ call' = NoCall
    /\ UNCHANGED <<enabled, act, shown, store, counted>>

\* The local table is gone: another machine, a new database.
LoseLocal ==
    /\ call = NoCall /\ Fault
    /\ local' = [p \in People |-> "none"]
    /\ UNCHANGED <<enabled, act, shown, call, rows, found, queue, counted>>

-----------------------------------------------------------------------------
Init ==
    /\ enabled \in BOOLEAN
    /\ act \in Kinds
    /\ shown = {}
    /\ call = NoCall
    /\ local = [p \in People |-> "none"]
    /\ rows = [all |-> 0, requested |-> 0]
    /\ found \in [People -> IF act = "prospect" THEN {"none", "failed"} ELSE {"none"}]
    /\ queue = [p \in People |-> [status |-> "none", abroad |-> FALSE]]
    /\ clicksToday = 0 /\ clicks = [p \in People |-> 0]
    /\ faults = 0

Next ==
    \/ Unusable \/ TurnAway \/ AlreadyLiked \/ Click \/ Confirmed \/ NotConfirmed \/ Settle
    \/ \E p \in People :
        \/ FollowOnce(p) \/ LikeOnce(p) \/ FriendInGroup(p) \/ Relearn(p)
        \/ CrawlProspect(p) \/ EnrichProspect(p)
        \/ DoneElsewhere(p)
    \/ FlipSwitch \/ UtcMidnight \/ Crash \/ LoseLocal

Spec == Init /\ [][Next]_vars

-----------------------------------------------------------------------------
(* Properties. *)

TypeOK ==
    /\ enabled \in BOOLEAN /\ act \in Kinds
    /\ shown \subseteq People
    /\ call \in [pc : {"idle", "open", "clicked", "settle"},
                 target : People \cup {NoPerson}, result : {"none", "success", "failed"}]
    /\ call # NoCall => call.target \in People
    /\ local \in [People -> {"none", "success", "failed", "duplicate", "skipped"}]
    /\ rows \in [all : Nat, requested : Nat]
    /\ found \in [People -> {"none", "failed", "success"}]
    /\ queue \in [People -> [status : {"none", "filtered_out", "needs_review", "scored",
                                       "CANARY_TARGET_READY"}, abroad : BOOLEAN]]
    /\ clicksToday \in Nat /\ clicks \in [People -> Nat]
    /\ faults \in 0 .. MaxFaults

\* The clicks of Follow and Like stay within the day's limit, failed ones included; a
\* click escapes the count only where its record is lost.
CallBudget == act # "friend" => clicksToday <= CallCap + faults

\* Nobody is followed or asked twice by a call, however the first attempt ended: not
\* after a lost record, a lost local table or a crash more often than these happened.
ClickedOnce == \A p \in People : clicks[p] <= 1 + faults

\* A card is scored, that is not left to a person, only if it speaks of another country:
\* no sum of the other parts is enough.
ScoredIsForeign == \A p \in People : queue[p].status = "scored" => queue[p].abroad

=============================================================================
