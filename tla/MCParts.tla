-------------------------------- MODULE MCParts --------------------------------
(***************************************************************************)
(* Parts that keep state of their own, checked side by side: a behaviour   *)
(* is one of the text of a carousel, of the drawings of two accounts, of   *)
(* the posts that are used again, of the guard of the private replies, of  *)
(* the two watchers, of the start of the launchers, of the job of the      *)
(* friend requests, or of the calls of a person.  The last two know each   *)
(* other as a step of their world only (AskedElsewhere, DoneElsewhere) and *)
(* the others share no variable, so nothing is lost by not interleaving    *)
(* them.                                                                   *)
(***************************************************************************)
EXTENDS CarouselText, NoteSketches, ReusedPosts, PrivateReplies, HealthAlerts, RuntimeBoot,
        FriendRequests

CONSTANTS a1, a2, h1, h2, u1, g1, g2, p1, p2, CallCap, MaxTries

ASSUME CallsAssumption == CallCap \in Nat /\ MaxTries \in Nat

VARIABLES part, act, shownTo, call, local, rows, found, queue, clicksToday, clicks

Calls == INSTANCE OutboundCalls WITH shown <- shownTo

jobVars  == <<asked, file, visit, history>>
callVars == <<act, shownTo, call, local, rows, found, queue, clicksToday, clicks>>

\* What the job and the calls both look at.
switchVars == <<enabled, faults>>
outVars == <<jobVars, callVars, switchVars>>

PartsInit ==
    /\ part \in {"text", "sketches", "reuse", "replies", "health", "boot", "job", "calls"}
    /\ TextInit /\ SketchInit /\ ReuseInit /\ RepliesInit /\ HealthInit /\ BootInit
    /\ Init /\ Calls!Init
    \* What does not take part keeps one initial state.
    /\ part # "text" => kind = "eight" /\ scenes = "none" /\ ~skilled
    /\ part # "sketches" => ~poolOn
    /\ part # "boot" => policy = NoPolicy
    /\ part \notin {"job", "calls"} => enabled
    /\ part # "calls" => act = "follow"

partVars == <<textVars, sketchVars, reuseVars, repliesVars, healthVars, bootVars>>

PartsNext ==
    \/ /\ part = "text" /\ TextNext
       /\ UNCHANGED <<part, sketchVars, reuseVars, repliesVars, healthVars, bootVars, outVars>>
    \/ /\ part = "sketches" /\ SketchNext
       /\ UNCHANGED <<part, textVars, reuseVars, repliesVars, healthVars, bootVars, outVars>>
    \/ /\ part = "reuse" /\ ReuseNext
       /\ UNCHANGED <<part, textVars, sketchVars, repliesVars, healthVars, bootVars, outVars>>
    \/ /\ part = "replies" /\ RepliesNext
       /\ UNCHANGED <<part, textVars, sketchVars, reuseVars, healthVars, bootVars, outVars>>
    \/ /\ part = "health" /\ HealthNext
       /\ UNCHANGED <<part, textVars, sketchVars, reuseVars, repliesVars, bootVars, outVars>>
    \/ /\ part = "boot" /\ BootNext
       /\ UNCHANGED <<part, textVars, sketchVars, reuseVars, repliesVars, healthVars, outVars>>
    \/ /\ part = "job" /\ Next /\ UNCHANGED <<part, partVars, callVars>>
    \/ /\ part = "calls" /\ Calls!Next /\ UNCHANGED <<part, partVars, jobVars>>

PartsSpec == PartsInit /\ [][PartsNext]_<<part, partVars, outVars>>

\* The one-off calls keep their word (OutboundCalls).
CallsAreSound ==
    Calls!TypeOK /\ Calls!CallBudget /\ Calls!ClickedOnce /\ Calls!ScoredIsForeign

MCAccounts == {a1, a2}
=============================================================================
