----------------------------- MODULE NoteSketches -----------------------------
(***************************************************************************)
(* The drawings of a note carousel (_build_note_carousel_images): a slide  *)
(* at a time is drawn, all new ones are judged for text and logos, those   *)
(* that fail are drawn again.  The producers of several accounts share the *)
(* daily cap of the image provider and the pool of judged sketches         *)
(* (image_pool), from which a slide is taken once the cap is reached.      *)
(***************************************************************************)
EXTENDS Integers, Sequences, FiniteSets

CONSTANTS
    Accounts,     \* accounts whose producers run side by side
    SlideCount,   \* slides of a carousel
    Cap,          \* DAILY_IMAGE_CAP
    MaxItems,     \* IMAGE_POOL_MAX_ITEMS
    MaxAgain,     \* NOTE_IMAGE_MAX_REGENERATIONS
    MaxSketches,  \* bound: drawings made
    MaxLosses     \* bound: failures, dead processes and damaged files

ASSUME SketchAssumption ==
    /\ IsFiniteSet(Accounts) /\ Accounts # {}
    /\ SlideCount \in Nat \ {0} /\ Cap \in Nat /\ MaxItems \in Nat \ {0}
    /\ MaxAgain \in Nat /\ MaxSketches \in Nat /\ MaxLosses \in Nat

VARIABLES
    poolOn,   \* IMAGE_POOL_ENABLED
    made,     \* rows of today in image_generations
    fresh,    \* drawings made so far: each is new
    pool,     \* the sketches of the pool, the oldest first
    used,     \* pool_use: pairs of an account and a sketch
    draft,    \* what the producer of each account is doing
    shown,    \* ghost: how often a package of the account shows the sketch
    judged,   \* ghost: sketches that were judged free of text and logos
    losses

sketchVars == <<poolOn, made, fresh, pool, used, draft, shown, judged, losses>>

Slides   == 1..SlideCount
Sketches == 1..MaxSketches
NoDraft  == [pc |-> "idle", round |-> {}, left |-> {}, sketch |-> [i \in Slides |-> 0],
             again |-> [i \in Slides |-> 0], taken |-> {}]

Lose == losses < MaxLosses /\ losses' = losses + 1
InPool == {pool[k] : k \in DOMAIN pool}
Next1(a) == CHOOSE i \in draft[a].left : \A j \in draft[a].left : i <= j

Abort(a) == draft' = [draft EXCEPT ![a] = NoDraft]

Begin(a) ==
    /\ draft[a].pc = "idle"
    /\ draft' = [draft EXCEPT ![a].pc = "draw", ![a].round = Slides, ![a].left = Slides]
    /\ UNCHANGED <<poolOn, made, fresh, pool, used, shown, judged, losses>>

-----------------------------------------------------------------------------

\* quota_available: read before the request, recorded after the answer.
Room(a) == made < Cap

\* generate_image up to its request.
Ask(a) ==
    /\ draft[a].pc = "draw" /\ draft[a].left # {}
    /\ Room(a)
    /\ draft' = [draft EXCEPT ![a].pc = "asked"]
    /\ UNCHANGED <<poolOn, made, fresh, pool, used, shown, judged, losses>>

\* The answer, recorded in the day in which it came.
Drawn(a) ==
    /\ draft[a].pc = "asked"
    /\ \/ /\ fresh < MaxSketches
          /\ fresh' = fresh + 1 /\ made' = made + 1
          /\ draft' = [draft EXCEPT ![a].pc = "draw", ![a].left = @ \ {Next1(a)},
                                    ![a].sketch[Next1(a)] = fresh + 1,
                                    ![a].taken = @ \ {Next1(a)}]
          /\ UNCHANGED losses
       \/ Lose /\ Abort(a) /\ UNCHANGED <<made, fresh>>
    /\ UNCHANGED <<poolOn, pool, used, shown, judged>>

Unused(a) == {s \in InPool : <<a, s>> \notin used}

Drop(s) == /\ \E k \in DOMAIN pool :
                /\ pool[k] = s
                /\ pool' = SubSeq(pool, 1, k - 1) \o SubSeq(pool, k + 1, Len(pool))
           /\ used' = {u \in used : u[2] # s}

\* take_unused_sketch: one transaction; a damaged file leaves the pool.
Take(a) ==
    /\ draft[a].pc = "draw" /\ draft[a].left # {}
    /\ ~Room(a)
    /\ \/ /\ poolOn
          /\ \E s \in Unused(a) :
               \/ /\ used' = used \cup {<<a, s>>}
                  /\ draft' = [draft EXCEPT ![a].left = @ \ {Next1(a)},
                                            ![a].sketch[Next1(a)] = s,
                                            ![a].taken = @ \cup {Next1(a)}]
                  /\ UNCHANGED <<pool, losses>>
               \/ Lose /\ Drop(s) /\ UNCHANGED draft
       \/ /\ ~poolOn \/ Unused(a) = {}                  \* DAILY_IMAGE_CAP_EXCEEDED
          /\ Abort(a) /\ UNCHANGED <<pool, used, losses>>
    /\ UNCHANGED <<poolOn, made, fresh, shown, judged>>

-----------------------------------------------------------------------------

\* A set of slides in their order.
InOrder(I) == {row \in [1..Cardinality(I) -> I] : \A j, k \in DOMAIN row : j < k => row[j] < row[k]}
SketchesOf(a, row) == [k \in DOMAIN row |-> draft[a].sketch[row[k]]]

\* _prune: the oldest go beyond MaxItems, and with them who used them.
Newest(q) == IF Len(q) > MaxItems THEN SubSeq(q, Len(q) - MaxItems + 1, Len(q)) ELSE q

\* Mutant: the account that had a sketch drawn is not recorded as its user.
SaveSketches_NoUse(a, I) ==
    /\ \E row \in InOrder(I) : pool' = Newest(pool \o SketchesOf(a, row))
    /\ used' = {u \in used : \E k \in DOMAIN pool' : pool'[k] = u[2]}

\* save_sketch, for each slide judged free: its maker counts as its user.
SaveSketches(a, I) ==
    /\ \E row \in InOrder(I) : pool' = Newest(pool \o SketchesOf(a, row))
    /\ used' = {u \in used \cup {<<a, draft[a].sketch[i]>> : i \in I} :
                  \E k \in DOMAIN pool' : pool'[k] = u[2]}

Kept(new, bad) == new \ bad

\* The package: its sketches are shown.
Finish(a) ==
    /\ shown' = [shown EXCEPT ![a] = [s \in Sketches |->
                   @[s] + Cardinality({i \in Slides : draft[a].sketch[i] = s})]]
    /\ Abort(a)

\* check_images_for_text_and_logo for what is not from the pool, then the pool,
\* then the slides to be drawn again.
Judge(a) ==
    /\ draft[a].pc = "draw" /\ draft[a].left = {}
    /\ LET new == draft[a].round \ draft[a].taken IN
       \/ \E bad \in SUBSET new :
            LET again == [i \in Slides |-> draft[a].again[i] + IF i \in bad THEN 1 ELSE 0] IN
            /\ judged' = judged \cup {draft[a].sketch[i] : i \in new \ bad}
            /\ IF poolOn THEN SaveSketches(a, Kept(new, bad)) ELSE UNCHANGED <<pool, used>>
            /\ \/ bad = {} /\ Finish(a)
               \/ /\ \E i \in bad : again[i] > MaxAgain
                  /\ Abort(a) /\ UNCHANGED shown
               \/ /\ bad # {} /\ \A i \in bad : again[i] <= MaxAgain
                  /\ draft' = [draft EXCEPT ![a].round = bad, ![a].left = bad, ![a].again = again]
                  /\ UNCHANGED shown
            /\ UNCHANGED losses
       \/ new # {} /\ Lose /\ Abort(a)                   \* IMAGE_CHECK_ERROR
          /\ UNCHANGED <<pool, used, shown, judged>>
    /\ UNCHANGED <<poolOn, made, fresh>>

Die(a) ==
    /\ draft[a].pc # "idle"
    /\ Lose /\ Abort(a)
    /\ UNCHANGED <<poolOn, made, fresh, pool, used, shown, judged>>

NewDay ==
    /\ made > 0 /\ made' = 0
    /\ UNCHANGED <<poolOn, fresh, pool, used, draft, shown, judged, losses>>

SketchInit ==
    /\ poolOn \in BOOLEAN
    /\ made = 0 /\ fresh = 0 /\ pool = <<>> /\ used = {}
    /\ draft = [a \in Accounts |-> NoDraft]
    /\ shown = [a \in Accounts |-> [s \in Sketches |-> 0]]
    /\ judged = {} /\ losses = 0

SketchNext ==
    \/ \E a \in Accounts : Begin(a) \/ Ask(a) \/ Drawn(a) \/ Take(a) \/ Judge(a) \/ Die(a)
    \/ NewDay

SketchSpec == SketchInit /\ [][SketchNext]_sketchVars

-----------------------------------------------------------------------------

SketchTypeOK ==
    /\ made \in 0..fresh /\ fresh \in 0..MaxSketches
    /\ Len(pool) <= MaxItems /\ InPool \subseteq 1..fresh
    /\ used \subseteq Accounts \X InPool
    /\ judged \subseteq 1..fresh

\* No account shows a sketch twice, in one package or in two, whether it drew
\* it itself or took it from the pool.
ShownOnce == \A a \in Accounts, s \in Sketches : shown[a][s] <= 1

\* Whatever is shown was judged, by this account or by the one that drew it.
ShownIsJudged == \A a \in Accounts, s \in Sketches : shown[a][s] > 0 => s \in judged

\* The cap is read before a request and recorded after it, so that it is
\* passed by at most one drawing for every other producer.
CapOvershoot == made <= Cap + Cardinality(Accounts) - 1

\* What the pool and the cap promise to accounts that work side by side.
SketchesAreSound == SketchTypeOK /\ ShownOnce /\ ShownIsJudged /\ CapOvershoot
=============================================================================
