----------------------------- MODULE CarouselText -----------------------------
(***************************************************************************)
(* How the text of one carousel is written (generate_carousel_content):    *)
(* Gemini writes it, the contract is checked one defect at a time, the     *)
(* field that failed is written again at most MaxRounds times, then the    *)
(* forbidden scenes once, then come fabrication, safety and duplicates.    *)
(*                                                                         *)
(* A text is the set of its defects.  The check reports only the first one *)
(* it meets, and a rewriting may bring new defects into its field.         *)
(***************************************************************************)
EXTENDS Integers, FiniteSets

CONSTANTS
    MaxRounds,   \* _MAX_REPAIR_ROUNDS
    MaxDefects   \* bound: defects of a text at any moment

ASSUME TextAssumption == MaxRounds \in Nat \ {0} /\ MaxDefects \in Nat

VARIABLES
    kind,     \* the contract: eight slides, a short carousel, a short one with card facts
    scenes,   \* the drawings asked for: none, or the state of their descriptions
    skilled,  \* this Gemini mends what it is asked to mend and spoils nothing
    first,    \* the defects of the first answer
    defects,  \* the defects of the present text
    tries,    \* rewritings so far
    result    \* "none", "repair", "scenes", "facts", "done" or an error code

textVars == <<kind, scenes, skilled, first, defects, tries, result>>

\* What can be wrong, with the code the check gives it and the field it sits in.
Order == << [code |-> "SLIDES_INVALID",    field |-> "all"],
            [code |-> "COVER_TITLE",       field |-> "cover"],
            [code |-> "SLIDE_TEXT_EMPTY",  field |-> "body"],
            [code |-> "BODY_TOO_LONG",     field |-> "body"],
            [code |-> "CARD_FACT_MISSING", field |-> "body"],
            [code |-> "CARD_FACT_EXTRA",   field |-> "body"],
            [code |-> "CTA_NOT_LAST",      field |-> "cover"],
            [code |-> "CTA_NOT_LAST",      field |-> "body"],
            [code |-> "LAST_CTA_COUNT",    field |-> "body"],
            [code |-> "IMPERATIVE",        field |-> "cover"],
            [code |-> "IMPERATIVE",        field |-> "body"],
            [code |-> "CAPTION_LENGTH",    field |-> "caption"],
            [code |-> "HASHTAG_COUNT",     field |-> "hashtags"],
            [code |-> "CAPTION_CTA_COUNT", field |-> "caption"],
            [code |-> "CAPTION_CTA_PLACE", field |-> "caption"] >>

Possible == {i \in DOMAIN Order : kind = "facts" \/ Order[i].code \notin {"CARD_FACT_MISSING", "CARD_FACT_EXTRA"}}
Texts    == {D \in SUBSET Possible : Cardinality(D) <= MaxDefects}

\* _validate_short_contract, _validate_contract: the first defect met.
Met(D)     == CHOOSE i \in D : \A j \in D : i <= j
ErrorOf(D) == IF D = {} THEN "" ELSE Order[Met(D)].code

\* _REPAIRABLE_CONTRACT_ERRORS: the field that is written again.
Unrepairable == {"SLIDES_INVALID", "SLIDE_TEXT_EMPTY"}
FieldOf(code) ==
    CASE code = "COVER_TITLE"   -> "cover"
      [] code = "HASHTAG_COUNT" -> "hashtags"
      [] code \in {"CAPTION_LENGTH", "CAPTION_CTA_COUNT", "CAPTION_CTA_PLACE"} -> "caption"
      [] OTHER -> "body"

\* _repair_eligible
Eligible(code) ==
    /\ code \notin Unrepairable \cup {""}
    /\ \/ kind = "facts"
       \/ kind = "short" /\ code \in {"CTA_NOT_LAST", "CAPTION_CTA_PLACE", "CAPTION_LENGTH"}

\* Where the text goes when its error is known.
AfterContract(D) == IF D # {} THEN ErrorOf(D)
                    ELSE IF scenes = "none" THEN "facts" ELSE "scenes"

Write ==
    /\ result = "none"
    /\ \/ \E D \in Texts :
            /\ first' = D /\ defects' = D
            /\ result' = IF Eligible(ErrorOf(D)) THEN "repair" ELSE AfterContract(D)
       \/ result' = "GENERATION_FAILED" /\ UNCHANGED <<first, defects>>
    /\ UNCHANGED <<kind, scenes, skilled, tries>>

\* The slides of the body whose calls to action are out of place, or the field;
\* the last slide keeps its own defect when only the others are written again.
Rewritten(D) ==
    LET code == ErrorOf(D)
        part == {i \in Possible : Order[i].field = FieldOf(code)}
    IN  IF code = "CTA_NOT_LAST"
        THEN IF \E i \in D \cap part : Order[i].code = code
             THEN {i \in part : Order[i].code # "LAST_CTA_COUNT"} ELSE {}
        ELSE part

\* What one rewriting may return.
Rewritings(D) ==
    IF skilled THEN {D \ {i \in Rewritten(D) : Order[i].code = ErrorOf(D)}}
    ELSE {E \in Texts : E \ Rewritten(D) = D \ Rewritten(D)}

\* Mutant: one rewriting and no more, as before the second round was added.
Goes_Once(D, E) == FALSE

\* Another round only for another error that can be mended.
Goes(D, E) == /\ ErrorOf(E) # ErrorOf(D)
              /\ Eligible(ErrorOf(E))
              /\ tries + 1 < MaxRounds

Outcome(D, E) == IF Goes(D, E) THEN "repair" ELSE AfterContract(E)

Repair ==
    /\ result = "repair"
    /\ \/ \E E \in Rewritings(defects) :
            defects' = E /\ result' = Outcome(defects, E)
       \/ /\ ~skilled /\ Rewritten(defects) # {}         \* Gemini is asked at all
          /\ result' = "CONTRACT_REPAIR_FAILED" /\ UNCHANGED defects
    /\ tries' = tries + 1
    /\ UNCHANGED <<kind, scenes, skilled, first>>

\* _validate_image_scenes and _repair_forbidden_scenes: once, and checked again.
Scenes ==
    /\ result = "scenes"
    /\ \/ scenes = "fine" /\ result' = "facts" /\ UNCHANGED scenes
       \/ scenes = "invalid" /\ result' = "IMAGE_SCENE_INVALID" /\ UNCHANGED scenes
       \/ /\ scenes = "forbidden"
          /\ scenes' \in {"fine", "invalid", "forbidden"}
          /\ result' = IF scenes' = "fine" THEN "facts" ELSE "IMAGE_SCENE_INVALID"
       \/ scenes = "forbidden" /\ result' = "IMAGE_SCENE_REPAIR_FAILED" /\ UNCHANGED scenes
    /\ UNCHANGED <<kind, skilled, first, defects, tries>>

\* Fabrication, safety and duplicates are judged without a rewriting.
Review ==
    /\ result = "facts"
    /\ result' \in {"done", "POSSIBLE_FABRICATION", "SAFETY_BLOCKED", "DUPLICATE_FINGERPRINT"}
    /\ UNCHANGED <<kind, scenes, skilled, first, defects, tries>>

TextInit ==
    /\ kind \in {"eight", "short", "facts"}
    /\ scenes \in {"none", "fine", "invalid", "forbidden"}
    /\ kind = "eight" => scenes = "none"
    /\ skilled \in BOOLEAN
    /\ first = {} /\ defects = {} /\ tries = 0 /\ result = "none"

TextNext == Write \/ Repair \/ Scenes \/ Review

TextSpec == TextInit /\ [][TextNext]_textVars

-----------------------------------------------------------------------------

TextTypeOK ==
    /\ kind \in {"eight", "short", "facts"}
    /\ scenes \in {"none", "fine", "invalid", "forbidden"}
    /\ skilled \in BOOLEAN
    /\ first \subseteq DOMAIN Order /\ defects \subseteq DOMAIN Order
    /\ tries \in 0..MaxRounds

\* A package is made only of a text without a defect, though a rewriting may
\* bring back what was mended before.
DoneIsClean == result = "done" => defects = {} /\ scenes \in {"none", "fine"}

\* Can be mended by writing its field again: not a cover that only the body's
\* rewriting is asked for.
Mendable(i) == Eligible(Order[i].code) /\ Order[i].field = FieldOf(Order[i].code)

\* A defect behind another one is reached: with at most as many different
\* errors as rounds, all of them mendable, a skilled writer never fails the
\* contract (the second round was added for this).
HiddenDefectIsMended ==
    skilled /\ first # {} /\ (\A i \in first : Mendable(i))
            /\ Cardinality({Order[i].code : i \in first}) <= MaxRounds
        => result \in {"repair", "scenes", "facts", "done", "IMAGE_SCENE_INVALID",
                       "IMAGE_SCENE_REPAIR_FAILED", "POSSIBLE_FABRICATION",
                       "SAFETY_BLOCKED", "DUPLICATE_FINGERPRINT"}

\* What the text of a package promises.
TextIsSound == TextTypeOK /\ DoneIsClean /\ HiddenDefectIsMended
=============================================================================
