---------------------------- MODULE RecordsProofs ----------------------------
(***************************************************************************)
(* The parts that write rows a person or another job relies on: what each  *)
(* of them keeps, for any number of records, tabs, batches and failures.   *)
(* They share no variable; each theorem is of the specification of its own *)
(* part.                                                                   *)
(***************************************************************************)
EXTENDS ReviewBatches, SourceExport, FacebookCrawl, CampaignCutover, TLAPS

-----------------------------------------------------------------------------
(* The export of source items and its canary.  A row says EXPORTED only by  *)
(* the hand of one who has just seen or made a post; whatever else is       *)
(* written over it, no post is ever taken away.                             *)

Rows == [status : {"none", "NEW", "QUEUED", "EXPORTED", "FAILED", "REJECTED"},
         retries : Nat, wait : BOOLEAN, old : BOOLEAN, account : {"none", "own", "other"}]

HasPost(i) == made[i].ready > 0 \/ made[i].draft > 0

ExportShape ==
    /\ source \in [Items -> Rows]
    /\ made \in [Items -> [ready : Nat, draft : Nat]]
    /\ crawl \in [at : {"idle", "save", "touch"}, item : Items \cup {NoItem}]
    /\ export \in [at : {"idle", "next", "check", "make", "retry", "post", "done"},
                   item : Items \cup {NoItem}, batch : SUBSET Items, read : [Items -> Nat]]
    /\ canary \in [at : {"idle", "claim", "post", "finish", "reject", "passed", "failed"},
                   begun : BOOLEAN]
    /\ run \in [status : {"none", "RUNNING", "COMPLETED", "FAILED"}, patches : Nat, posts : Nat]
    /\ sent \in [patches : Nat, posts : Nat]

\* The crawl and the export have an item in hand; the export's is not another account's.
InHand ==
    /\ crawl.at # "idle" => crawl.item \in Items
    /\ export.at \in {"check", "make", "retry", "post", "done"} =>
           export.item \in Items /\ source[export.item].account # "other"
    /\ export.at = "done" => HasPost(export.item)

\* The canary has its draft before it says so, and never works for another account.
CanaryInHand ==
    /\ canary.at \in {"finish", "passed"} => made[Approved].draft > 0
    /\ canary.at # "idle" => source[Approved].account # "other"

\* What the guard has counted is what was sent.
Budgeted ==
    /\ sent.patches = run.patches /\ run.patches <= PatchBudget
    /\ sent.posts = run.posts /\ run.posts <= PostBudget

ExportInv ==
    /\ ExportShape /\ InHand /\ CanaryInHand /\ Budgeted
    /\ \A i \in Items : /\ source[i].status = "EXPORTED" => HasPost(i)
                        /\ source[i].account = "other" => ~HasPost(i)
    /\ run.status = "COMPLETED" => made[Approved].draft > 0

\* A row that may be written over that of item i: nobody's item becomes another
\* account's, and exported is what has a post.
Fair(i, row) ==
    /\ row \in Rows
    /\ row.account = "other" => source[i].account = "other"
    /\ row.status = "EXPORTED" => source[i].status = "EXPORTED" \/ HasPost(i)

LEMMA RowsAreFair ==
    ASSUME ExportInv, NEW i \in Items
    PROVE  /\ source[i] \in Rows /\ Fair(i, source[i])
           /\ NoRow \in Rows
           /\ Fair(i, [NoRow EXCEPT !.status = "NEW"])
           /\ Fair(i, [source[i] EXCEPT !.status = "NEW"])
           /\ Fair(i, [source[i] EXCEPT !.status = "REJECTED"])
           /\ Fair(i, [source[i] EXCEPT !.old = TRUE])
           /\ Fair(i, [source[i] EXCEPT !.wait = FALSE])
           /\ Fair(i, Claimed(i)) /\ Claimed(i).account # "other"
           /\ HasPost(i) => Fair(i, Exported(i))
           /\ Fair(i, Delayed(i))
<1>1. source[i] \in Rows
  BY DEF ExportInv, ExportShape
<1>2. export.read[i] + 1 \in Nat
  <2>1. export.read \in [Items -> Nat]
    BY DEF ExportInv, ExportShape
  <2> QED
    BY <2>1
<1>3. NoRow \in Rows /\ Fair(i, [NoRow EXCEPT !.status = "NEW"])
  BY DEF NoRow, Rows, Fair
<1>4. /\ Fair(i, [source[i] EXCEPT !.status = "NEW"])
      /\ Fair(i, [source[i] EXCEPT !.status = "REJECTED"])
  BY <1>1 DEF Rows, Fair
<1>5. /\ Fair(i, [source[i] EXCEPT !.old = TRUE])
      /\ Fair(i, [source[i] EXCEPT !.wait = FALSE])
      /\ Fair(i, source[i])
  BY <1>1 DEF Rows, Fair
<1>6. Fair(i, Claimed(i)) /\ Claimed(i).account # "other"
  BY <1>1 DEF Rows, Fair, Claimed
<1>7. HasPost(i) => Fair(i, Exported(i))
  BY <1>1 DEF Rows, Fair, Exported
<1>8. Fair(i, Delayed(i))
  <2>1. PICK n \in Nat : n = export.read[i] + 1
    BY <1>2
  <2>2. Delayed(i) = [source[i] EXCEPT !.retries = n, !.wait = TRUE,
                                       !.status = IF n >= MaxFailures THEN "FAILED" ELSE "NEW"]
    BY <2>1 DEF Delayed
  <2> QED
    BY <1>1, <2>2 DEF Rows, Fair
<1> QED
  BY <1>1, <1>3, <1>4, <1>5, <1>6, <1>7, <1>8

\* A step writes fair rows only.
LEMMA SourceStep ==
    ASSUME ExportInv, ExportNext
    PROVE  /\ source' \in [Items -> Rows]
           /\ \A i \in Items : Fair(i, source'[i])
<1> DEFINE Goal == source' \in [Items -> Rows] /\ \A i \in Items : Fair(i, source'[i])
<1>1. source \in [Items -> Rows] /\ Approved \in Items
  BY ExportAssumption DEF ExportInv, ExportShape
<1>2. CASE UNCHANGED source
  BY <1>1, <1>2, RowsAreFair
<1>3. ASSUME NEW i \in Items, NEW row, Fair(i, row), source' = [source EXCEPT ![i] = row]
      PROVE  Goal
  BY <1>1, <1>3, RowsAreFair DEF Fair
<1>5. CASE CrawlSave
  BY <1>2, <1>3, <1>5, RowsAreFair DEF CrawlSave, Patch, ExportInv, InHand
<1>6. CASE CrawlTouch
  BY <1>2, <1>3, <1>6, RowsAreFair DEF CrawlTouch, Patch, ExportInv, InHand
<1>7. CASE ExportStart
  <2>1. PICK left \in SUBSET Items : source' = Unstuck(left)
    BY <1>7 DEF ExportStart
  <2>2. \A i \in Items : source'[i] = [source[i] EXCEPT !.status = "NEW"] \/ source'[i] = source[i]
    BY <2>1 DEF Unstuck
  <2>3. \A i \in Items : Fair(i, source'[i])
    BY <2>2, RowsAreFair
  <2>4. source' \in [Items -> Rows]
    BY <2>1, <2>3 DEF Unstuck, Fair
  <2> QED
    BY <2>3, <2>4
<1>8. ASSUME NEW i \in Items, ExportClaim(i) PROVE Goal
  BY <1>2, <1>3, <1>8, RowsAreFair DEF ExportClaim, Patch
<1>9. CASE ExportCheck
  <2>1. export.item \in Items
    BY <1>9 DEF ExportCheck, ExportInv, InHand
  <2>2. Found(export.item) => HasPost(export.item)
    BY DEF Found, HasPost
  <2> QED
    BY <1>2, <1>3, <1>9, <2>1, <2>2, RowsAreFair DEF ExportCheck, Patch
<1>10. CASE ExportRetry
  BY <1>2, <1>3, <1>10, RowsAreFair DEF ExportRetry, Patch, ExportInv, InHand
<1>11. CASE ExportDone
  BY <1>2, <1>3, <1>11, RowsAreFair DEF ExportDone, Patch, ExportInv, InHand
<1>12. ASSUME NEW i \in Items, Ages(i) \/ ComesDue(i) PROVE Goal
  <2>1. \/ source' = [source EXCEPT ![i] = [source[i] EXCEPT !.old = TRUE]]
        \/ source' = [source EXCEPT ![i] = [source[i] EXCEPT !.wait = FALSE]]
    BY <1>1, <1>12 DEF Ages, ComesDue
  <2> QED
    BY <1>3, <2>1, RowsAreFair
<1>13. CASE CanaryClaim
  BY <1>1, <1>2, <1>3, <1>13, RowsAreFair DEF CanaryClaim, CanaryPatch, CanaryDenied
<1>14. CASE CanaryFinish
  <2>1. HasPost(Approved)
    BY <1>14 DEF CanaryFinish, ExportInv, CanaryInHand, HasPost
  <2> QED
    BY <1>1, <1>2, <1>3, <1>14, <2>1, RowsAreFair DEF CanaryFinish, CanaryPatch, CanaryDenied
<1>15. CASE CanaryReject
  BY <1>1, <1>2, <1>3, <1>15, RowsAreFair DEF CanaryReject, CanaryPatch, CanaryDenied
<1>16. CASE \/ \E i \in Items : CrawlItem(i)
            \/ ExportMake \/ ExportPost \/ CanaryBegin \/ CanaryStart \/ CanaryPost
            \/ CanaryEnd \/ CanaryDies \/ Reboot
            \/ \E m \in {"production", "safe", "expired"} : TurnPolicy(m)
  BY <1>2, <1>16 DEF CrawlItem, ExportMake, ExportPost, CanaryBegin, CanaryStart, CanaryPost,
     CanaryDenied, CanaryEnd, CanaryDies, Reboot, TurnPolicy
<1> QED
  BY <1>5, <1>6, <1>7, <1>8, <1>9, <1>10, <1>11, <1>12, <1>13, <1>14, <1>15, <1>16
     DEF ExportNext

\* Posts are only added, by the export to an item of this account in its hands and by
\* the canary to the approved one.
LEMMA MadeStep ==
    ASSUME ExportInv, ExportNext
    PROVE  /\ made' \in [Items -> [ready : Nat, draft : Nat]]
           /\ \A i \in Items : /\ made'[i].ready >= made[i].ready
                               /\ made'[i].draft >= made[i].draft
                               /\ HasPost(i)' => HasPost(i) \/ source[i].account # "other"
<1>1. /\ made \in [Items -> [ready : Nat, draft : Nat]] /\ Approved \in Items
      /\ \A i \in Items : made[i].ready \in Nat /\ made[i].draft \in Nat
  BY ExportAssumption DEF ExportInv, ExportShape
<1>2. ASSUME NEW i \in Items, NEW w, w \in [ready : Nat, draft : Nat],
             w.ready >= made[i].ready, w.draft >= made[i].draft,
             source[i].account # "other", made' = [made EXCEPT ![i] = w]
      PROVE  /\ made' \in [Items -> [ready : Nat, draft : Nat]]
             /\ \A j \in Items : /\ made'[j].ready >= made[j].ready
                                 /\ made'[j].draft >= made[j].draft
                                 /\ HasPost(j)' => HasPost(j) \/ source[j].account # "other"
  BY <1>1, <1>2 DEF HasPost
<1>3. ASSUME UNCHANGED made
      PROVE  /\ made' \in [Items -> [ready : Nat, draft : Nat]]
             /\ \A j \in Items : /\ made'[j].ready >= made[j].ready
                                 /\ made'[j].draft >= made[j].draft
                                 /\ HasPost(j)' => HasPost(j) \/ source[j].account # "other"
  BY <1>1, <1>3 DEF HasPost
<1>4. CASE ExportPost
  <2> DEFINE w == [made[export.item] EXCEPT !.ready = @ + 1]
  <2>1. export.item \in Items /\ source[export.item].account # "other"
    BY <1>4 DEF ExportPost, ExportInv, InHand
  <2>2. /\ w \in [ready : Nat, draft : Nat]
        /\ w.ready >= made[export.item].ready /\ w.draft >= made[export.item].draft
    BY <1>1, <2>1
  <2>3. UNCHANGED made \/ made' = [made EXCEPT ![export.item] = w]
    BY <1>4, <2>1 DEF ExportPost
  <2> HIDE DEF w
  <2> QED
    BY <1>2, <1>3, <2>1, <2>2, <2>3
<1>5. CASE CanaryPost
  <2> DEFINE w == [made[Approved] EXCEPT !.draft = @ + 1]
  <2>1. source[Approved].account # "other"
    BY <1>5 DEF CanaryPost, ExportInv, CanaryInHand
  <2>2. /\ w \in [ready : Nat, draft : Nat]
        /\ w.ready >= made[Approved].ready /\ w.draft >= made[Approved].draft
    BY <1>1
  <2>3. UNCHANGED made \/ made' = [made EXCEPT ![Approved] = w]
    BY <1>5 DEF CanaryPost
  <2> HIDE DEF w
  <2> QED
    BY <1>1, <1>2, <1>3, <2>1, <2>2, <2>3
<1>6. CASE ~ExportPost /\ ~CanaryPost
  <2>1. UNCHANGED made
    BY <1>6 DEF ExportNext, CrawlItem, CrawlSave, CrawlTouch, ExportStart, ExportClaim,
       ExportCheck, ExportMake, ExportRetry, ExportDone, Ages, ComesDue, CanaryBegin,
       CanaryStart, CanaryClaim, CanaryFinish, CanaryReject, CanaryEnd, CanaryDies,
       TurnPolicy, Reboot
  <2> QED
    BY <1>3, <1>6, <2>1
<1> QED
  BY <1>4, <1>5, <1>6

\* What a step does to the crawl's hand.
LEMMA CrawlStep ==
    ASSUME ExportNext
    PROVE  \/ UNCHANGED crawl
           \/ crawl' = CrawlIdle
           \/ \E i \in Items : crawl' = [at |-> "save", item |-> i]
           \/ crawl.at = "save" /\ crawl' = [crawl EXCEPT !.at = "touch"]
<1>1. CASE CrawlSave
  BY <1>1 DEF CrawlSave, Patch
<1>2. CASE CrawlTouch
  BY <1>2 DEF CrawlTouch, Patch
<1>3. CASE ~CrawlSave /\ ~CrawlTouch
  BY <1>3 DEF ExportNext, CrawlItem, ExportStart, ExportClaim, ExportCheck, ExportMake,
     ExportRetry, ExportPost, ExportDone, Ages, ComesDue, CanaryBegin, CanaryStart,
     CanaryClaim, CanaryPost, CanaryFinish, CanaryReject, CanaryEnd, CanaryDies, TurnPolicy,
     Reboot
<1> QED
  BY <1>1, <1>2, <1>3

\* What a step does to the export's hand: it drops the item, takes one of this account,
\* or goes on with it; it is done when it has just made the post.
LEMMA ExportStep ==
    ASSUME ExportInv, ExportNext
    PROVE  \/ UNCHANGED export
           \/ export' \in [at : {"idle", "next"}, item : {export.item, NoItem},
                           batch : SUBSET Items, read : [Items -> Nat]]
           \/ \E i \in Items :
                 /\ export' \in [at : {"check"}, item : {i},
                                 batch : SUBSET Items, read : [Items -> Nat]]
                 /\ source' = [source EXCEPT ![i] = Claimed(i)]
           \/ \E at \in {"make", "post", "retry"} :
                 /\ export.at \in {"check", "make", "post"}
                 /\ export' = [export EXCEPT !.at = at]
           \/ /\ export.at = "post" /\ export' = [export EXCEPT !.at = "done"]
              /\ made' = [made EXCEPT ![export.item].ready = @ + 1]
<1> DEFINE Drops == export' \in [at : {"idle", "next"}, item : {export.item, NoItem},
                                  batch : SUBSET Items, read : [Items -> Nat]]
           Claims == \E i \in Items :
                        /\ export' \in [at : {"check"}, item : {i},
                                        batch : SUBSET Items, read : [Items -> Nat]]
                        /\ source' = [source EXCEPT ![i] = Claimed(i)]
<1>1. export \in [at : {export.at}, item : {export.item},
                  batch : SUBSET Items, read : [Items -> Nat]]
  BY DEF ExportInv, ExportShape
<1>2. export' = ExportIdle => Drops
  BY DEF ExportIdle
<1>3. NextItem => Drops
  BY <1>1 DEF NextItem
<1>4. CASE ExportStart
  <2>1. PICK B : B = Due(source')
    OBVIOUS
  <2>2. PICK f : f = [i \in Items |-> source'[i].retries]
    OBVIOUS
  <2>3. f \in [Items -> Nat]
    BY <2>2, SourceStep DEF Rows
  <2>4. /\ export' = [at |-> "next", item |-> NoItem, batch |-> B, read |-> f]
        /\ B \in SUBSET Items
    BY <1>4, <2>1, <2>2 DEF ExportStart, ExportIdle, Due
  <2> QED
    BY <2>3, <2>4
<1>5. ASSUME NEW i \in Items, ExportClaim(i) PROVE Drops \/ Claims
  <2> DEFINE rest == export.batch \ {i}
             at == IF rest = {} THEN "idle" ELSE "next"
  <2>1. \/ export' = [export EXCEPT !.batch = rest, !.at = at]
        \/ /\ export' = [[export EXCEPT !.batch = rest, !.at = at] EXCEPT !.at = "check", !.item = i]
           /\ source' = [source EXCEPT ![i] = Claimed(i)]
    BY <1>5 DEF ExportClaim, Patch
  <2>2. rest \in SUBSET Items /\ at \in {"idle", "next"}
    BY <1>1
  <2> HIDE DEF rest, at
  <2>3. [export EXCEPT !.batch = rest, !.at = at]
          \in [at : {"idle", "next"}, item : {export.item},
               batch : SUBSET Items, read : [Items -> Nat]]
    BY <1>1, <2>2
  <2>4. [[export EXCEPT !.batch = rest, !.at = at] EXCEPT !.at = "check", !.item = i]
          \in [at : {"check"}, item : {i}, batch : SUBSET Items, read : [Items -> Nat]]
    BY <2>3
  <2>5. CASE export' = [export EXCEPT !.batch = rest, !.at = at]
    BY <2>3, <2>5
  <2> QED
    BY <2>1, <2>4, <2>5
<1>6. CASE ExportCheck
  <2>1. export' = [export EXCEPT !.at = "make"] \/ NextItem
    BY <1>6 DEF ExportCheck, Patch
  <2> QED
    BY <1>3, <1>6, <2>1 DEF ExportCheck
<1>7. CASE ExportMake
  BY <1>7 DEF ExportMake
<1>8. CASE ExportRetry
  <2>1. NextItem \/ export' = ExportIdle
    BY <1>8 DEF ExportRetry, Patch
  <2> QED
    BY <1>2, <1>3, <2>1
<1>9. CASE ExportPost
  BY <1>9 DEF ExportPost
<1>10. CASE ExportDone
  <2>1. NextItem
    BY <1>10 DEF ExportDone, Patch
  <2> QED
    BY <1>3, <2>1
<1>11. CASE Reboot
  BY <1>2, <1>11 DEF Reboot
<1>12. CASE \/ \E i \in Items : CrawlItem(i) \/ Ages(i) \/ ComesDue(i)
            \/ CrawlSave \/ CrawlTouch \/ CanaryBegin \/ CanaryStart \/ CanaryClaim
            \/ CanaryPost \/ CanaryFinish \/ CanaryReject \/ CanaryEnd \/ CanaryDies
            \/ \E m \in {"production", "safe", "expired"} : TurnPolicy(m)
  BY <1>12 DEF CrawlItem, CrawlSave, CrawlTouch, Ages, ComesDue, CanaryBegin, CanaryStart,
     CanaryClaim, CanaryPost, CanaryFinish, CanaryReject, CanaryEnd, CanaryDies, TurnPolicy
<1> QED
  BY <1>4, <1>5, <1>6, <1>7, <1>8, <1>9, <1>10, <1>11, <1>12 DEF ExportNext

\* What a step does to the canary, its run and what it has sent.
LEMMA CanaryMoves ==
    ASSUME ExportNext
    PROVE  \/ UNCHANGED <<canary, run, sent>>
           \/ UNCHANGED <<run, sent>> /\ canary' = CanaryIdle
           \/ /\ CanaryBegin
           \/ /\ UNCHANGED <<run, sent>>
              /\ CanaryStart
           \/ /\ canary.at = "claim" /\ canary' = [canary EXCEPT !.at = "failed"]
              /\ UNCHANGED <<run, sent>>
           \/ /\ canary.at = "finish" /\ canary' = [canary EXCEPT !.at = "reject"]
              /\ UNCHANGED <<run, sent>>
           \/ /\ canary.at = "reject" /\ canary' = [canary EXCEPT !.at = "failed"]
              /\ UNCHANGED <<run, sent>>
           \/ /\ canary.at = "post" /\ canary' = [canary EXCEPT !.at = "reject"]
              /\ UNCHANGED <<run, sent>>
           \/ /\ run.patches < PatchBudget
              /\ run' = [run EXCEPT !.patches = @ + 1] /\ sent' = [sent EXCEPT !.patches = @ + 1]
              /\ \/ canary.at = "finish" /\ canary' = [canary EXCEPT !.at = "passed"]
                 \/ /\ canary.at # "idle"
                    /\ \E at \in {"post", "reject", "failed"} : canary' = [canary EXCEPT !.at = at]
           \/ /\ run.posts < PostBudget
              /\ run' = [run EXCEPT !.posts = @ + 1] /\ sent' = [sent EXCEPT !.posts = @ + 1]
              /\ canary.at = "post"
              /\ \/ canary' = [canary EXCEPT !.at = "reject"]
                 \/ /\ canary' = [canary EXCEPT !.at = "finish"]
                    /\ made' = [made EXCEPT ![Approved].draft = @ + 1]
           \/ CanaryEnd
<1>1. CASE CanaryClaim
  BY <1>1 DEF CanaryClaim, CanaryPatch, CanaryDenied, MayPatch
<1>2. CASE CanaryFinish
  BY <1>2 DEF CanaryFinish, CanaryPatch, CanaryDenied, MayPatch
<1>3. CASE CanaryReject
  BY <1>3 DEF CanaryReject, CanaryPatch, CanaryDenied, MayPatch
<1>4. CASE CanaryPost
  BY <1>4 DEF CanaryPost, CanaryDenied, MayPost
<1>5. CASE CanaryDies
  BY <1>5 DEF CanaryDies
<1>6. CASE CanaryStart
  BY <1>6 DEF CanaryStart
<1>7. CASE CanaryBegin \/ CanaryEnd
  BY <1>7
<1>8. CASE \/ \E i \in Items : CrawlItem(i) \/ ExportClaim(i) \/ Ages(i) \/ ComesDue(i)
           \/ CrawlSave \/ CrawlTouch \/ ExportStart \/ ExportCheck \/ ExportMake
           \/ ExportRetry \/ ExportPost \/ ExportDone \/ Reboot
           \/ \E m \in {"production", "safe", "expired"} : TurnPolicy(m)
  <2>1. UNCHANGED <<canary, run, sent>>
    BY <1>8 DEF CrawlItem, ExportClaim, Ages, ComesDue, CrawlSave, CrawlTouch, ExportStart,
       ExportCheck, ExportMake, ExportRetry, ExportPost, ExportDone, Reboot, TurnPolicy
  <2> QED
    BY <2>1
<1> QED
  BY <1>1, <1>2, <1>3, <1>4, <1>5, <1>6, <1>7, <1>8 DEF ExportNext

LEMMA ExportShapeNext ==
    ASSUME ExportInv, ExportNext
    PROVE  ExportShape'
<1>1. /\ crawl \in [at : {"idle", "save", "touch"}, item : Items \cup {NoItem}]
      /\ export \in [at : {"idle", "next", "check", "make", "retry", "post", "done"},
                     item : Items \cup {NoItem}, batch : SUBSET Items, read : [Items -> Nat]]
      /\ canary \in [at : {"idle", "claim", "post", "finish", "reject", "passed", "failed"},
                     begun : BOOLEAN]
      /\ run \in [status : {"none", "RUNNING", "COMPLETED", "FAILED"}, patches : Nat, posts : Nat]
      /\ sent \in [patches : Nat, posts : Nat]
  BY DEF ExportInv, ExportShape
<1>2. source' \in [Items -> Rows] /\ made' \in [Items -> [ready : Nat, draft : Nat]]
  BY SourceStep, MadeStep
<1>3. crawl' \in [at : {"idle", "save", "touch"}, item : Items \cup {NoItem}]
  BY <1>1, CrawlStep DEF CrawlIdle
<1>4. export' \in [at : {"idle", "next", "check", "make", "retry", "post", "done"},
                   item : Items \cup {NoItem}, batch : SUBSET Items, read : [Items -> Nat]]
  BY <1>1, ExportStep
<1>5. run.patches + 1 \in Nat /\ run.posts + 1 \in Nat
      /\ sent.patches + 1 \in Nat /\ sent.posts + 1 \in Nat
  BY <1>1
<1>6. canary' \in [at : {"idle", "claim", "post", "finish", "reject", "passed", "failed"},
                   begun : BOOLEAN]
  <2>1. \/ UNCHANGED canary \/ canary' = CanaryIdle \/ canary' = [canary EXCEPT !.begun = TRUE]
        \/ \E at \in {"idle", "claim", "post", "finish", "reject", "passed", "failed"} :
              canary' = [canary EXCEPT !.at = at]
    BY CanaryMoves DEF CanaryBegin, CanaryStart, CanaryEnd
  <2>2. \A at \in {"idle", "claim", "post", "finish", "reject", "passed", "failed"} :
           [canary EXCEPT !.at = at] \in
              [at : {"idle", "claim", "post", "finish", "reject", "passed", "failed"}, begun : BOOLEAN]
    BY <1>1
  <2>3. /\ [canary EXCEPT !.begun = TRUE] \in
              [at : {"idle", "claim", "post", "finish", "reject", "passed", "failed"}, begun : BOOLEAN]
        /\ CanaryIdle \in
              [at : {"idle", "claim", "post", "finish", "reject", "passed", "failed"}, begun : BOOLEAN]
    BY <1>1 DEF CanaryIdle
  <2> QED
    BY <1>1, <2>1, <2>2, <2>3
<1>7. run' \in [status : {"none", "RUNNING", "COMPLETED", "FAILED"}, patches : Nat, posts : Nat]
  BY <1>1, <1>5, CanaryMoves DEF CanaryBegin, CanaryEnd
<1>8. sent' \in [patches : Nat, posts : Nat]
  BY <1>1, <1>5, CanaryMoves DEF CanaryBegin, CanaryEnd
<1> QED
  BY <1>2, <1>3, <1>4, <1>6, <1>7, <1>8 DEF ExportShape

LEMMA InHandNext ==
    ASSUME ExportInv, ExportNext
    PROVE  InHand'
<1>1. ExportShape /\ InHand /\ ExportShape'
  BY ExportShapeNext DEF ExportInv
<1>2. \A i \in Items : /\ source[i].account # "other" => source'[i].account # "other"
                       /\ HasPost(i) => HasPost(i)'
  BY <1>1, SourceStep, MadeStep DEF Fair, HasPost, ExportShape
<1>3. crawl'.at # "idle" => crawl'.item \in Items
  <2>1. crawl \in [at : {"idle", "save", "touch"}, item : Items \cup {NoItem}]
    BY <1>1 DEF ExportShape
  <2> QED
    BY <1>1, <2>1, CrawlStep DEF InHand, CrawlIdle
<1> DEFINE Holds == {"check", "make", "retry", "post", "done"}
<1>4. export \in [at : {"idle", "next", "check", "make", "retry", "post", "done"},
                  item : Items \cup {NoItem}, batch : SUBSET Items, read : [Items -> Nat]]
  BY <1>1 DEF ExportShape
<1>5. ASSUME export'.at \in Holds
      PROVE  export'.item \in Items /\ source'[export'.item].account # "other"
  <2>1. \/ export'.item = export.item /\ export.at \in Holds
        \/ \E i \in Items : export'.item = i /\ source' = [source EXCEPT ![i] = Claimed(i)]
    BY <1>4, <1>5, ExportStep
  <2>2. ASSUME NEW i \in Items, source' = [source EXCEPT ![i] = Claimed(i)]
        PROVE  source'[i].account # "other"
    BY <1>1, <2>2, RowsAreFair DEF ExportShape
  <2> QED
    BY <1>1, <1>2, <2>1, <2>2 DEF InHand
<1>6. ASSUME export'.at = "done" PROVE HasPost(export.item)' /\ export'.item = export.item
  <2>1. \/ export.at = "done" /\ UNCHANGED export
        \/ /\ export.at = "post" /\ export' = [export EXCEPT !.at = "done"]
           /\ made' = [made EXCEPT ![export.item].ready = @ + 1]
    BY <1>4, <1>6, ExportStep
  <2>2. CASE export.at = "done" /\ UNCHANGED export
    BY <1>1, <1>2, <2>2 DEF InHand, HasPost
  <2>3. CASE /\ export.at = "post" /\ export' = [export EXCEPT !.at = "done"]
             /\ made' = [made EXCEPT ![export.item].ready = @ + 1]
    <3>1. export.item \in Items /\ export'.item = export.item
      BY <1>1, <1>4, <2>3 DEF InHand
    <3>2. made[export.item] \in [ready : Nat, draft : Nat]
      BY <1>1, <3>1 DEF ExportShape
    <3>3. made'[export.item].ready > 0
      BY <1>1, <2>3, <3>1, <3>2 DEF ExportShape
    <3> QED
      BY <3>1, <3>3 DEF HasPost
  <2> QED
    BY <2>1, <2>2, <2>3
<1> QED
  BY <1>3, <1>5, <1>6 DEF InHand, HasPost

LEMMA CanaryNext ==
    ASSUME ExportInv, ExportNext
    PROVE  CanaryInHand' /\ Budgeted' /\ (run'.status = "COMPLETED" => made'[Approved].draft > 0)
<1>1. ExportShape /\ CanaryInHand /\ Budgeted /\ Approved \in Items
  BY ExportAssumption DEF ExportInv
<1>2. /\ source[Approved].account # "other" => source'[Approved].account # "other"
      /\ made[Approved].draft > 0 => made'[Approved].draft > 0
  BY <1>1, SourceStep, MadeStep DEF Fair, ExportShape
<1>3. /\ canary \in [at : {"idle", "claim", "post", "finish", "reject", "passed", "failed"},
                     begun : BOOLEAN]
      /\ run \in [status : {"none", "RUNNING", "COMPLETED", "FAILED"}, patches : Nat, posts : Nat]
      /\ sent \in [patches : Nat, posts : Nat]
      /\ made[Approved] \in [ready : Nat, draft : Nat]
      /\ made \in [Items -> [ready : Nat, draft : Nat]]
  BY <1>1 DEF ExportShape
<1>4. ASSUME canary'.at \in {"finish", "passed"} PROVE made'[Approved].draft > 0
  <2>1. \/ canary.at \in {"finish", "passed"}
        \/ made' = [made EXCEPT ![Approved].draft = @ + 1]
    BY <1>3, <1>4, CanaryMoves DEF CanaryIdle, CanaryBegin, CanaryStart, CanaryEnd
  <2>2. CASE made' = [made EXCEPT ![Approved].draft = @ + 1]
    BY <1>1, <1>3, <2>2
  <2> QED
    BY <1>1, <1>2, <2>1, <2>2 DEF CanaryInHand
<1>5. ASSUME canary'.at # "idle" PROVE source'[Approved].account # "other"
  <2>1. canary.at # "idle" \/ CanaryStart
    BY <1>3, <1>5, CanaryMoves DEF CanaryIdle, CanaryBegin, CanaryEnd
  <2> QED
    BY <1>1, <1>2, <2>1 DEF CanaryInHand, CanaryStart
<1>6. ASSUME run'.status = "COMPLETED" PROVE made'[Approved].draft > 0
  <2>1. run.status = "COMPLETED" \/ canary.at = "passed"
    BY <1>3, <1>6, CanaryMoves DEF CanaryBegin, CanaryEnd
  <2> QED
    BY <1>1, <1>2, <2>1 DEF CanaryInHand, ExportInv
<1>7. Budgeted'
  <2>1. /\ run.patches \in Nat /\ run.posts \in Nat /\ PatchBudget \in Nat /\ PostBudget \in Nat
        /\ sent.patches \in Nat /\ sent.posts \in Nat
    BY <1>3, ExportAssumption
  <2>2. \/ /\ run'.patches = run.patches + 1 /\ sent'.patches = sent.patches + 1
           /\ run.patches < PatchBudget
        \/ run'.patches = run.patches /\ sent'.patches = sent.patches
    BY <1>3, CanaryMoves DEF CanaryBegin, CanaryEnd
  <2>3. \/ /\ run'.posts = run.posts + 1 /\ sent'.posts = sent.posts + 1
           /\ run.posts < PostBudget
        \/ run'.posts = run.posts /\ sent'.posts = sent.posts
    BY <1>3, CanaryMoves DEF CanaryBegin, CanaryEnd
  <2> QED
    BY <1>1, <2>1, <2>2, <2>3 DEF Budgeted
<1> QED
  BY <1>4, <1>5, <1>6, <1>7 DEF CanaryInHand

LEMMA InitExport == ExportInit => ExportInv
<1> SUFFICES ASSUME ExportInit PROVE ExportInv
  OBVIOUS
<1>1. Approved \in Items /\ PatchBudget \in Nat /\ PostBudget \in Nat
  BY ExportAssumption
<1>2. /\ NoRow \in Rows /\ NoRow.status = "none"
      /\ [NoRow EXCEPT !.status = "NEW", !.account = "other"] \in Rows
      /\ [NoRow EXCEPT !.status = "NEW", !.account = "other"].status = "NEW"
  BY DEF NoRow, Rows
<1>3. source \in [Items -> Rows] /\ \A i \in Items : source[i].status # "EXPORTED"
  <2>1. PICK a, b : /\ a \in Rows /\ a.status = "none" /\ b \in Rows /\ b.status = "NEW"
                    /\ source \in [Items -> {a, b}]
    BY <1>2 DEF ExportInit
  <2> QED
    BY <2>1
<1>4. made \in [Items -> [ready : Nat, draft : Nat]] /\ \A i \in Items : ~HasPost(i)
  BY DEF ExportInit, HasPost
<1>5. ExportShape
  BY <1>3, <1>4 DEF ExportInit, ExportShape, CrawlIdle, ExportIdle, CanaryIdle
<1>6. InHand /\ CanaryInHand /\ Budgeted /\ run.status # "COMPLETED"
  BY <1>1 DEF ExportInit, InHand, CanaryInHand, Budgeted, CrawlIdle, ExportIdle, CanaryIdle
<1> QED
  BY <1>3, <1>4, <1>5, <1>6 DEF ExportInv

LEMMA ExportInvStep == ExportInv /\ [ExportNext]_exportVars => ExportInv'
<1> SUFFICES ASSUME ExportInv, [ExportNext]_exportVars PROVE ExportInv'
  OBVIOUS
<1>1. CASE ExportNext
  <2>1. ExportShape' /\ InHand' /\ CanaryInHand' /\ Budgeted'
    BY <1>1, ExportShapeNext, InHandNext, CanaryNext
  <2>2. ASSUME NEW i \in Items
        PROVE  /\ source'[i].status = "EXPORTED" => HasPost(i)'
               /\ source'[i].account = "other" => ~HasPost(i)'
    <3>1. HasPost(i) => HasPost(i)'
      BY <1>1, MadeStep DEF HasPost, ExportInv, ExportShape
    <3>2. HasPost(i)' => HasPost(i) \/ source[i].account # "other"
      BY <1>1, MadeStep
    <3>3. Fair(i, source'[i])
      BY <1>1, SourceStep
    <3> QED
      BY <3>1, <3>2, <3>3 DEF Fair, ExportInv
  <2>3. run'.status = "COMPLETED" => made'[Approved].draft > 0
    BY <1>1, CanaryNext
  <2> QED
    BY <2>1, <2>2, <2>3 DEF ExportInv, HasPost
<1>2. CASE UNCHANGED exportVars
  BY <1>2 DEF exportVars, ExportInv, ExportShape, InHand, CanaryInHand, Budgeted, HasPost
<1> QED
  BY <1>1, <1>2

\* Between the crawl, the export, its canary, lost answers, dead processes and changes of
\* the boot policy: what is called exported has a post, the canary stays within its budget
\* and calls itself completed only with its draft, and an item of another account is never
\* posted for this one (source_exporter, canary_execution_guard).
THEOREM ExportIsSoundHolds == ExportSpec => []ExportIsSound
<1>1. ExportInit => ExportInv
  BY InitExport
<1>2. ExportInv /\ [ExportNext]_exportVars => ExportInv'
  BY ExportInvStep
<1>3. ExportInv => ExportIsSound
  <2> SUFFICES ASSUME ExportInv PROVE ExportIsSound
    OBVIOUS
  <2>1. \A i \in Items : made[i].ready \in Nat /\ made[i].draft \in Nat
    BY DEF ExportInv, ExportShape
  <2>2. ExportTypeOK
    BY DEF ExportInv, ExportShape, ExportTypeOK, Rows
  <2>3. ExportedHasPost /\ OthersAreLeft
    BY <2>1 DEF ExportInv, HasPost, ExportedHasPost, OthersAreLeft
  <2>4. CanaryKeepsBudget
    <3>1. /\ sent.patches = run.patches /\ run.patches <= PatchBudget
          /\ sent.posts = run.posts /\ run.posts <= PostBudget
      BY DEF ExportInv, Budgeted
    <3> QED
      BY <3>1 DEF CanaryKeepsBudget
  <2>5. CompletedHasDraft
    BY DEF ExportInv, CompletedHasDraft
  <2> QED
    BY <2>2, <2>3, <2>4, <2>5 DEF ExportIsSound
<1> QED
  BY <1>1, <1>2, <1>3, PTL DEF ExportSpec

-----------------------------------------------------------------------------
(* The review in batches.  A job about a batch carries the batch's own      *)
(* decisions, and what its reads have shown is on the batch before the      *)
(* verdict is; what a tab may take back was held by a full pass of reads.   *)

Maps(V) == UNION {[W -> V] : W \in SUBSET Candidates}

RowOf == [state : {"prepared", "committed", "failed", "cancelled", "superseded"},
          want : Maps({"PASS", "BLOCK"}), back : Statuses]
ReadOf == [held : BOOLEAN, denied : BOOLEAN]

TabJobs == [kind : {"none", "save", "recover", "undo"}, bid : Nat, want : Maps(Statuses),
         todo : SUBSET Candidates, chunk : SUBSET Candidates, refused : BOOLEAN,
         differs : SUBSET Candidates, unsure : SUBSET Candidates]

Sessions == [at : {"away", "shown", "saving", "rechecking", "verifying", "judged"},
             mode : Statuses, batch : SUBSET Candidates, blocked : BOOLEAN,
             undo : SUBSET Candidates, undoBid : Nat, undoTo : Statuses, job : TabJobs]

\* Value v of record r belongs to a batch on record, or is the one it came with.
OnRecord(r, v) ==
    v = "PENDING" \/ \E b \in DOMAIN batches : /\ r \in DOMAIN batches[b].want
                                               /\ v \in {batches[b].want[r], batches[b].back}

\* A verdict a job about batch job.bid is ready to give rests on what was read.
JobIsRead(job, at) ==
    job.kind \in {"save", "recover"} =>
        /\ job.bid \in DOMAIN batches /\ job.want = batches[job.bid].want
        /\ Wrong(job) => proof[job.bid].denied
        /\ at = "judged" /\ Good(job) => proof[job.bid].held
        /\ job.kind = "recover" => at \in {"verifying", "judged"}

TabIsSound(s) ==
    /\ s \in Sessions
    /\ s.at \in {"away", "shown"} => s.job.kind = "none"
    /\ s.undoBid # 0 => s.undoBid \in DOMAIN batches /\ proof[s.undoBid].held
    /\ s.job.kind = "undo" => s.job.bid = s.undoBid
    /\ JobIsRead(s.job, s.at)
    /\ s.job.todo \subseteq DOMAIN s.job.want
    /\ \A r \in s.undo : OnRecord(r, s.undoTo)
    /\ \A r \in DOMAIN s.job.want : OnRecord(r, s.job.want[r])
    /\ s.job.kind = "save" => \A r \in s.batch : OnRecord(r, s.mode)

BatchIsSound(b) ==
    /\ batches[b].state \in {"committed", "superseded", "cancelled"} => proof[b].held
    /\ batches[b].state = "failed" => proof[b].denied

ReviewInv ==
    /\ decided \in [Candidates -> Statuses]
    /\ batches \in Seq(RowOf) /\ proof \in Seq(ReadOf)
    /\ Len(proof) = Len(batches) /\ Len(batches) <= MaxBatches
    /\ DOMAIN tabs = Tabs
    /\ \A b \in DOMAIN batches : BatchIsSound(b)
    /\ \A t \in Tabs : TabIsSound(tabs[t])
    /\ \A r \in Candidates : OnRecord(r, decided[r])

LEMMA MapsAre ==
    ASSUME NEW V, NEW w
    PROVE  w \in Maps(V) <=> DOMAIN w \in SUBSET Candidates /\ w \in [DOMAIN w -> V]
BY DEF Maps

LEMMA EmptyMap == ASSUME NEW V PROVE <<>> \in Maps(V) /\ DOMAIN <<>> = {}
<1>1. DOMAIN <<>> = {}
  OBVIOUS
<1>2. <<>> \in [DOMAIN <<>> -> V]
  OBVIOUS
<1> QED
  BY <1>1, <1>2, MapsAre

LEMMA JobsAre ==
    ASSUME NEW kind \in {"none", "save", "recover", "undo"}, NEW bid \in Nat,
           NEW want \in Maps(Statuses)
    PROVE  /\ NoJob \in TabJobs /\ NoJob.kind = "none" /\ DOMAIN NoJob.want = {}
           /\ NoJob.todo = {}
           /\ Job(kind, bid, want) \in TabJobs
           /\ Job(kind, bid, want).kind = kind /\ Job(kind, bid, want).bid = bid
           /\ Job(kind, bid, want).want = want /\ Job(kind, bid, want).todo = DOMAIN want
           /\ ~Wrong(Job(kind, bid, want))
<1>1. NoJob \in TabJobs /\ NoJob.kind = "none" /\ NoJob.want = <<>> /\ NoJob.todo = {}
      /\ NoJob.refused = FALSE /\ NoJob.differs = {}
  BY EmptyMap DEF NoJob, TabJobs
<1>2. DOMAIN want \in SUBSET Candidates
  BY MapsAre
<1> QED
  BY <1>1, <1>2, EmptyMap DEF Job, TabJobs, Wrong

LEMMA NewSessionIsSound == TabIsSound(NewSession)
<1>1. 0 \in Nat /\ <<>> \in Maps(Statuses)
  BY EmptyMap
<1>2. /\ NoJob \in TabJobs /\ NoJob.kind = "none" /\ DOMAIN NoJob.want = {} /\ NoJob.todo = {}
  BY <1>1, JobsAre
<1>3. /\ NewSession \in Sessions /\ NewSession.at = "away" /\ NewSession.job = NoJob
      /\ NewSession.undoBid = 0 /\ NewSession.undo = {}
  BY <1>1, <1>2 DEF NewSession, Sessions, Statuses
<1> QED
  BY <1>2, <1>3 DEF TabIsSound, JobIsRead

LEMMA TabTypes ==
    ASSUME ReviewInv, NEW t \in Tabs
    PROVE  /\ TabIsSound(tabs[t]) /\ tabs[t] \in Sessions /\ tabs[t].job \in TabJobs
           /\ DOMAIN tabs[t].job.want \in SUBSET Candidates
           /\ \A r \in DOMAIN tabs[t].job.want : tabs[t].job.want[r] \in Statuses
           /\ tabs[t].job.want \in Maps(Statuses)
<1>1. TabIsSound(tabs[t])
  BY DEF ReviewInv
<1>2. tabs[t] \in Sessions
  BY <1>1 DEF TabIsSound
<1>3. tabs[t].job \in TabJobs
  BY <1>2 DEF Sessions
<1>4. tabs[t].job.want \in Maps(Statuses)
  BY <1>3 DEF TabJobs
<1> QED
  BY <1>1, <1>2, <1>3, <1>4, MapsAre

LEMMA RowTypes ==
    ASSUME ReviewInv, NEW b \in DOMAIN batches
    PROVE  /\ b \in 1..Len(batches) /\ b \in Nat /\ b # 0 /\ b \in DOMAIN proof
           /\ batches[b] \in RowOf /\ proof[b] \in ReadOf
           /\ batches[b].want \in Maps({"PASS", "BLOCK"}) /\ batches[b].want \in Maps(Statuses)
           /\ DOMAIN batches[b].want \in SUBSET Candidates
           /\ batches[b].back \in Statuses
<1>1. batches \in Seq(RowOf) /\ proof \in Seq(ReadOf) /\ Len(proof) = Len(batches)
  BY DEF ReviewInv
<1>2. b \in 1..Len(batches) /\ b \in 1..Len(proof) /\ b \in Nat /\ b # 0 /\ b \in DOMAIN proof
  BY <1>1
<1>3. batches[b] \in RowOf /\ proof[b] \in ReadOf
  BY <1>1, <1>2
<1>4. batches[b].want \in Maps({"PASS", "BLOCK"}) /\ batches[b].back \in Statuses
  BY <1>3 DEF RowOf
<1>5. batches[b].want \in Maps(Statuses)
  <2>1. PICK w : w = batches[b].want
    OBVIOUS
  <2>2. DOMAIN w \in SUBSET Candidates /\ w \in [DOMAIN w -> {"PASS", "BLOCK"}]
    BY <1>4, <2>1, MapsAre
  <2>3. w \in [DOMAIN w -> Statuses]
    BY <2>2 DEF Statuses
  <2> QED
    BY <2>1, <2>2, <2>3, MapsAre
<1> QED
  BY <1>2, <1>3, <1>4, <1>5, MapsAre

\* What stays on record from one state to the next.
Keeps ==
    \A b \in DOMAIN batches :
        /\ b \in DOMAIN batches' /\ batches'[b].want = batches[b].want
        /\ batches'[b].back = batches[b].back
        /\ proof[b].held => proof'[b].held
        /\ proof[b].denied => proof'[b].denied

LEMMA RecordKept == ASSUME Keeps, NEW r, NEW v, OnRecord(r, v) PROVE OnRecord(r, v)'
BY DEF Keeps, OnRecord

LEMMA TabKept == ASSUME Keeps, NEW s, TabIsSound(s) PROVE TabIsSound(s)'
<1>1. JobIsRead(s.job, s.at)'
  BY DEF Keeps, TabIsSound, JobIsRead, Wrong, Good
<1> QED
  BY <1>1, RecordKept DEF Keeps, TabIsSound

\* A step that leaves one tab with session s.
LEMMA TabMoves ==
    ASSUME ReviewInv, NEW t \in Tabs, NEW s, tabs' = [tabs EXCEPT ![t] = s],
           TabIsSound(s)', Keeps,
           batches' \in Seq(RowOf), proof' \in Seq(ReadOf), Len(proof') = Len(batches'),
           Len(batches') <= MaxBatches, \A b \in DOMAIN batches' : BatchIsSound(b)',
           decided' \in [Candidates -> Statuses],
           \A r \in Candidates : decided'[r] # decided[r] => OnRecord(r, decided[r])'
    PROVE  ReviewInv'
<1>1. DOMAIN tabs' = Tabs
  BY DEF ReviewInv
<1>2. ASSUME NEW u \in Tabs PROVE TabIsSound(tabs[u])'
  <2>1. PICK x : x = tabs'[u]
    OBVIOUS
  <2>2. x = s \/ x = tabs[u]
    BY <2>1 DEF ReviewInv
  <2>3. x = tabs[u] => TabIsSound(x)
    BY DEF ReviewInv
  <2>4. TabIsSound(x)'
    BY <2>2, <2>3, TabKept
  <2> QED
    BY <2>1, <2>4
<1>3. ASSUME NEW r \in Candidates PROVE OnRecord(r, decided[r])'
  <2>1. CASE decided'[r] = decided[r]
    <3>1. PICK v : v = decided[r]
      OBVIOUS
    <3>2. OnRecord(r, v)'
      BY <3>1, RecordKept DEF ReviewInv
    <3> QED
      BY <2>1, <3>1, <3>2
  <2>2. CASE decided'[r] # decided[r]
    BY <2>2
  <2> QED
    BY <2>1, <2>2
<1> QED
  BY <1>1, <1>2, <1>3 DEF ReviewInv

\* The same for a step that touches neither the records nor the file nor the ghost.
LEMMA PageMoves ==
    ASSUME ReviewInv, NEW t \in Tabs, NEW s, tabs' = [tabs EXCEPT ![t] = s],
           TabIsSound(s), UNCHANGED <<decided, batches, proof>>
    PROVE  ReviewInv'
<1>1. Keeps
  BY DEF Keeps
<1>2. TabIsSound(s)'
  BY <1>1, TabKept
<1>3. \A b \in DOMAIN batches' : BatchIsSound(b)'
  BY DEF ReviewInv, BatchIsSound
<1> QED
  BY <1>1, <1>2, <1>3, TabMoves DEF ReviewInv

\* _restore_undo: what the newest committed batch has written may be taken back.
LEMMA RestoredIsSound ==
    ASSUME ReviewInv, NEW s, TabIsSound(s)
    PROVE  /\ Restored(s).at = s.at /\ Restored(s).job = s.job
           /\ Restored(s).mode = s.mode /\ Restored(s).batch = s.batch
           /\ s.job.kind = "none" => TabIsSound(Restored(s))
<1> DEFINE n == Len(batches)
           new == [s EXCEPT !.undo = DOMAIN batches[n].want, !.undoBid = n,
                            !.undoTo = batches[n].back]
<1>1. s \in Sessions
  BY DEF TabIsSound
<1>2. CASE ~(s.undo = {} /\ NewestIs("committed"))
  BY <1>2 DEF Restored
<1>3. CASE s.undo = {} /\ NewestIs("committed")
  <2>1. batches \in Seq(RowOf)
    BY DEF ReviewInv
  <2>2. n \in DOMAIN batches /\ batches[n].state = "committed"
    BY <1>3, <2>1 DEF NewestIs
  <2>3. proof[n].held
    BY <2>2 DEF ReviewInv, BatchIsSound
  <2>4. \A r \in DOMAIN batches[n].want : OnRecord(r, batches[n].back)
    BY <2>2 DEF OnRecord
  <2>5. n \in Nat /\ DOMAIN batches[n].want \in SUBSET Candidates /\ batches[n].back \in Statuses
    BY <2>2, RowTypes
  <2>6. Restored(s) = new
    BY <1>3 DEF Restored
  <2> HIDE DEF n
  <2>7. /\ new \in Sessions /\ new.undo = DOMAIN batches[n].want /\ new.undoBid = n
        /\ new.undoTo = batches[n].back /\ new.at = s.at /\ new.job = s.job
        /\ new.mode = s.mode /\ new.batch = s.batch
    BY <1>1, <2>5 DEF Sessions
  <2> HIDE DEF new
  <2>8. s.job.kind = "none" => TabIsSound(new)
    BY <1>3, <2>2, <2>3, <2>4, <2>7 DEF TabIsSound
  <2> QED
    BY <2>6, <2>7, <2>8
<1> QED
  BY <1>2, <1>3

LEMMA ShowKeeps == ASSUME ReviewInv, NEW t \in Tabs, Show(t) PROVE ReviewInv'
<1> DEFINE x == tabs[t]
           y == Restored(x)
<1>1. TabIsSound(x) /\ x.at \in {"away", "shown"} /\ x.job.kind = "none"
  BY TabTypes DEF Show, TabIsSound
<1>2. TabIsSound(y) /\ y.job = x.job
  BY <1>1, RestoredIsSound
<1>3. PICK ok \in BOOLEAN :
         tabs' = [tabs EXCEPT ![t] = [Fetched(y, ok) EXCEPT !.at = "shown"]]
  BY DEF Show
<1>4. UNCHANGED <<decided, batches, proof>>
  BY DEF Show
<1> HIDE DEF x, y
<1> DEFINE z == Fetched(y, ok)
           new == [z EXCEPT !.at = "shown"]
<1>5. y \in Sessions
  BY <1>2 DEF TabIsSound
<1>6. /\ z \in Sessions /\ z.job = y.job /\ z.mode = y.mode /\ z.undo = y.undo
      /\ z.undoBid = y.undoBid /\ z.undoTo = y.undoTo
  <2>1. {r \in Candidates : decided[r] = y.mode} \in SUBSET Candidates
    OBVIOUS
  <2> QED
    BY <1>5, <2>1 DEF Fetched, Sessions
<1> HIDE DEF z
<1>7. /\ new \in Sessions /\ new.job = y.job /\ new.mode = y.mode /\ new.undo = y.undo
      /\ new.undoBid = y.undoBid /\ new.undoTo = y.undoTo /\ new.at = "shown"
  BY <1>6 DEF Sessions
<1> HIDE DEF new
<1>8. TabIsSound(new)
  BY <1>1, <1>2, <1>7 DEF TabIsSound, JobIsRead
<1> QED
  BY <1>3, <1>4, <1>8, PageMoves DEF new, z

LEMMA RecoverKeeps == ASSUME ReviewInv, NEW t \in Tabs, Recover(t) PROVE ReviewInv'
<1> DEFINE x == tabs[t]
           n == Len(batches)
           job == Job("recover", n, batches[n].want)
           new == [[x EXCEPT !.at = "verifying"] EXCEPT !.job = job]
<1>1. TabIsSound(x) /\ x \in Sessions
  BY TabTypes
<1>2. n \in DOMAIN batches
  <2>1. batches \in Seq(RowOf) /\ batches # <<>>
    BY DEF ReviewInv, Recover, NewestIs
  <2> QED
    BY <2>1
<1>3. n \in Nat /\ batches[n].want \in Maps(Statuses)
  BY <1>2, RowTypes
<1>4. /\ job \in TabJobs /\ job.kind = "recover" /\ job.bid = n /\ job.want = batches[n].want
      /\ job.todo = DOMAIN batches[n].want /\ ~Wrong(job)
  BY <1>3, JobsAre
<1>5. \A r \in DOMAIN batches[n].want : OnRecord(r, batches[n].want[r])
  BY <1>2 DEF OnRecord
<1> HIDE DEF n, job
<1>6. tabs' = [tabs EXCEPT ![t] = new] /\ UNCHANGED <<decided, batches, proof>>
  BY DEF Recover, job, n
<1>7. /\ new \in Sessions /\ new.at = "verifying" /\ new.job = job /\ new.undo = x.undo
      /\ new.undoBid = x.undoBid /\ new.undoTo = x.undoTo
  BY <1>1, <1>4 DEF Sessions
<1> HIDE DEF new
<1>8. TabIsSound(new)
  BY <1>1, <1>2, <1>4, <1>5, <1>7 DEF TabIsSound, JobIsRead
<1> QED
  BY <1>6, <1>8, PageMoves

LEMMA SwitchKeeps ==
    ASSUME ReviewInv, NEW t \in Tabs, NEW m \in Statuses, SwitchMode(t, m) PROVE ReviewInv'
<1> DEFINE x == tabs[t]
           new == [x EXCEPT !.mode = m, !.batch = {}, !.at = "away"]
<1>1. TabIsSound(x) /\ x \in Sessions /\ x.at = "shown"
  BY TabTypes DEF SwitchMode
<1>2. tabs' = [tabs EXCEPT ![t] = new] /\ UNCHANGED <<decided, batches, proof>>
  BY DEF SwitchMode
<1>3. /\ new \in Sessions /\ new.at = "away" /\ new.job = x.job /\ new.undo = x.undo
      /\ new.undoBid = x.undoBid /\ new.undoTo = x.undoTo
  BY <1>1 DEF Sessions
<1> HIDE DEF new
<1>4. TabIsSound(new)
  BY <1>1, <1>3 DEF TabIsSound, JobIsRead
<1> QED
  BY <1>2, <1>4, PageMoves

LEMMA UndoKeeps == ASSUME ReviewInv, NEW t \in Tabs, Undo(t) PROVE ReviewInv'
<1> DEFINE x == tabs[t]
           want == [r \in x.undo |-> x.undoTo]
           job == Job("undo", x.undoBid, want)
           new == [[x EXCEPT !.at = "saving"] EXCEPT !.job = job]
<1>1. TabIsSound(x) /\ x \in Sessions
  BY TabTypes
<1>2. x.undoBid \in Nat /\ x.undo \in SUBSET Candidates /\ x.undoTo \in Statuses
  BY <1>1 DEF Sessions
<1>3. DOMAIN want = x.undo /\ want \in Maps(Statuses) /\ \A r \in x.undo : want[r] = x.undoTo
  <2>1. want \in [x.undo -> Statuses]
    BY <1>2
  <2> QED
    BY <1>2, <2>1 DEF Maps
<1> HIDE DEF want
<1>4. /\ job \in TabJobs /\ job.kind = "undo" /\ job.bid = x.undoBid /\ job.want = want
      /\ job.todo = DOMAIN want
  BY <1>2, <1>3, JobsAre
<1> HIDE DEF job
<1>5. tabs' = [tabs EXCEPT ![t] = new] /\ UNCHANGED <<decided, batches, proof>>
  BY DEF Undo, job, want
<1>6. /\ new \in Sessions /\ new.at = "saving" /\ new.job = job /\ new.undo = x.undo
      /\ new.undoBid = x.undoBid /\ new.undoTo = x.undoTo
  BY <1>1, <1>4 DEF Sessions
<1> HIDE DEF new
<1>7. TabIsSound(new)
  BY <1>1, <1>3, <1>4, <1>6 DEF TabIsSound, JobIsRead
<1> QED
  BY <1>5, <1>7, PageMoves

LEMMA ReloadKeeps == ASSUME ReviewInv, NEW t \in Tabs, Reload(t) PROVE ReviewInv'
BY NewSessionIsSound, PageMoves DEF Reload

LEMMA RestartKeeps == ASSUME ReviewInv, Restart PROVE ReviewInv'
<1>1. UNCHANGED <<decided, batches, proof>> /\ tabs' = [t \in Tabs |-> NewSession]
  BY DEF Restart
<1>2. Keeps
  BY <1>1 DEF Keeps
<1>3. \A t \in Tabs : TabIsSound(tabs[t])'
  <2>1. PICK s : s = NewSession
    OBVIOUS
  <2>2. TabIsSound(s)'
    BY <1>2, <2>1, NewSessionIsSound, TabKept
  <2> QED
    BY <1>1, <2>1, <2>2
<1>4. \A b \in DOMAIN batches : BatchIsSound(b)'
  BY <1>1 DEF ReviewInv, BatchIsSound
<1>5. \A r \in Candidates : OnRecord(r, decided[r])'
  BY <1>1 DEF ReviewInv, OnRecord
<1> QED
  BY <1>1, <1>3, <1>4, <1>5 DEF ReviewInv

\* The record of a new batch; the one before it can no longer be undone by a new page.
LEMMA PreparedKeeps ==
    ASSUME ReviewInv, NEW want \in Maps({"PASS", "BLOCK"}), NEW back \in Statuses,
           Len(batches) < MaxBatches, batches' = Prepared(batches, want, back),
           proof' = Append(proof, [held |-> FALSE, denied |-> FALSE])
    PROVE  /\ Keeps /\ batches' \in Seq(RowOf) /\ proof' \in Seq(ReadOf)
           /\ Len(proof') = Len(batches') /\ Len(batches') <= MaxBatches
           /\ \A b \in DOMAIN batches' : BatchIsSound(b)'
           /\ Len(batches) + 1 \in DOMAIN batches' /\ Len(batches) + 1 \in Nat
           /\ batches'[Len(batches) + 1].want = want /\ batches'[Len(batches) + 1].back = back
<1> DEFINE n == Len(batches)
           old == [b \in 1..n |-> IF batches[b].state = "committed"
                                  THEN [batches[b] EXCEPT !.state = "superseded"] ELSE batches[b]]
           row == [state |-> "prepared", want |-> want, back |-> back]
           read == [held |-> FALSE, denied |-> FALSE]
<1>1. /\ batches \in Seq(RowOf) /\ n \in Nat /\ DOMAIN batches = 1..n
      /\ proof \in Seq(ReadOf) /\ Len(proof) = n
  BY DEF ReviewInv
<1>2. row \in RowOf /\ row.state = "prepared" /\ row.want = want /\ row.back = back
  BY DEF RowOf
<1>3. read \in ReadOf
  BY DEF ReadOf
<1>4. ASSUME NEW b \in 1..n
      PROVE  /\ old[b] \in RowOf /\ old[b].want = batches[b].want /\ old[b].back = batches[b].back
             /\ \/ old[b].state = batches[b].state
                \/ batches[b].state = "committed" /\ old[b].state = "superseded"
  BY <1>1, RowTypes DEF RowOf
<1>5. batches' = Append(old, row) /\ proof' = Append(proof, read)
  BY <1>1 DEF Prepared
<1>6. old \in Seq(RowOf) /\ Len(old) = n
  <2>1. old \in [1..n -> RowOf]
    BY <1>4
  <2> HIDE DEF old
  <2> QED
    BY <1>1, <2>1
<1> HIDE DEF old, row, read
<1>7. /\ batches' \in Seq(RowOf) /\ proof' \in Seq(ReadOf)
      /\ Len(batches') = n + 1 /\ Len(proof') = n + 1
      /\ DOMAIN batches' = 1..(n + 1)
      /\ \A b \in 1..n : batches'[b] = old[b] /\ proof'[b] = proof[b]
      /\ batches'[n + 1] = row
  BY <1>1, <1>2, <1>3, <1>5, <1>6
<1>8. Keeps
  BY <1>1, <1>4, <1>7 DEF Keeps
<1>9. ASSUME NEW b \in DOMAIN batches' PROVE BatchIsSound(b)'
  <2>1. CASE b \in 1..n
    BY <1>1, <1>4, <1>7, <2>1 DEF BatchIsSound, ReviewInv
  <2>2. CASE b = n + 1
    BY <1>2, <1>7, <2>2 DEF BatchIsSound
  <2> QED
    BY <1>1, <1>7, <2>1, <2>2
<1>10. Len(batches') <= MaxBatches
  BY <1>1, <1>7, ReviewAssumption
<1> QED
  BY <1>1, <1>2, <1>7, <1>8, <1>9, <1>10

LEMMA SubmitKeeps ==
    ASSUME ReviewInv, NEW t \in Tabs, NEW blocks \in SUBSET Candidates, Submit(t, blocks)
    PROVE  ReviewInv'
<1>1. PICK y : y = Restored(tabs[t])
  OBVIOUS
<1>2. PICK n : n = Len(batches)
  OBVIOUS
<1> DEFINE want == Decisions(y.batch, blocks)
           job == Job("save", n + 1, want)
           new == [[y EXCEPT !.at = "saving"] EXCEPT !.job = job]
<1>3. /\ UNCHANGED decided /\ n < MaxBatches /\ y.at = "shown"
      /\ \/ tabs' = [tabs EXCEPT ![t] = y] /\ UNCHANGED <<batches, proof>>
         \/ /\ batches' = Prepared(batches, want, y.mode)
            /\ proof' = Append(proof, [held |-> FALSE, denied |-> FALSE])
            /\ tabs' = [tabs EXCEPT ![t] = new]
  BY <1>1, <1>2 DEF Submit
<1>4. TabIsSound(y)
  BY <1>1, <1>3, RestoredIsSound, TabTypes DEF TabIsSound
<1>5. y \in Sessions /\ y.batch \in SUBSET Candidates /\ y.mode \in Statuses
  BY <1>4 DEF TabIsSound, Sessions
<1>6. DOMAIN want = y.batch /\ want \in [y.batch -> {"PASS", "BLOCK"}]
  BY DEF Decisions
<1> HIDE DEF want
<1>7. want \in Maps({"PASS", "BLOCK"})
  BY <1>5, <1>6 DEF Maps
<1>8. want \in Maps(Statuses)
  <2>1. want \in [y.batch -> Statuses]
    BY <1>6 DEF Statuses
  <2> QED
    BY <1>5, <2>1 DEF Maps
<1>9. CASE tabs' = [tabs EXCEPT ![t] = y] /\ UNCHANGED <<batches, proof>>
  BY <1>3, <1>4, <1>9, PageMoves
<1>10. CASE /\ batches' = Prepared(batches, want, y.mode)
            /\ proof' = Append(proof, [held |-> FALSE, denied |-> FALSE])
            /\ tabs' = [tabs EXCEPT ![t] = new]
  <2>1. /\ Keeps /\ batches' \in Seq(RowOf) /\ proof' \in Seq(ReadOf)
        /\ Len(proof') = Len(batches') /\ Len(batches') <= MaxBatches
        /\ \A b \in DOMAIN batches' : BatchIsSound(b)'
        /\ n + 1 \in DOMAIN batches' /\ n + 1 \in Nat
        /\ batches'[n + 1].want = want /\ batches'[n + 1].back = y.mode
    BY <1>2, <1>3, <1>5, <1>7, <1>10, PreparedKeeps
  <2>2. /\ job \in TabJobs /\ job.kind = "save" /\ job.bid = n + 1 /\ job.want = want
        /\ job.todo = DOMAIN want /\ ~Wrong(job)
    BY <1>8, <2>1, JobsAre
  <2> HIDE DEF job
  <2>3. /\ new \in Sessions /\ new.at = "saving" /\ new.job = job /\ new.undo = y.undo
        /\ new.undoBid = y.undoBid /\ new.undoTo = y.undoTo /\ new.batch = y.batch
        /\ new.mode = y.mode
    BY <1>5, <2>2 DEF Sessions
  <2> HIDE DEF new
  <2>4. \A r \in y.batch : OnRecord(r, want[r])' /\ OnRecord(r, y.mode)'
    BY <1>6, <2>1 DEF OnRecord
  <2>5. TabIsSound(y)'
    BY <1>4, <2>1, TabKept
  <2>6. JobIsRead(new.job, new.at)'
    BY <2>1, <2>2, <2>3 DEF JobIsRead
  <2>7. TabIsSound(new)'
    BY <1>6, <2>2, <2>3, <2>4, <2>5, <2>6 DEF TabIsSound
  <2>8. decided' \in [Candidates -> Statuses] /\ \A r \in Candidates : decided'[r] = decided[r]
    BY <1>3 DEF ReviewInv
  <2> QED
    BY <1>10, <2>1, <2>7, <2>8, TabMoves
<1> QED
  BY <1>3, <1>9, <1>10

\* A step on tab t that marks no row: the page, the records and the ghost may change.
LEMMA JobMoves ==
    ASSUME ReviewInv, NEW t \in Tabs, NEW s, tabs' = [tabs EXCEPT ![t] = s],
           UNCHANGED batches, Keeps, proof' \in Seq(ReadOf), Len(proof') = Len(proof),
           TabIsSound(s)',
           decided' \in [Candidates -> Statuses],
           \A r \in Candidates : decided'[r] # decided[r] => OnRecord(r, decided[r])'
    PROVE  ReviewInv'
<1>1. \A b \in DOMAIN batches' : BatchIsSound(b)'
  BY DEF Keeps, ReviewInv, BatchIsSound
<1> QED
  BY <1>1, TabMoves DEF ReviewInv

\* Any part of a chunk that is written is a part of what is on record.
LEMMA WrittenIsOnRecord ==
    ASSUME ReviewInv, NEW t \in Tabs, NEW part \in SUBSET tabs[t].job.todo,
           decided' = Overwritten(part, tabs[t].job.want), UNCHANGED batches
    PROVE  /\ decided' \in [Candidates -> Statuses]
           /\ \A r \in Candidates : decided'[r] # decided[r] => OnRecord(r, decided[r])'
<1> DEFINE w == tabs[t].job.want
<1>1. decided \in [Candidates -> Statuses]
  BY DEF ReviewInv
<1>2. \A r \in part : r \in DOMAIN w /\ w[r] \in Statuses /\ OnRecord(r, w[r])
  BY TabTypes DEF TabIsSound
<1> HIDE DEF w
<1>3. decided' = [r \in Candidates |-> IF r \in part THEN w[r] ELSE decided[r]]
  BY DEF Overwritten, w
<1>4. decided' \in [Candidates -> Statuses]
  BY <1>1, <1>2, <1>3
<1>5. ASSUME NEW r \in Candidates, decided'[r] # decided[r] PROVE OnRecord(r, decided[r])'
  <2>1. OnRecord(r, w[r]) /\ decided'[r] = w[r]
    BY <1>2, <1>3, <1>5
  <2>2. PICK v : v = w[r]
    OBVIOUS
  <2> QED
    BY <2>1, <2>2 DEF OnRecord
<1> QED
  BY <1>4, <1>5

\* After a chunk: the next one is written, or all are read.
LEMMA SavedIsSound ==
    ASSUME NEW s, TabIsSound(s), s.at \in {"saving", "rechecking"}, NEW c
    PROVE  TabIsSound(Saved(s, c))
<1> DEFINE all == [s EXCEPT !.at = "verifying", !.job.todo = DOMAIN s.job.want]
           rest == [s EXCEPT !.at = "saving", !.job.todo = @ \ c]
<1>1. s \in Sessions
  BY DEF TabIsSound
<1>2. s.job \in TabJobs
  BY <1>1 DEF Sessions
<1>3. DOMAIN s.job.want \in SUBSET Candidates
  BY <1>2, MapsAre DEF TabJobs
<1> DEFINE job1 == [s.job EXCEPT !.todo = DOMAIN s.job.want]
           job2 == [s.job EXCEPT !.todo = @ \ c]
<1>4. /\ job1 \in TabJobs /\ job1.todo = DOMAIN s.job.want /\ job1.kind = s.job.kind
      /\ job1.bid = s.job.bid /\ job1.want = s.job.want /\ job1.refused = s.job.refused
      /\ job1.differs = s.job.differs
  BY <1>2, <1>3 DEF TabJobs
<1>5. /\ job2 \in TabJobs /\ job2.todo \subseteq s.job.todo /\ job2.kind = s.job.kind
      /\ job2.bid = s.job.bid /\ job2.want = s.job.want /\ job2.refused = s.job.refused
      /\ job2.differs = s.job.differs
  BY <1>2 DEF TabJobs
<1>6. all = [[s EXCEPT !.at = "verifying"] EXCEPT !.job = job1]
  BY <1>1 DEF Sessions
<1>7. rest = [[s EXCEPT !.at = "saving"] EXCEPT !.job = job2]
  BY <1>1 DEF Sessions
<1>8. Saved(s, c) = all \/ Saved(s, c) = rest
  BY DEF Saved
<1> HIDE DEF all, rest, job1, job2
<1>9. /\ all \in Sessions /\ all.at = "verifying" /\ all.job = job1 /\ all.undo = s.undo
      /\ all.undoBid = s.undoBid /\ all.undoTo = s.undoTo /\ all.batch = s.batch
      /\ all.mode = s.mode
  BY <1>1, <1>4, <1>6 DEF Sessions
<1>10. /\ rest \in Sessions /\ rest.at = "saving" /\ rest.job = job2 /\ rest.undo = s.undo
       /\ rest.undoBid = s.undoBid /\ rest.undoTo = s.undoTo /\ rest.batch = s.batch
       /\ rest.mode = s.mode
  BY <1>1, <1>5, <1>7 DEF Sessions
<1>11. JobIsRead(s.job, s.at) /\ s.job.kind # "recover"
  BY DEF TabIsSound, JobIsRead
<1>12. TabIsSound(all)
  BY <1>4, <1>9, <1>11 DEF TabIsSound, JobIsRead, Wrong
<1>13. TabIsSound(rest)
  BY <1>5, <1>10, <1>11 DEF TabIsSound, JobIsRead, Wrong
<1> QED
  BY <1>8, <1>12, <1>13

LEMMA SaveChunkKeeps ==
    ASSUME ReviewInv, NEW t \in Tabs, SaveChunk(t), UNCHANGED batches PROVE ReviewInv'
<1>1. PICK x : x = tabs[t]
  OBVIOUS
<1>2. /\ TabIsSound(x) /\ x \in Sessions /\ x.job \in TabJobs /\ x.at = "saving"
      /\ DOMAIN x.job.want \in SUBSET Candidates
  BY <1>1, TabTypes DEF SaveChunk
<1>3. x.job.kind \in {"save", "undo"} \/ x.job.kind = "none"
  BY <1>2 DEF TabIsSound, JobIsRead, TabJobs
<1>4. x.job.todo \in SUBSET Candidates
  BY <1>2 DEF TabJobs
<1>5. PICK c \in Chunks(x.job.todo) :
         \/ /\ decided' = Overwritten(c, x.job.want)
            /\ tabs' = [tabs EXCEPT ![t] = Saved(x, c)]
            /\ UNCHANGED <<proof, faults>>
         \/ /\ tabs' = [tabs EXCEPT ![t].at = "judged", ![t].job.refused = TRUE]
            /\ proof' = IF x.job.kind = "save" THEN [proof EXCEPT ![x.job.bid].denied = TRUE]
                                               ELSE proof
            /\ UNCHANGED decided
         \/ /\ \E part \in SUBSET c : decided' = Overwritten(part, x.job.want)
            /\ tabs' = [tabs EXCEPT ![t].at = "rechecking", ![t].job.chunk = c]
            /\ UNCHANGED proof
  BY <1>1 DEF SaveChunk
<1>6. c \in SUBSET x.job.todo
  BY <1>5 DEF Chunks
<1>7. decided \in [Candidates -> Statuses] /\ proof \in Seq(ReadOf) /\ tabs[t] = x
      /\ batches \in Seq(RowOf) /\ Len(proof) = Len(batches)
  BY <1>1 DEF ReviewInv
<1>8. CASE /\ decided' = Overwritten(c, x.job.want)
           /\ tabs' = [tabs EXCEPT ![t] = Saved(x, c)] /\ UNCHANGED proof
  <2>1. Keeps
    BY <1>8 DEF Keeps
  <2>2. PICK s : s = Saved(x, c)
    OBVIOUS
  <2>3. TabIsSound(s)'
    BY <1>2, <2>1, <2>2, SavedIsSound, TabKept
  <2> QED
    BY <1>1, <1>6, <1>7, <1>8, <2>1, <2>2, <2>3, WrittenIsOnRecord, JobMoves
<1>9. CASE /\ tabs' = [tabs EXCEPT ![t].at = "judged", ![t].job.refused = TRUE]
           /\ proof' = IF x.job.kind = "save" THEN [proof EXCEPT ![x.job.bid].denied = TRUE]
                                              ELSE proof
           /\ UNCHANGED decided
  <2> DEFINE job == [x.job EXCEPT !.refused = TRUE]
             new == [[x EXCEPT !.at = "judged"] EXCEPT !.job = job]
  <2>1. /\ job \in TabJobs /\ job.kind = x.job.kind /\ job.bid = x.job.bid
        /\ job.want = x.job.want /\ job.todo = x.job.todo /\ job.refused
    BY <1>2 DEF TabJobs
  <2>2. tabs' = [tabs EXCEPT ![t] = new]
    BY <1>2, <1>7, <1>9 DEF Sessions
  <2> HIDE DEF job
  <2>3. /\ new \in Sessions /\ new.at = "judged" /\ new.job = job /\ new.undo = x.undo
        /\ new.undoBid = x.undoBid /\ new.undoTo = x.undoTo /\ new.batch = x.batch
        /\ new.mode = x.mode
    BY <1>2, <2>1 DEF Sessions
  <2> HIDE DEF new
  <2>4. x.job.kind = "save" => x.job.bid \in DOMAIN batches /\ x.job.bid \in DOMAIN proof
                               /\ proof[x.job.bid] \in ReadOf
    BY <1>2, RowTypes DEF TabIsSound, JobIsRead
  <2>5. /\ proof' \in Seq(ReadOf) /\ Len(proof') = Len(proof)
        /\ x.job.kind = "save" => proof'[x.job.bid].denied
        /\ \A b \in DOMAIN proof : /\ proof[b].held => proof'[b].held
                                   /\ proof[b].denied => proof'[b].denied
    <3>1. CASE x.job.kind = "save"
      <4> DEFINE read == [proof[x.job.bid] EXCEPT !.denied = TRUE]
      <4>1. read \in ReadOf /\ read.denied /\ read.held = proof[x.job.bid].held
        BY <2>4, <3>1 DEF ReadOf
      <4>2. proof' = [proof EXCEPT ![x.job.bid] = read]
        BY <1>9, <3>1
      <4> HIDE DEF read
      <4> QED
        BY <1>7, <2>4, <3>1, <4>1, <4>2
    <3>2. CASE x.job.kind # "save"
      BY <1>7, <1>9, <3>2
    <3> QED
      BY <3>1, <3>2
  <2>6. Keeps
    BY <1>7, <2>5 DEF Keeps
  <2>7. TabIsSound(x)'
    BY <1>2, <2>6, TabKept
  <2>8. TabIsSound(new)'
    BY <1>3, <2>1, <2>3, <2>5, <2>7 DEF TabIsSound, JobIsRead, Good
  <2> QED
    BY <1>7, <1>9, <2>2, <2>5, <2>6, <2>8, JobMoves
<1>10. CASE /\ \E part \in SUBSET c : decided' = Overwritten(part, x.job.want)
            /\ tabs' = [tabs EXCEPT ![t].at = "rechecking", ![t].job.chunk = c]
            /\ UNCHANGED proof
  <2> DEFINE job == [x.job EXCEPT !.chunk = c]
             new == [[x EXCEPT !.at = "rechecking"] EXCEPT !.job = job]
  <2>1. /\ job \in TabJobs /\ job.kind = x.job.kind /\ job.bid = x.job.bid
        /\ job.want = x.job.want /\ job.todo = x.job.todo /\ job.refused = x.job.refused
        /\ job.differs = x.job.differs
    BY <1>2, <1>4, <1>6 DEF TabJobs
  <2>2. tabs' = [tabs EXCEPT ![t] = new]
    BY <1>2, <1>7, <1>10 DEF Sessions
  <2> HIDE DEF job
  <2>3. /\ new \in Sessions /\ new.at = "rechecking" /\ new.job = job /\ new.undo = x.undo
        /\ new.undoBid = x.undoBid /\ new.undoTo = x.undoTo /\ new.batch = x.batch
        /\ new.mode = x.mode
    BY <1>2, <2>1 DEF Sessions
  <2> HIDE DEF new
  <2>4. Keeps
    BY <1>10 DEF Keeps
  <2>5. TabIsSound(new)
    BY <1>2, <1>3, <2>1, <2>3 DEF TabIsSound, JobIsRead, Wrong
  <2>6. TabIsSound(new)'
    BY <2>4, <2>5, TabKept
  <2>7. PICK part \in SUBSET x.job.todo : decided' = Overwritten(part, x.job.want)
    BY <1>6, <1>10
  <2> QED
    BY <1>1, <1>7, <1>10, <2>2, <2>4, <2>6, <2>7, WrittenIsOnRecord, JobMoves
<1> QED
  BY <1>5, <1>8, <1>9, <1>10

LEMMA ReadWith ==
    ASSUME NEW p \in ReadOf, NEW d \in BOOLEAN
    PROVE  /\ [p EXCEPT !.denied = d] \in ReadOf /\ [p EXCEPT !.denied = d].held = p.held
           /\ [p EXCEPT !.denied = d].denied = d
BY DEF ReadOf

\* What a read of chunk c adds to the job and to the ghost.
LEMMA ReadIs ==
    ASSUME ReviewInv, NEW x, TabIsSound(x), NEW c \in SUBSET Candidates,
           NEW blank \in SUBSET c, NEW last \in BOOLEAN, NEW job, job = Read(x, c, blank),
           proof' = Seen(x, c, blank, last), UNCHANGED batches
    PROVE  /\ job \in TabJobs /\ job.kind = x.job.kind /\ job.bid = x.job.bid
           /\ job.want = x.job.want /\ job.todo = x.job.todo /\ job.refused = x.job.refused
           /\ Keeps /\ proof' \in Seq(ReadOf) /\ Len(proof') = Len(proof)
           /\ x.job.kind \in {"save", "recover"} =>
                 /\ Wrong(job) => proof'[job.bid].denied
                 /\ last /\ Good(job) => proof'[job.bid].held
<1> DEFINE wrong == {r \in c \ blank : decided[r] # x.job.want[r]}
           seen == [proof EXCEPT ![x.job.bid].denied = @ \/ wrong # {},
                                 ![x.job.bid].held = @ \/ (last /\ wrong \cup blank = {}
                                                     /\ x.job.differs \cup x.job.unsure = {})]
<1>1. x.job \in TabJobs
  BY DEF TabIsSound, Sessions
<1>2. wrong \in SUBSET Candidates /\ blank \in SUBSET Candidates
  OBVIOUS
<1>3. /\ job = [x.job EXCEPT !.unsure = @ \cup blank, !.chunk = {}, !.differs = @ \cup wrong]
      /\ proof' = IF x.job.kind \notin {"save", "recover"} THEN proof ELSE seen
  BY DEF Read, Seen
<1>4. proof \in Seq(ReadOf) /\ batches \in Seq(RowOf) /\ Len(proof) = Len(batches)
  BY DEF ReviewInv
<1> HIDE DEF wrong
<1>5. /\ job \in TabJobs /\ job.kind = x.job.kind /\ job.bid = x.job.bid
      /\ job.want = x.job.want /\ job.todo = x.job.todo /\ job.refused = x.job.refused
      /\ job.differs = x.job.differs \cup wrong /\ job.unsure = x.job.unsure \cup blank
  BY <1>1, <1>2, <1>3 DEF TabJobs
<1>6. CASE x.job.kind \notin {"save", "recover"}
  BY <1>3, <1>4, <1>5, <1>6 DEF Keeps
<1>7. CASE x.job.kind \in {"save", "recover"}
  <2>1. /\ x.job.bid \in DOMAIN batches /\ x.job.bid \in DOMAIN proof
        /\ proof[x.job.bid] \in ReadOf
        /\ Wrong(x.job) => proof[x.job.bid].denied
    BY <1>7, RowTypes DEF TabIsSound, JobIsRead
  <2> DEFINE full == last /\ wrong \cup blank = {} /\ x.job.differs \cup x.job.unsure = {}
             d == proof[x.job.bid].denied \/ wrong # {}
             h == proof[x.job.bid].held \/ full
             first == [proof[x.job.bid] EXCEPT !.denied = d]
             read == [held |-> h, denied |-> d]
  <2>2. d \in BOOLEAN /\ h \in BOOLEAN /\ (wrong # {} => d = TRUE) /\ (full => h = TRUE)
        /\ (proof[x.job.bid].denied => d = TRUE) /\ (proof[x.job.bid].held => h = TRUE)
    BY <2>1 DEF ReadOf
  <2>3. seen = [[proof EXCEPT ![x.job.bid].denied = d] EXCEPT ![x.job.bid].held = @ \/ full]
    OBVIOUS
  <2> HIDE DEF full, d, seen
  <2>4. first \in ReadOf /\ first.held = proof[x.job.bid].held /\ first.denied = d
    <3>1. d \in BOOLEAN
      BY <2>2
    <3> QED
      BY <2>1, <3>1, ReadWith
  <2>5. [proof EXCEPT ![x.job.bid].denied = d] = [proof EXCEPT ![x.job.bid] = first]
    OBVIOUS
  <2> HIDE DEF first
  <2>6. seen = [[proof EXCEPT ![x.job.bid] = first]
                   EXCEPT ![x.job.bid] = [first EXCEPT !.held = first.held \/ full]]
    BY <1>4, <2>1, <2>3, <2>5
  <2>7. [first EXCEPT !.held = h] = read
    BY <2>4 DEF ReadOf
  <2>8. [first EXCEPT !.held = first.held \/ full] = read
    BY <2>4, <2>7
  <2> HIDE DEF h
  <2>9. read \in ReadOf /\ read.denied = d /\ read.held = h
    BY <2>2 DEF ReadOf
  <2> HIDE DEF read
  <2>10. seen = [proof EXCEPT ![x.job.bid] = read]
    BY <1>4, <2>1, <2>6, <2>8
  <2>11. /\ proof' \in Seq(ReadOf) /\ Len(proof') = Len(proof)
         /\ proof'[x.job.bid] = read
         /\ \A b \in DOMAIN proof : b # x.job.bid => proof'[b] = proof[b]
    BY <1>3, <1>4, <1>7, <2>1, <2>9, <2>10
  <2>12. Keeps
    BY <1>4, <2>2, <2>9, <2>11 DEF Keeps
  <2>13. ASSUME Wrong(job) PROVE proof'[job.bid].denied
    <3>1. Wrong(x.job) \/ wrong # {}
      BY <1>5, <2>13 DEF Wrong
    <3>2. d = TRUE
      BY <2>1, <2>2, <3>1
    <3>3. read.denied = TRUE
      BY <2>9, <3>2
    <3> QED
      BY <1>5, <2>11, <3>3
  <2>14. ASSUME last, Good(job) PROVE proof'[job.bid].held
    <3>1. full
      BY <1>5, <2>14 DEF Good, full
    <3> QED
      BY <1>5, <2>2, <2>9, <2>11, <3>1
  <2> QED
    BY <1>5, <2>11, <2>12, <2>13, <2>14
<1> QED
  BY <1>6, <1>7

LEMMA SavedIsSoundNext ==
    ASSUME NEW s, NEW c
    PROVE  (TabIsSound(s) /\ s.at \in {"saving", "rechecking"})' => TabIsSound(Saved(s, c))'
<1>1. TabIsSound(s) /\ s.at \in {"saving", "rechecking"} => TabIsSound(Saved(s, c))
  BY SavedIsSound
<1> QED
  BY <1>1, PTL

LEMMA RecheckKeeps == ASSUME ReviewInv, NEW t \in Tabs, Recheck(t) PROVE ReviewInv'
<1>1. PICK x : x = tabs[t]
  OBVIOUS
<1>2. /\ TabIsSound(x) /\ x \in Sessions /\ x.job \in TabJobs /\ x.at = "rechecking"
  BY <1>1, TabTypes DEF Recheck
<1>3. PICK c : c = x.job.chunk
  OBVIOUS
<1>4. c \in SUBSET Candidates
  BY <1>2, <1>3 DEF TabJobs
<1>5. PICK blank \in SUBSET c :
         LET j == Read(x, c, blank)
             s2 == [x EXCEPT !.job = j]
         IN  /\ tabs' = [tabs EXCEPT ![t] = IF j.differs \cup j.unsure = {}
                                            THEN Saved(s2, c) ELSE [s2 EXCEPT !.at = "judged"]]
             /\ proof' = Seen(x, c, blank, FALSE)
  BY <1>1, <1>3 DEF Recheck, Blanks
<1>6. UNCHANGED <<decided, batches>>
  BY DEF Recheck
<1>7. PICK job : job = Read(x, c, blank)
  OBVIOUS
<1>8. /\ job \in TabJobs /\ job.kind = x.job.kind /\ job.bid = x.job.bid
      /\ job.want = x.job.want /\ job.todo = x.job.todo
      /\ Keeps /\ proof' \in Seq(ReadOf) /\ Len(proof') = Len(proof)
      /\ x.job.kind \in {"save", "recover"} => (Wrong(job) => proof'[job.bid].denied)
  BY <1>2, <1>4, <1>5, <1>6, <1>7, ReadIs
<1> DEFINE s2 == [x EXCEPT !.job = job]
           bad == [s2 EXCEPT !.at = "judged"]
<1>9. TabIsSound(x)' /\ x.job.kind # "recover"
  BY <1>2, <1>8, TabKept DEF TabIsSound, JobIsRead
<1>10. /\ s2 \in Sessions /\ s2.at = "rechecking" /\ s2.job = job /\ s2.undo = x.undo
       /\ s2.undoBid = x.undoBid /\ s2.undoTo = x.undoTo /\ s2.batch = x.batch
       /\ s2.mode = x.mode
  BY <1>2, <1>8 DEF Sessions
<1> HIDE DEF s2
<1>11. TabIsSound(s2)'
  BY <1>8, <1>9, <1>10 DEF TabIsSound, JobIsRead
<1>12. \A r \in Candidates : decided'[r] = decided[r]
  BY <1>6
<1>13. decided' \in [Candidates -> Statuses]
  BY <1>6 DEF ReviewInv
<1>14. CASE job.differs \cup job.unsure = {}
  <2>1. PICK s : s = Saved(s2, c)
    OBVIOUS
  <2>2. TabIsSound(Saved(s2, c))'
    BY <1>10, <1>11, SavedIsSoundNext
  <2> QED
    BY <1>5, <1>6, <1>7, <1>8, <1>12, <1>13, <1>14, <2>1, <2>2, JobMoves DEF s2
<1>15. CASE job.differs \cup job.unsure # {}
  <2>1. /\ bad \in Sessions /\ bad.at = "judged" /\ bad.job = job /\ bad.undo = x.undo
        /\ bad.undoBid = x.undoBid /\ bad.undoTo = x.undoTo /\ bad.batch = x.batch
        /\ bad.mode = x.mode
    BY <1>10 DEF Sessions
  <2>2. tabs' = [tabs EXCEPT ![t] = bad]
    BY <1>5, <1>7, <1>15 DEF s2
  <2> HIDE DEF bad
  <2>3. ~Good(job)
    BY <1>15 DEF Good
  <2>4. TabIsSound(bad)'
    BY <1>8, <1>9, <2>1, <2>3 DEF TabIsSound, JobIsRead
  <2> QED
    BY <1>6, <1>8, <1>12, <1>13, <2>2, <2>4, JobMoves
<1> QED
  BY <1>14, <1>15

LEMMA VerifyChunkKeeps == ASSUME ReviewInv, NEW t \in Tabs, VerifyChunk(t) PROVE ReviewInv'
<1>1. PICK x : x = tabs[t]
  OBVIOUS
<1>2. /\ TabIsSound(x) /\ x \in Sessions /\ x.job \in TabJobs /\ x.at = "verifying"
      /\ tabs[t] = x
  BY <1>1, TabTypes DEF VerifyChunk
<1>3. PICK c \in SUBSET x.job.todo : \E blank \in SUBSET c :
         /\ tabs' = [tabs EXCEPT ![t].at = IF x.job.todo \subseteq c THEN "judged" ELSE "verifying",
                                 ![t].job = [Read(x, c, blank) EXCEPT !.todo = @ \ c]]
         /\ proof' = Seen(x, c, blank, x.job.todo \subseteq c)
  BY <1>1 DEF VerifyChunk, Chunks, Blanks
<1> DEFINE last == x.job.todo \subseteq c
<1>4. PICK blank \in SUBSET c :
         /\ tabs' = [tabs EXCEPT ![t].at = IF last THEN "judged" ELSE "verifying",
                                 ![t].job = [Read(x, c, blank) EXCEPT !.todo = @ \ c]]
         /\ proof' = Seen(x, c, blank, last)
  BY <1>3
<1>5. UNCHANGED <<decided, batches>>
  BY DEF VerifyChunk
<1>6. PICK j : j = Read(x, c, blank)
  OBVIOUS
<1>7. c \in SUBSET Candidates
  BY <1>2 DEF TabJobs
<1>8. /\ j \in TabJobs /\ j.kind = x.job.kind /\ j.bid = x.job.bid
      /\ j.want = x.job.want /\ j.todo = x.job.todo
      /\ Keeps /\ proof' \in Seq(ReadOf) /\ Len(proof') = Len(proof)
      /\ x.job.kind \in {"save", "recover"} =>
            /\ Wrong(j) => proof'[j.bid].denied
            /\ last /\ Good(j) => proof'[j.bid].held
  <2>1. last \in BOOLEAN
    OBVIOUS
  <2> HIDE DEF last
  <2> QED
    BY <1>2, <1>4, <1>5, <1>6, <1>7, <2>1, ReadIs
<1> DEFINE job == [j EXCEPT !.todo = @ \ c]
           at == IF last THEN "judged" ELSE "verifying"
           new == [[x EXCEPT !.at = at] EXCEPT !.job = job]
<1>9. /\ job \in TabJobs /\ job.kind = x.job.kind /\ job.bid = x.job.bid
      /\ job.want = x.job.want /\ job.todo \subseteq x.job.todo
      /\ job.refused = j.refused /\ job.differs = j.differs /\ job.unsure = j.unsure
  BY <1>8 DEF TabJobs
<1>10. tabs' = [tabs EXCEPT ![t] = new]
  BY <1>2, <1>4, <1>6 DEF Sessions
<1>11. at \in {"judged", "verifying"} /\ (at = "judged" => last)
  OBVIOUS
<1> HIDE DEF job, at
<1>12. /\ new \in Sessions /\ new.at = at /\ new.job = job /\ new.undo = x.undo
       /\ new.undoBid = x.undoBid /\ new.undoTo = x.undoTo /\ new.batch = x.batch
       /\ new.mode = x.mode
  BY <1>2, <1>9, <1>11 DEF Sessions
<1> HIDE DEF new
<1>13. TabIsSound(x)'
  BY <1>2, <1>8, TabKept
<1>14. JobIsRead(new.job, new.at)'
  BY <1>8, <1>9, <1>11, <1>12, <1>13 DEF TabIsSound, JobIsRead, Wrong, Good
<1>15. TabIsSound(new)'
  BY <1>9, <1>11, <1>12, <1>13, <1>14 DEF TabIsSound
<1>16. decided' \in [Candidates -> Statuses] /\ \A r \in Candidates : decided'[r] = decided[r]
  BY <1>5 DEF ReviewInv
<1> QED
  BY <1>5, <1>8, <1>10, <1>15, <1>16, JobMoves

\* A mark that the reads of its batch allow.
LEMMA MarkMoves ==
    ASSUME ReviewInv, NEW t \in Tabs, NEW s, tabs' = [tabs EXCEPT ![t] = s],
           UNCHANGED <<decided, proof>>, NEW bid \in DOMAIN batches,
           NEW state \in {"committed", "cancelled", "failed"}, NEW written \in BOOLEAN,
           batches' = IF written THEN Marked(bid, state) ELSE batches,
           IF state = "failed" THEN proof[bid].denied ELSE proof[bid].held,
           TabIsSound(s)
    PROVE  ReviewInv'
<1> DEFINE row == [batches[bid] EXCEPT !.state = state]
<1>1. batches \in Seq(RowOf) /\ proof \in Seq(ReadOf) /\ Len(proof) = Len(batches)
      /\ Len(batches) <= MaxBatches
  BY DEF ReviewInv
<1>2. batches[bid] \in RowOf
  BY RowTypes
<1>3. /\ row \in RowOf /\ row.state = state /\ row.want = batches[bid].want
      /\ row.back = batches[bid].back
  BY <1>2 DEF RowOf
<1>4. batches' = batches \/ batches' = [batches EXCEPT ![bid] = row]
  BY DEF Marked
<1> HIDE DEF row
<1>5. /\ batches' \in Seq(RowOf) /\ Len(batches') = Len(batches)
      /\ DOMAIN batches' = DOMAIN batches
      /\ \A b \in DOMAIN batches : batches'[b] = batches[b] \/ (b = bid /\ batches'[b] = row)
  <2>1. CASE batches' = batches
    BY <1>1, <2>1
  <2>2. CASE batches' = [batches EXCEPT ![bid] = row]
    <3>1. batches' \in Seq(RowOf) /\ Len(batches') = Len(batches)
      BY <1>1, <1>3, <2>2
    <3>2. DOMAIN batches' = DOMAIN batches
      BY <2>2
    <3> QED
      BY <2>2, <3>1, <3>2
  <2> QED
    BY <1>4, <2>1, <2>2
<1>6. Keeps
  BY <1>3, <1>5 DEF Keeps
<1>7. ASSUME NEW b \in DOMAIN batches' PROVE BatchIsSound(b)'
  <2>1. CASE batches'[b] = batches[b]
    BY <1>5, <2>1 DEF ReviewInv, BatchIsSound
  <2>2. CASE b = bid /\ batches'[b] = row
    BY <1>3, <2>2 DEF BatchIsSound
  <2> QED
    BY <1>5, <2>1, <2>2
<1>8. TabIsSound(s)'
  BY <1>6, TabKept
<1>9. decided' \in [Candidates -> Statuses] /\ \A r \in Candidates : decided'[r] = decided[r]
  BY DEF ReviewInv
<1> QED
  BY <1>1, <1>5, <1>6, <1>7, <1>8, <1>9, TabMoves

\* A session that has put its job down.
LEMMA DoneIsSound ==
    ASSUME NEW x, TabIsSound(x), NEW s \in Sessions, s.job = NoJob,
           s.undoBid = 0 \/ s.undoBid = x.undoBid
             \/ (s.undoBid \in DOMAIN batches /\ proof[s.undoBid].held),
           \/ s.undo = {}
           \/ s.undo = x.undo /\ s.undoTo = x.undoTo
           \/ s.undo = x.batch /\ s.undoTo = x.mode /\ x.job.kind = "save"
    PROVE  TabIsSound(s)
<1>1. /\ NoJob.kind = "none" /\ DOMAIN NoJob.want = {} /\ NoJob.todo = {}
  <2>1. 0 \in Nat /\ <<>> \in Maps(Statuses)
    BY EmptyMap
  <2> QED
    BY <2>1, JobsAre
<1> QED
  BY <1>1 DEF TabIsSound, JobIsRead

LEMMA NoJobTyped == NoJob \in TabJobs
<1>1. 0 \in Nat /\ <<>> \in Maps(Statuses)
  BY EmptyMap
<1> QED
  BY <1>1, JobsAre

LEMMA FinishSaveKeeps == ASSUME ReviewInv, NEW t \in Tabs, FinishSave(t) PROVE ReviewInv'
<1>1. PICK x : x = tabs[t]
  OBVIOUS
<1>2. /\ TabIsSound(x) /\ x \in Sessions /\ x.job \in TabJobs
      /\ x.at = "judged" /\ x.job.kind = "save" /\ UNCHANGED <<decided, proof>>
  BY <1>1, TabTypes DEF FinishSave
<1>3. /\ x.job.bid \in DOMAIN batches /\ x.job.bid \in Nat
      /\ (Wrong(x.job) => proof[x.job.bid].denied)
      /\ (Good(x.job) => proof[x.job.bid].held)
  BY <1>2, RowTypes DEF TabIsSound, JobIsRead
<1> DEFINE done == [x EXCEPT !.job = NoJob]
<1>4. /\ done \in Sessions /\ done.job = NoJob /\ done.undo = x.undo /\ done.undoTo = x.undoTo
      /\ done.undoBid = x.undoBid /\ done.batch = x.batch /\ done.mode = x.mode
      /\ done.blocked = x.blocked
  BY <1>2, NoJobTyped DEF Sessions
<1>5. \/ \E written \in BOOLEAN, bid \in {x.job.bid, x.undoBid} :
            /\ Good(x.job)
            /\ batches' = IF written THEN Marked(x.job.bid, "committed") ELSE batches
            /\ tabs' = [tabs EXCEPT ![t] =
                  [done EXCEPT !.at = "away", !.undo = x.batch, !.undoTo = x.mode, !.batch = {},
                               !.undoBid = bid]]
      \/ \E written \in BOOLEAN, b \in BOOLEAN :
            /\ Wrong(x.job)
            /\ batches' = IF written THEN Marked(x.job.bid, "failed") ELSE batches
            /\ tabs' = [tabs EXCEPT ![t] = [done EXCEPT !.at = "shown", !.blocked = b]]
      \/ /\ tabs' = [tabs EXCEPT ![t] = [done EXCEPT !.at = "shown", !.blocked = TRUE]]
         /\ UNCHANGED batches
  <2>1. CASE \E written \in BOOLEAN :
                 /\ Good(x.job) /\ Record(x.job, "committed", written)
                 /\ tabs' = [tabs EXCEPT ![t] =
                       [done EXCEPT !.at = "away", !.undo = x.batch, !.undoTo = x.mode, !.batch = {},
                                    !.undoBid = IF written THEN x.job.bid ELSE @]]
    BY <1>4, <2>1 DEF Record
  <2>2. CASE \E written \in BOOLEAN :
                 /\ Wrong(x.job) /\ Record(x.job, "failed", written)
                 /\ tabs' = [tabs EXCEPT ![t] =
                       [done EXCEPT !.at = "shown",
                                    !.blocked = @ \/ (~x.job.refused /\ x.job.unsure # {})]]
    BY <1>4, <2>2 DEF Record
  <2> QED
    BY <1>1, <2>1, <2>2 DEF FinishSave
<1> HIDE DEF done
<1>6. ASSUME NEW written \in BOOLEAN, NEW bid \in {x.job.bid, x.undoBid}, Good(x.job),
             batches' = IF written THEN Marked(x.job.bid, "committed") ELSE batches,
             tabs' = [tabs EXCEPT ![t] =
                  [done EXCEPT !.at = "away", !.undo = x.batch, !.undoTo = x.mode, !.batch = {},
                               !.undoBid = bid]]
      PROVE  ReviewInv'
  <2> DEFINE new == [done EXCEPT !.at = "away", !.undo = x.batch, !.undoTo = x.mode, !.batch = {},
                                 !.undoBid = bid]
  <2>1. bid \in Nat /\ x.batch \in SUBSET Candidates /\ x.mode \in Statuses
    BY <1>2, <1>3 DEF Sessions
  <2>2. /\ new \in Sessions /\ new.job = NoJob /\ new.undo = x.batch /\ new.undoTo = x.mode
        /\ new.undoBid = bid
    BY <1>4, <2>1 DEF Sessions
  <2>3. tabs' = [tabs EXCEPT ![t] = new]
    BY <1>6
  <2> HIDE DEF new
  <2>4. TabIsSound(new)
    BY <1>2, <1>3, <1>6, <2>2, DoneIsSound
  <2> QED
    BY <1>2, <1>3, <1>6, <2>3, <2>4, MarkMoves
<1>7. ASSUME NEW b \in BOOLEAN,
             tabs' = [tabs EXCEPT ![t] = [done EXCEPT !.at = "shown", !.blocked = b]],
             \/ \E written \in BOOLEAN :
                   /\ Wrong(x.job)
                   /\ batches' = IF written THEN Marked(x.job.bid, "failed") ELSE batches
             \/ UNCHANGED batches
      PROVE  ReviewInv'
  <2> DEFINE new == [done EXCEPT !.at = "shown", !.blocked = b]
  <2>1. /\ new \in Sessions /\ new.job = NoJob /\ new.undo = x.undo /\ new.undoTo = x.undoTo
        /\ new.undoBid = x.undoBid
    BY <1>4 DEF Sessions
  <2>2. tabs' = [tabs EXCEPT ![t] = new]
    BY <1>7
  <2> HIDE DEF new
  <2>3. TabIsSound(new)
    BY <1>2, <2>1, DoneIsSound
  <2>4. CASE UNCHANGED batches
    BY <1>2, <2>2, <2>3, <2>4, PageMoves
  <2>5. ASSUME NEW written \in BOOLEAN, Wrong(x.job),
               batches' = IF written THEN Marked(x.job.bid, "failed") ELSE batches
        PROVE  ReviewInv'
    BY <1>2, <1>3, <2>2, <2>3, <2>5, MarkMoves
  <2> QED
    BY <1>7, <2>4, <2>5
<1> QED
  BY <1>5, <1>6, <1>7

LEMMA FinishRecoveryKeeps ==
    ASSUME ReviewInv, NEW t \in Tabs, FinishRecovery(t) PROVE ReviewInv'
<1>1. PICK x : x = tabs[t]
  OBVIOUS
<1> DEFINE new == [[x EXCEPT !.at = "away"] EXCEPT !.job = NoJob]
<1>2. /\ TabIsSound(x) /\ x \in Sessions /\ tabs[t] = x
      /\ x.at = "judged" /\ x.job.kind = "recover" /\ UNCHANGED <<decided, proof>>
  BY <1>1, TabTypes DEF FinishRecovery
<1>3. /\ x.job.bid \in DOMAIN batches
      /\ (Wrong(x.job) => proof[x.job.bid].denied)
      /\ (Good(x.job) => proof[x.job.bid].held)
  BY <1>2 DEF TabIsSound, JobIsRead
<1>4. /\ new \in Sessions /\ new.job = NoJob /\ new.undo = x.undo /\ new.undoTo = x.undoTo
      /\ new.undoBid = x.undoBid
  BY <1>2, NoJobTyped DEF Sessions
<1>5. tabs' = [tabs EXCEPT ![t] = new]
  BY <1>2 DEF FinishRecovery
<1> HIDE DEF new
<1>6. TabIsSound(new)
  BY <1>2, <1>4, DoneIsSound
<1>7. \/ \E written \in BOOLEAN :
            /\ Good(x.job)
            /\ batches' = IF written THEN Marked(x.job.bid, "committed") ELSE batches
      \/ \E written \in BOOLEAN :
            /\ Wrong(x.job)
            /\ batches' = IF written THEN Marked(x.job.bid, "failed") ELSE batches
      \/ UNCHANGED batches
  BY <1>1 DEF FinishRecovery, Record
<1>8. CASE UNCHANGED batches
  BY <1>2, <1>5, <1>6, <1>8, PageMoves
<1>9. ASSUME NEW written \in BOOLEAN, Good(x.job),
             batches' = IF written THEN Marked(x.job.bid, "committed") ELSE batches
      PROVE  ReviewInv'
  BY <1>2, <1>3, <1>5, <1>6, <1>9, MarkMoves
<1>10. ASSUME NEW written \in BOOLEAN, Wrong(x.job),
              batches' = IF written THEN Marked(x.job.bid, "failed") ELSE batches
       PROVE  ReviewInv'
  BY <1>2, <1>3, <1>5, <1>6, <1>10, MarkMoves
<1> QED
  BY <1>7, <1>8, <1>9, <1>10

LEMMA FinishUndoKeeps == ASSUME ReviewInv, NEW t \in Tabs, FinishUndo(t) PROVE ReviewInv'
<1>1. PICK x : x = tabs[t]
  OBVIOUS
<1> DEFINE done == [x EXCEPT !.at = "away", !.job = NoJob]
           forgotten == [done EXCEPT !.undo = {}, !.undoBid = 0, !.undoTo = "PENDING", !.batch = {}]
<1>2. /\ TabIsSound(x) /\ x \in Sessions /\ x.job.kind = "undo" /\ UNCHANGED <<decided, proof>>
  BY <1>1, TabTypes DEF FinishUndo
<1>3. x.undoBid # 0 => x.job.bid \in DOMAIN batches /\ proof[x.job.bid].held
  BY <1>2 DEF TabIsSound
<1>4. /\ done \in Sessions /\ done.job = NoJob /\ done.undo = x.undo /\ done.undoTo = x.undoTo
      /\ done.undoBid = x.undoBid
  BY <1>2, NoJobTyped DEF Sessions
<1>5. \/ \E written \in BOOLEAN :
            /\ x.undoBid # 0
            /\ batches' = IF written THEN Marked(x.job.bid, "cancelled") ELSE batches
            /\ \/ tabs' = [tabs EXCEPT ![t] = forgotten]
               \/ tabs' = [tabs EXCEPT ![t] = done]
      \/ /\ \/ tabs' = [tabs EXCEPT ![t] = forgotten]
            \/ tabs' = [tabs EXCEPT ![t] = done]
         /\ UNCHANGED batches
  BY <1>1 DEF FinishUndo, Record
<1> HIDE DEF done
<1>6. /\ forgotten \in Sessions /\ forgotten.job = NoJob /\ forgotten.undo = {}
      /\ forgotten.undoBid = 0
  BY <1>4 DEF Sessions, Statuses
<1> HIDE DEF forgotten
<1>7. TabIsSound(done) /\ TabIsSound(forgotten)
  BY <1>2, <1>4, <1>6, DoneIsSound
<1>8. CASE UNCHANGED batches
  BY <1>2, <1>5, <1>7, <1>8, PageMoves
<1>9. ASSUME NEW written \in BOOLEAN, x.undoBid # 0,
             batches' = IF written THEN Marked(x.job.bid, "cancelled") ELSE batches,
             NEW s \in {done, forgotten}, tabs' = [tabs EXCEPT ![t] = s]
      PROVE  ReviewInv'
  BY <1>2, <1>3, <1>7, <1>9, MarkMoves
<1> QED
  BY <1>5, <1>8, <1>9

LEMMA InitReview == ReviewInit => ReviewInv
<1> SUFFICES ASSUME ReviewInit PROVE ReviewInv
  OBVIOUS
<1>1. decided \in [Candidates -> Statuses] /\ \A r \in Candidates : OnRecord(r, decided[r])
  BY DEF ReviewInit, Statuses, OnRecord
<1>2. batches \in Seq(RowOf) /\ proof \in Seq(ReadOf) /\ Len(batches) = 0 /\ Len(proof) = 0
      /\ DOMAIN batches = {}
  BY DEF ReviewInit
<1>3. DOMAIN tabs = Tabs /\ \A t \in Tabs : TabIsSound(tabs[t])
  BY NewSessionIsSound DEF ReviewInit
<1> QED
  BY <1>1, <1>2, <1>3, ReviewAssumption DEF ReviewInv

LEMMA ReviewInvStep == ReviewInv /\ [ReviewNext]_reviewVars => ReviewInv'
<1> SUFFICES ASSUME ReviewInv, [ReviewNext]_reviewVars PROVE ReviewInv'
  OBVIOUS
<1>1. CASE Restart
  BY <1>1, RestartKeeps
<1>2. ASSUME NEW t \in Tabs, TabStep(t) PROVE ReviewInv'
  BY <1>2, ShowKeeps, RecoverKeeps, SwitchKeeps, SubmitKeeps, UndoKeeps, SaveChunkKeeps,
     RecheckKeeps, VerifyChunkKeeps, FinishSaveKeeps, FinishRecoveryKeeps, FinishUndoKeeps,
     ReloadKeeps DEF TabStep
<1>3. CASE UNCHANGED reviewVars
  <2>1. UNCHANGED <<decided, batches, proof, tabs>>
    BY <1>3 DEF reviewVars
  <2> QED
    BY <2>1 DEF ReviewInv, BatchIsSound, TabIsSound, JobIsRead, OnRecord
<1> QED
  BY <1>1, <1>2, <1>3 DEF ReviewNext

\* Between any number of tabs, lost answers, refused chunks, failed file writes, restarts
\* and reloads: a batch is called committed only after one pass of reads has found all of
\* its decisions, and given up only when one was refused or read with another value; every
\* value the page has written is on record (review_batch_committer, undo_state_store).
THEOREM ReviewIsSoundHolds == ReviewSpec => []ReviewIsSound
<1>1. ReviewInit => ReviewInv
  BY InitReview
<1>2. ReviewInv /\ [ReviewNext]_reviewVars => ReviewInv'
  BY ReviewInvStep
<1>3. ReviewInv => ReviewIsSound
  <2> SUFFICES ASSUME ReviewInv PROVE ReviewIsSound
    OBVIOUS
  <2>1. /\ decided \in [Candidates -> Statuses] /\ Len(batches) <= MaxBatches
        /\ DOMAIN proof = DOMAIN batches /\ DOMAIN batches = 1..Len(batches)
        /\ Len(batches) \in Nat
    <3>1. batches \in Seq(RowOf) /\ proof \in Seq(ReadOf) /\ Len(proof) = Len(batches)
      BY DEF ReviewInv
    <3> QED
      BY <3>1 DEF ReviewInv
  <2>2. ASSUME NEW b \in DOMAIN batches
        PROVE  /\ batches[b].state
                    \in {"prepared", "committed", "failed", "cancelled", "superseded"}
               /\ batches[b].want \in [DOMAIN batches[b].want -> {"PASS", "BLOCK"}]
               /\ batches[b].back \in Statuses
    BY RowTypes, MapsAre DEF RowOf
  <2>3. ASSUME NEW t \in Tabs
        PROVE  /\ tabs[t].at \in {"away", "shown", "saving", "rechecking", "verifying", "judged"}
               /\ tabs[t].batch \cup tabs[t].undo \subseteq Candidates
               /\ tabs[t].undoBid \in 0..Len(batches)
    <3>1. TabIsSound(tabs[t]) /\ tabs[t] \in Sessions
      BY TabTypes
    <3>2. tabs[t].undoBid \in 0..Len(batches)
      BY <2>1, <3>1 DEF TabIsSound
    <3> QED
      BY <3>1, <3>2 DEF Sessions
  <2>4. ReviewTypeOK
    BY <2>1, <2>2, <2>3 DEF ReviewTypeOK
  <2>5. CommittedWasRead /\ GivenUpWasSeen
    BY DEF ReviewInv, BatchIsSound, CommittedWasRead, GivenUpWasSeen
  <2>6. NothingUnrecorded
    BY DEF ReviewInv, OnRecord, NothingUnrecorded
  <2> QED
    BY <2>4, <2>5, <2>6 DEF ReviewIsSound
<1> QED
  BY <1>1, <1>2, <1>3, PTL DEF ReviewSpec

-----------------------------------------------------------------------------
(* The way of a post to its campaign.  Once verified, the comments from     *)
(* before the cutover are settled and stay so; and while the post is active *)
(* the modes are the ones that heed it, so no worker takes one up again but *)
(* one under whose eyes the campaign file has changed.                      *)

Notes == [in : BOOLEAN, rest : Lists \cup {"none"}]

Targets == [state : {"none", "PENDING", "ACTIVE", "PAUSED"}, config : Notes, base : Notes,
            cut : Nat, old : SUBSET Comments, applied : Nat, verified : BOOLEAN,
            fails : 0..MaxFailed, alerted : BOOLEAN]

Commands == [at : {"idle", "fetch", "suppress", "record"}, cut : Nat, old : SUBSET Comments,
             stamp : Nat, todo : SUBSET Comments, noted : Notes]

Works == [at : {"idle", "passed", "legacy", "claimed"}, c : Nat, torn : BOOLEAN]

Modes == [gate : {"legacy", "allowlist"}, store : {"disabled", "shadow", "enforce"}]

CutShape ==
    /\ json \in [ok : BOOLEAN, in : BOOLEAN, rest : Lists]
    /\ target \in Targets
    /\ events \in [Comments -> {"none", "shadow", "working", "done", "suppressed"}]
    /\ posted \in 0..Last
    /\ env \in [file : Modes, live : Modes]
    /\ work \in [Workers -> Works]
    /\ \A w \in Workers : work[w].at # "idle" => work[w].c \in Comments
    /\ cached \subseteq Comments
    /\ cli \in Commands
    /\ commands \in Nat

\* What was verified, or is about to be, is settled.
VerifiedIsSettled ==
    target.verified \/ cli.at = "record" => \A c \in target.old : Safe(c)

\* A worker whose reads of the file agree is not at work on a comment from before.
Heeds(w) ==
    /\ work[w].at = "passed" /\ ~work[w].torn => Campaign
    /\ work[w].at = "claimed" => work[w].c \notin target.old
    /\ work[w].at = "legacy" /\ ~work[w].torn => work[w].c \notin target.old

\* While the post is active so are all workers.
ActiveIsHeeded ==
    target.state = "ACTIVE" =>
        /\ target.verified /\ env.file = Allow /\ env.live = Allow
        /\ \A w \in Workers : Heeds(w)

CutInv ==
    /\ CutShape /\ VerifiedIsSettled /\ ActiveIsHeeded
    /\ late = {} /\ MarkIsOfThisStreak

LEMMA CutTypes ==
    ASSUME CutShape
    PROVE  /\ target \in Targets /\ cli \in Commands /\ Hash \in Notes /\ Unnoted \in Notes
           /\ NoTarget \in Targets /\ NoTarget.state = "none" /\ NoTarget.old = {}
           /\ ~NoTarget.verified /\ NoTarget.fails = 0 /\ ~NoTarget.alerted
           /\ \A w \in Workers : work[w] \in Works
           /\ NoWork \in Works /\ NoWork.at = "idle"
           /\ posted \in Nat /\ 1..posted \subseteq Comments /\ MaxFailed \in Nat
           /\ Threshold \in Nat /\ Threshold > 0
<1>1. target \in Targets /\ cli \in Commands /\ work \in [Workers -> Works]
  BY DEF CutShape
<1>2. Hash \in Notes /\ Unnoted \in Notes
  BY DEF CutShape, Hash, Unnoted, Notes
<1>3. /\ MaxFailed \in Nat /\ Threshold \in Nat /\ Threshold > 0 /\ Last \in Nat
  BY CutoverAssumption
<1>4. posted \in Nat /\ 1..posted \subseteq Comments
  BY <1>3 DEF CutShape, Comments
<1>5. 0 \in 0..MaxFailed
  BY <1>3
<1>6. /\ NoTarget \in Targets /\ NoTarget.state = "none" /\ NoTarget.old = {}
      /\ ~NoTarget.verified /\ NoTarget.fails = 0 /\ ~NoTarget.alerted
  BY <1>2, <1>5 DEF NoTarget, Targets
<1>7. NoWork \in Works /\ NoWork.at = "idle"
  BY DEF NoWork, Works
<1> QED
  BY <1>1, <1>2, <1>3, <1>4, <1>6, <1>7

\* sync_from_campaign_json activates nothing, verifies nothing, and forgets the comments
\* from before the cutover only with the verification.
LEMMA SyncedIs ==
    ASSUME CutShape
    PROVE  /\ Synced \in Targets
           /\ Synced.state = "ACTIVE" => target.state = "ACTIVE"
           /\ Synced.verified => target.verified
           /\ \/ Synced.old = target.old /\ Synced.verified = target.verified
              \/ Synced.old = {} /\ ~Synced.verified /\ Synced.state = "PENDING"
           /\ \/ Synced.fails = target.fails /\ Synced.alerted = target.alerted
              \/ Synced.fails = 0 /\ ~Synced.alerted
<1> DEFINE Goal(s) == /\ s \in Targets
                      /\ s.state = "ACTIVE" => target.state = "ACTIVE"
                      /\ s.verified => target.verified
                      /\ \/ s.old = target.old /\ s.verified = target.verified
                         \/ s.old = {} /\ ~s.verified /\ s.state = "PENDING"
                      /\ \/ s.fails = target.fails /\ s.alerted = target.alerted
                         \/ s.fails = 0 /\ ~s.alerted
<1>1. target \in Targets /\ Hash \in Notes /\ Unnoted \in Notes
  BY CutTypes
<1>2. Goal(target)
  BY <1>1
<1>3. ASSUME target.state \in {"PENDING", "ACTIVE"}
      PROVE  Goal([target EXCEPT !.config = Hash]) /\ Goal([target EXCEPT !.state = "PAUSED"])
  BY <1>1, <1>3 DEF Targets
<1>4. Goal([NoTarget EXCEPT !.state = "PENDING", !.config = Hash])
  BY <1>1, CutTypes DEF Targets
<1>5. Goal([NoTarget EXCEPT !.state = "PENDING", !.config = Hash,
                            !.fails = target.fails, !.alerted = target.alerted])
  BY <1>1, CutTypes DEF Targets
<1> HIDE DEF Goal
<1>6. Goal(Synced)
  BY <1>2, <1>3, <1>4, <1>5 DEF Synced
<1> QED
  BY <1>6 DEF Goal

\* Safe is for good.
LEMMA SafeStays ==
    ASSUME CutShape, CutoverNext, NEW c \in Comments, Safe(c)
    PROVE  Safe(c)'
<1>1. events \in [Comments -> {"none", "shadow", "working", "done", "suppressed"}]
  BY DEF CutShape
<1>2. ASSUME NEW w \in Workers, Enters(w) PROVE Safe(c)'
  <2>1. \/ UNCHANGED events
        \/ /\ events[work[w].c] \in {"none", "working"}
           /\ \E e \in {"shadow", "working"} : events' = [events EXCEPT ![work[w].c] = e]
    BY <1>2 DEF Enters
  <2> QED
    BY <1>1, <2>1 DEF Safe
<1>3. ASSUME NEW w \in Workers, Answers(w) PROVE Safe(c)'
  <2>1. UNCHANGED events \/ events' = [events EXCEPT ![work[w].c] = "done"]
    BY <1>3 DEF Answers
  <2> QED
    BY <1>1, <2>1 DEF Safe
<1>4. ASSUME NEW d \in Comments, ApplySuppress(d) PROVE Safe(c)'
  BY <1>1, <1>4 DEF ApplySuppress, Safe
<1>5. CASE \/ PollFails \/ PollSync \/ Writes
           \/ \E w \in Workers, d \in Comments : Arrives(w, d)
           \/ DryRun \/ Apply \/ ApplyFetch \/ ApplyRecord
           \/ Verify \/ VerifyRecord \/ Activate \/ CommandDies
           \/ EditFile \/ EditModes \/ LauncherRestart
  <2>1. UNCHANGED events
    BY <1>5 DEF PollFails, PollSync, Writes, Arrives, DryRun, Apply, ApplyFetch, ApplyRecord,
       Verify, VerifyRecord, Activate, CommandDies, EditFile, EditModes, LauncherRestart
  <2> QED
    BY <2>1 DEF Safe
<1> QED
  BY <1>2, <1>3, <1>4, <1>5 DEF CutoverNext

\* What a step does to the row of the post.
LEMMA TargetStep ==
    ASSUME CutInv, CutoverNext
    PROVE  /\ target' \in Targets
           /\ MarkIsOfThisStreak'
           /\ \/ target'.old = target.old
              \/ target'.old = {}
              \/ cli.at = "suppress" /\ ~target'.verified
           /\ target'.verified => target.verified \/ cli.at = "record"
           /\ target'.state = "ACTIVE" =>
                 /\ target'.verified /\ target'.old = target.old
                 /\ target.state = "ACTIVE" \/ (Activate /\ target.verified)
<1> DEFINE Goal ==
       /\ target' \in Targets
       /\ MarkIsOfThisStreak'
       /\ \/ target'.old = target.old
          \/ target'.old = {}
          \/ cli.at = "suppress" /\ ~target'.verified
       /\ target'.verified => target.verified \/ cli.at = "record"
       /\ target'.state = "ACTIVE" =>
             /\ target'.verified /\ target'.old = target.old
             /\ target.state = "ACTIVE" \/ (Activate /\ target.verified)
<1>1. /\ CutShape /\ target \in Targets /\ cli \in Commands /\ MaxFailed \in Nat
      /\ Threshold \in Nat /\ Threshold > 0
      /\ target.state = "ACTIVE" => target.verified
      /\ target.alerted => target.fails >= Threshold
  BY CutTypes DEF CutInv, ActiveIsHeeded, MarkIsOfThisStreak
<1>2. ASSUME UNCHANGED target PROVE Goal
  BY <1>1, <1>2 DEF MarkIsOfThisStreak
<1>3. ASSUME NEW s \in Targets, s = Synced PROVE /\ s.alerted => s.fails >= Threshold
                                                 /\ s.state = "ACTIVE" => s.verified /\ s.old = target.old
                                                 /\ s.state = "ACTIVE" => target.state = "ACTIVE"
                                                 /\ s.old = target.old \/ s.old = {}
                                                 /\ s.verified => target.verified
  BY <1>1, <1>3, SyncedIs
<1>4. ASSUME target' = Synced PROVE Goal
  BY <1>1, <1>3, <1>4, SyncedIs DEF MarkIsOfThisStreak
<1>5. CASE PollFails
  <2> DEFINE n == target.fails + 1
  <2>1. PICK told \in BOOLEAN :
           target' = [target EXCEPT !.fails = n, !.alerted = @ \/ (n >= Threshold /\ told)]
    BY <1>5 DEF PollFails
  <2>2. n \in 0..MaxFailed /\ (target.fails >= Threshold => n >= Threshold)
    BY <1>1, <1>5 DEF PollFails, Targets
  <2>3. PICK a \in BOOLEAN : (a = (target.alerted \/ (n >= Threshold /\ told)))
    OBVIOUS
  <2>4. a => n >= Threshold
    BY <1>1, <2>2, <2>3
  <2>5. target' = [target EXCEPT !.fails = n, !.alerted = a]
    BY <2>1, <2>3
  <2> HIDE DEF n
  <2>6. /\ target' \in Targets /\ target'.fails = n /\ target'.alerted = a
        /\ target'.state = target.state /\ target'.verified = target.verified
        /\ target'.old = target.old
    BY <1>1, <2>2, <2>5 DEF Targets
  <2> QED
    BY <1>1, <2>4, <2>6 DEF MarkIsOfThisStreak
<1>6. ASSUME NEW w \in Workers, NEW c \in Comments, Arrives(w, c) PROVE Goal
  <2>1. UNCHANGED target \/ target' = Succeeded
    BY <1>6 DEF Arrives
  <2>2. ASSUME target' = Succeeded PROVE Goal
    <3>1. 0 \in 0..MaxFailed
      BY <1>1
    <3>2. /\ target' \in Targets /\ ~target'.alerted
          /\ target'.state = target.state /\ target'.verified = target.verified
          /\ target'.old = target.old
      BY <1>1, <2>2, <3>1 DEF Targets, Succeeded
    <3> QED
      BY <1>1, <3>2 DEF MarkIsOfThisStreak
  <2> QED
    BY <1>2, <2>1, <2>2
<1>7. CASE ApplyRecord
  <2>1. CASE target.state = "PENDING"
    <3>1. target' = [target EXCEPT !.cut = cli.cut, !.old = cli.old, !.base = target.config,
                                   !.applied = commands, !.verified = FALSE]
      BY <1>7, <2>1 DEF ApplyRecord
    <3>2. cli.cut \in Nat /\ cli.old \in SUBSET Comments /\ target.config \in Notes
          /\ commands \in Nat /\ cli.at = "suppress"
      BY <1>1, <1>7 DEF Commands, Targets, CutShape, ApplyRecord
    <3>3. /\ target' \in Targets /\ target'.alerted = target.alerted
          /\ target'.fails = target.fails /\ target'.state = "PENDING" /\ ~target'.verified
      BY <1>1, <2>1, <3>1, <3>2 DEF Targets
    <3> QED
      BY <1>1, <3>2, <3>3 DEF MarkIsOfThisStreak
  <2>2. CASE target.state # "PENDING"
    BY <1>2, <1>7, <2>2 DEF ApplyRecord
  <2> QED
    BY <2>1, <2>2
<1>8. CASE VerifyRecord
  <2>1. \/ UNCHANGED target \/ target' = Synced
        \/ Synced.state = "PENDING" /\ target' = [Synced EXCEPT !.verified = TRUE]
    BY <1>8 DEF VerifyRecord
  <2>2. ASSUME Synced.state = "PENDING", target' = [Synced EXCEPT !.verified = TRUE] PROVE Goal
    <3>1. PICK s \in Targets : s = Synced
      BY <1>1, SyncedIs
    <3>2. /\ target' \in Targets /\ target'.state = "PENDING" /\ target'.old = s.old
          /\ target'.fails = s.fails /\ target'.alerted = s.alerted
      BY <2>2, <3>1 DEF Targets
    <3> QED
      BY <1>1, <1>3, <1>8, <3>1, <3>2 DEF VerifyRecord, MarkIsOfThisStreak
  <2> QED
    BY <1>2, <1>4, <2>1, <2>2
<1>9. CASE Activate
  <2>1. PICK s \in Targets : s = Synced
    BY <1>1, SyncedIs
  <2>2. \/ target' = s
        \/ s.state = "PENDING" /\ s.verified /\ target' = [s EXCEPT !.state = "ACTIVE"]
    BY <1>9, <2>1 DEF Activate
  <2>3. ASSUME s.state = "PENDING", s.verified, target' = [s EXCEPT !.state = "ACTIVE"] PROVE Goal
    <3>1. /\ target' \in Targets /\ target'.old = s.old /\ target'.verified
          /\ target'.fails = s.fails /\ target'.alerted = s.alerted
      BY <2>3 DEF Targets
    <3>2. target.verified /\ s.old = target.old
      BY <1>1, <2>1, <2>3, SyncedIs
    <3> QED
      BY <1>1, <1>3, <1>9, <2>1, <3>1, <3>2 DEF MarkIsOfThisStreak
  <2> QED
    BY <1>4, <2>1, <2>2, <2>3
<1>10. CASE PollSync \/ Apply
  BY <1>4, <1>10 DEF PollSync, Apply
<1>11. CASE \/ Writes \/ \E w \in Workers : Enters(w) \/ Answers(w)
            \/ DryRun \/ ApplyFetch \/ \E c \in Comments : ApplySuppress(c)
            \/ Verify \/ CommandDies \/ EditFile \/ EditModes \/ LauncherRestart
  <2>1. UNCHANGED target
    BY <1>11 DEF Writes, Enters, Answers, DryRun, ApplyFetch, ApplySuppress, Verify,
       CommandDies, EditFile, EditModes, LauncherRestart
  <2> QED
    BY <1>2, <2>1
<1> QED
  BY <1>5, <1>6, <1>7, <1>8, <1>9, <1>10, <1>11 DEF CutoverNext

\* The steps outside the row keep the types.
\* An edit of the file leaves the workers where they are.
LEMMA TornIs ==
    ASSUME CutShape, EditFile
    PROVE  /\ work' \in [Workers -> Works]
           /\ \A w \in Workers :
                 /\ work'[w].at = work[w].at /\ work'[w].c = work[w].c
                 /\ work[w].at = "passed" => work'[w].torn
                 /\ work[w].at # "passed" => work'[w].torn = work[w].torn
<1>1. \A w \in Workers : work[w] \in Works
  BY DEF CutShape
<1>2. ASSUME NEW w \in Workers
      PROVE  LET s == [work[w] EXCEPT !.torn = TRUE] IN
             s \in Works /\ s.at = work[w].at /\ s.c = work[w].c /\ s.torn
  BY <1>1 DEF Works
<1> QED
  BY <1>1, <1>2 DEF EditFile

LEMMA CutShapeNext ==
    ASSUME CutInv, CutoverNext
    PROVE  CutShape'
<1>1. /\ CutShape /\ cli \in Commands /\ target' \in Targets /\ NoWork \in Works
      /\ Hash \in Notes /\ 1..posted \subseteq Comments /\ Last \in Nat
  BY CutTypes, TargetStep, CutoverAssumption DEF CutInv
<1>2. /\ work \in [Workers -> Works] /\ env \in [file : Modes, live : Modes]
      /\ posted \in 0..Last /\ cached \subseteq Comments
      /\ events \in [Comments -> {"none", "shadow", "working", "done", "suppressed"}]
      /\ \A w \in Workers : work[w].at # "idle" => work[w].c \in Comments
  BY <1>1 DEF CutShape
<1>3. json' \in [ok : BOOLEAN, in : BOOLEAN, rest : Lists]
  <2>1. CASE EditFile
    BY <2>1 DEF EditFile
  <2>2. CASE ~EditFile
    <3>1. UNCHANGED json
      BY <2>2 DEF CutoverNext, PollFails, PollSync, Writes, Enters, Answers, Arrives, DryRun,
         Apply, ApplyFetch, ApplySuppress, ApplyRecord, Verify, VerifyRecord, Activate,
         CommandDies, EditModes, LauncherRestart
    <3> QED
      BY <1>1, <3>1 DEF CutShape
  <2> QED
    BY <2>1, <2>2
<1>4. events' \in [Comments -> {"none", "shadow", "working", "done", "suppressed"}]
  <2>1. \/ UNCHANGED events
        \/ \E c, e : /\ e \in {"none", "shadow", "working", "done", "suppressed"}
                     /\ events' = [events EXCEPT ![c] = e]
    BY DEF CutoverNext, PollFails, PollSync, Writes, Enters, Answers, Arrives, DryRun,
       Apply, ApplyFetch, ApplySuppress, ApplyRecord, Verify, VerifyRecord, Activate,
       CommandDies, EditFile, EditModes, LauncherRestart
  <2> QED
    BY <1>2, <2>1
<1>5. posted' \in 0..Last
  <2>1. UNCHANGED posted \/ (posted < Last /\ posted' = posted + 1)
    BY DEF CutoverNext, PollFails, PollSync, Writes, Enters, Answers, Arrives, DryRun,
       Apply, ApplyFetch, ApplySuppress, ApplyRecord, Verify, VerifyRecord, Activate,
       CommandDies, EditFile, EditModes, LauncherRestart
  <2> QED
    BY <1>1, <1>2, <2>1
<1>6. env' \in [file : Modes, live : Modes]
  <2>1. CASE EditModes
    BY <1>2, <2>1 DEF EditModes, Modes
  <2>2. CASE LauncherRestart
    BY <1>2, <2>2 DEF LauncherRestart
  <2>3. CASE ~EditModes /\ ~LauncherRestart
    BY <1>2, <2>3 DEF CutoverNext, PollFails, PollSync, Writes, Enters, Answers, Arrives,
       DryRun, Apply, ApplyFetch, ApplySuppress, ApplyRecord, Verify, VerifyRecord, Activate,
       CommandDies, EditFile
  <2> QED
    BY <2>1, <2>2, <2>3
<1>7. /\ work' \in [Workers -> Works]
      /\ \A w \in Workers : work'[w].at # "idle" => work'[w].c \in Comments
  <2> DEFINE Goal == /\ work' \in [Workers -> Works]
                     /\ \A w \in Workers : work'[w].at # "idle" => work'[w].c \in Comments
  <2>1. ASSUME NEW w \in Workers, NEW s \in Works, s.at # "idle" => s.c \in Comments,
               work' = [work EXCEPT ![w] = s]
        PROVE  Goal
    BY <1>2, <2>1
  <2>2. ASSUME NEW w \in Workers, NEW c \in Comments, Arrives(w, c) PROVE Goal
    <3> DEFINE s == [NoWork EXCEPT !.at = "passed", !.c = c]
    <3>1. c \in Nat
      BY CutoverAssumption DEF Comments
    <3>2. s \in Works /\ s.c \in Comments
      BY <3>1 DEF Works, NoWork
    <3>3. work' = [work EXCEPT ![w] = s]
      BY <2>2 DEF Arrives
    <3> HIDE DEF s
    <3> QED
      BY <2>1, <3>2, <3>3
  <2>3. ASSUME NEW w \in Workers, Enters(w) PROVE Goal
    <3>1. \/ work' = [work EXCEPT ![w] = NoWork]
          \/ \E at \in {"legacy", "claimed"} : work' = [work EXCEPT ![w].at = at]
      BY <2>3 DEF Enters
    <3>2. ASSUME NEW at \in {"legacy", "claimed"}, work' = [work EXCEPT ![w].at = at] PROVE Goal
      <4> DEFINE s == [work[w] EXCEPT !.at = at]
      <4>1. s \in Works /\ s.c = work[w].c /\ work[w].at = "passed"
        BY <1>2, <2>3 DEF Works, Enters
      <4>2. work' = [work EXCEPT ![w] = s]
        BY <3>2
      <4> HIDE DEF s
      <4> QED
        BY <1>2, <2>1, <4>1, <4>2
    <3> QED
      BY <1>1, <2>1, <3>1, <3>2 DEF NoWork
  <2>4. ASSUME NEW w \in Workers, Answers(w) PROVE Goal
    BY <1>1, <2>1, <2>4 DEF Answers, NoWork
  <2>5. CASE LauncherRestart
    BY <1>1, <2>5 DEF LauncherRestart, NoWork
  <2>6. CASE \/ PollFails \/ PollSync \/ Writes \/ DryRun \/ Apply \/ ApplyFetch \/ ApplyRecord
             \/ \E c \in Comments : ApplySuppress(c)
             \/ Verify \/ VerifyRecord \/ Activate \/ CommandDies \/ EditModes
    <3>1. UNCHANGED work
      BY <2>6 DEF PollFails, PollSync, Writes, DryRun, Apply, ApplyFetch, ApplySuppress,
         ApplyRecord, Verify, VerifyRecord, Activate, CommandDies, EditModes
    <3> QED
      BY <1>2, <3>1
  <2>7. CASE EditFile
    BY <1>1, <1>2, <2>7, TornIs
  <2> QED
    BY <2>2, <2>3, <2>4, <2>5, <2>6, <2>7 DEF CutoverNext
<1>8. cached' \subseteq Comments
  <2>1. ASSUME NEW w \in Workers, Enters(w) \/ Answers(w) PROVE cached' \subseteq Comments
    <3>1. work[w].c \in Comments
      BY <1>2, <2>1 DEF Enters, Answers
    <3>2. UNCHANGED cached \/ cached' = cached \cup {work[w].c}
      BY <2>1 DEF Enters, Answers, Remember
    <3> QED
      BY <1>2, <3>1, <3>2
  <2>2. CASE ~(\E w \in Workers : Enters(w) \/ Answers(w))
    BY <1>2, <2>2 DEF CutoverNext, PollFails, PollSync, Writes, Arrives, DryRun,
       Apply, ApplyFetch, ApplySuppress, ApplyRecord, Verify, VerifyRecord, Activate,
       CommandDies, EditFile, EditModes, LauncherRestart
  <2> QED
    BY <2>1, <2>2
<1>9. cli' \in Commands
  <2>1. ASSUME Ends PROVE cli' \in Commands
    <3>1. cli.noted \in Notes /\ Unnoted \in Notes
      BY <1>1, CutTypes DEF Commands
    <3> QED
      BY <2>1, <3>1 DEF Ends, NoCommand, Commands
  <2>2. CASE DryRun
    BY <1>1, <2>2 DEF DryRun, Commands
  <2>3. CASE Apply
    <3>1. Ends \/ \E cut \in 0..Last : cli' = [cli EXCEPT !.at = "fetch", !.cut = cut]
      BY <2>3 DEF Apply
    <3>2. ASSUME NEW cut \in 0..Last, cli' = [cli EXCEPT !.at = "fetch", !.cut = cut]
          PROVE  cli' \in Commands
      <4>1. cut \in Nat
        BY <1>2
      <4> QED
        BY <1>1, <3>2, <4>1 DEF Commands
    <3> QED
      BY <2>1, <3>1, <3>2
  <2>4. CASE ApplyFetch
    <3> DEFINE before == Before(cli.cut)
               todo == {c \in before : ~Safe(c)}
    <3>1. Ends \/ cli' = [cli EXCEPT !.at = "suppress", !.old = before, !.todo = todo]
      BY <2>4 DEF ApplyFetch
    <3>2. before \in SUBSET Comments /\ todo \in SUBSET Comments
      BY <1>1 DEF Before
    <3> HIDE DEF before, todo
    <3>3. ASSUME cli' = [cli EXCEPT !.at = "suppress", !.old = before, !.todo = todo]
          PROVE  cli' \in Commands
      BY <1>1, <3>2, <3>3 DEF Commands
    <3> QED
      BY <2>1, <3>1, <3>3
  <2>5. ASSUME NEW c \in Comments, ApplySuppress(c) PROVE cli' \in Commands
    <3>1. Ends \/ cli' = [cli EXCEPT !.todo = @ \ {c}]
      BY <2>5 DEF ApplySuppress
    <3>2. [cli EXCEPT !.todo = @ \ {c}] \in Commands
      BY <1>1 DEF Commands
    <3> QED
      BY <2>1, <3>1, <3>2
  <2>6. CASE Verify
    <3>1. Ends \/ cli' = [cli EXCEPT !.at = "record", !.stamp = target.applied]
      BY <2>6 DEF Verify
    <3>2. target.applied \in Nat
      BY <1>1 DEF CutShape, Targets
    <3>3. [cli EXCEPT !.at = "record", !.stamp = target.applied] \in Commands
      BY <1>1, <3>2 DEF Commands
    <3> QED
      BY <2>1, <3>1, <3>3
  <2>7. CASE ApplyRecord \/ VerifyRecord \/ Activate \/ CommandDies
    BY <2>1, <2>7 DEF ApplyRecord, VerifyRecord, Activate, CommandDies
  <2>8. CASE \/ PollFails \/ PollSync \/ Writes
             \/ \E w \in Workers :
                   Enters(w) \/ Answers(w) \/ \E c \in Comments : Arrives(w, c)
             \/ EditFile \/ EditModes \/ LauncherRestart
    <3>1. UNCHANGED cli
      BY <2>8 DEF PollFails, PollSync, Writes, Enters, Answers, Arrives, EditFile, EditModes,
         LauncherRestart
    <3> QED
      BY <1>1, <3>1
  <2> QED
    BY <2>2, <2>3, <2>4, <2>5, <2>6, <2>7, <2>8 DEF CutoverNext
<1>10. commands' \in Nat
  <2>1. commands \in Nat
    BY <1>1 DEF CutShape
  <2>2. UNCHANGED commands \/ commands' = commands + 1
    BY DEF CutoverNext, PollFails, PollSync, Writes, Enters, Answers, Arrives, DryRun,
       Apply, ApplyFetch, ApplySuppress, ApplyRecord, Verify, VerifyRecord, Activate,
       CommandDies, EditFile, EditModes, LauncherRestart, Command
  <2> QED
    BY <2>1, <2>2
<1> QED
  BY <1>1, <1>3, <1>4, <1>5, <1>6, <1>7, <1>8, <1>9, <1>10 DEF CutShape

LEMMA SettledNext ==
    ASSUME CutInv, CutoverNext
    PROVE  VerifiedIsSettled'
<1>1. CutShape /\ VerifiedIsSettled
  BY DEF CutInv
<1>2. ASSUME target'.verified \/ cli'.at = "record", NEW c \in target'.old
      PROVE  Safe(c)'
  <2>1. c \in Comments
    BY TargetStep DEF Targets
  <2>2. Safe(c) => Safe(c)'
    BY <1>1, <2>1, SafeStays
  <2>3. cli'.at = "record" => cli.at = "record" \/ Verify
    <3>1. Ends => cli'.at = "idle"
      BY DEF Ends, NoCommand
    <3>2. ASSUME cli'.at = "record", cli.at # "record", ~Verify PROVE FALSE
      <4>1. cli \in Commands
        BY <1>1, CutTypes
      <4>2. CASE Apply
        <5>1. Ends \/ \E cut \in 0..Last : cli' = [cli EXCEPT !.at = "fetch", !.cut = cut]
          BY <4>2 DEF Apply
        <5> QED
          BY <3>1, <3>2, <4>1, <5>1 DEF Commands
      <4>3. CASE ApplyFetch
        <5>1. Ends \/ \E o, d : cli' = [cli EXCEPT !.at = "suppress", !.old = o, !.todo = d]
          BY <4>3 DEF ApplyFetch
        <5> QED
          BY <3>1, <3>2, <4>1, <5>1 DEF Commands
      <4>4. ASSUME NEW d \in Comments, ApplySuppress(d) PROVE FALSE
        <5>1. Ends \/ cli' = [cli EXCEPT !.todo = @ \ {d}]
          BY <4>4 DEF ApplySuppress
        <5> QED
          BY <3>1, <3>2, <4>1, <5>1 DEF Commands
      <4>5. CASE DryRun
        BY <3>2, <4>1, <4>5 DEF DryRun, Commands
      <4>6. CASE ApplyRecord \/ VerifyRecord \/ Activate \/ CommandDies
        BY <3>1, <3>2, <4>6 DEF ApplyRecord, VerifyRecord, Activate, CommandDies
      <4>7. CASE \/ PollFails \/ PollSync \/ Writes
                 \/ \E w \in Workers :
                       Enters(w) \/ Answers(w) \/ \E d \in Comments : Arrives(w, d)
                 \/ EditFile \/ EditModes \/ LauncherRestart
        BY <3>2, <4>7 DEF PollFails, PollSync, Writes, Enters, Answers, Arrives, EditFile,
           EditModes, LauncherRestart
      <4> QED
        BY <3>2, <4>2, <4>3, <4>4, <4>5, <4>6, <4>7 DEF CutoverNext
    <3> QED
      BY <3>2
  <2>4. CASE Verify
    <3>1. UNCHANGED <<target, events>>
      BY <2>4 DEF Verify
    <3>2. target.verified \/ Clean
      BY <1>2, <2>4, <3>1 DEF Verify, Ends, NoCommand
    <3> QED
      BY <1>1, <1>2, <2>2, <3>1, <3>2 DEF VerifiedIsSettled, Clean
  <2>5. CASE ~Verify
    <3>1. cli.at = "suppress" => cli'.at # "record"
      BY <2>3, <2>5
    <3>2. c \in target.old /\ (target.verified \/ cli.at = "record")
      BY <1>2, <2>3, <2>5, <3>1, TargetStep
    <3> QED
      BY <1>1, <2>2, <3>2 DEF VerifiedIsSettled
  <2> QED
    BY <2>4, <2>5
<1> QED
  BY <1>2 DEF VerifiedIsSettled

LEMMA HeededNext ==
    ASSUME CutInv, CutoverNext
    PROVE  ActiveIsHeeded' /\ late' = {}
<1>1. /\ CutShape /\ VerifiedIsSettled /\ ActiveIsHeeded /\ late = {}
      /\ \A w \in Workers : work[w] \in Works
      /\ work \in [Workers -> Works] /\ env \in [file : Modes, live : Modes]
  BY CutTypes DEF CutInv, CutShape
<1>2. late' = {}
  <2>1. ASSUME NEW w \in Workers, Answers(w) PROVE late' = {}
    BY <1>1, <2>1 DEF Answers, ActiveIsHeeded, Heeds
  <2>2. CASE ~(\E w \in Workers : Answers(w))
    BY <1>1, <2>2 DEF CutoverNext, PollFails, PollSync, Writes, Enters, Arrives, DryRun,
       Apply, ApplyFetch, ApplySuppress, ApplyRecord, Verify, VerifyRecord, Activate,
       CommandDies, EditFile, EditModes, LauncherRestart
  <2> QED
    BY <2>1, <2>2
<1>3. ASSUME target'.state = "ACTIVE"
      PROVE  /\ target'.verified /\ env'.file = Allow /\ env'.live = Allow
             /\ \A w \in Workers : Heeds(w)'
  <2>1. CASE Activate
    <3>1. UNCHANGED <<env, work>> /\ env.file = Allow /\ env.live = Allow
          /\ \A w \in Workers : work[w].at = "idle"
      BY <2>1 DEF Activate, Command
    <3> QED
      BY <1>3, <3>1, TargetStep DEF Heeds
  <2>2. CASE ~Activate
    <3>1. /\ target.state = "ACTIVE" /\ target'.old = target.old /\ target'.verified
          /\ target.verified
      BY <1>1, <1>3, <2>2, TargetStep DEF ActiveIsHeeded
    <3>2. /\ env.file = Allow /\ env.live = Allow
          /\ \A w \in Workers : Heeds(w)
          /\ \A c \in target.old : Safe(c)
      BY <1>1, <3>1 DEF ActiveIsHeeded, VerifiedIsSettled
    <3>3. env'.file = Allow /\ env'.live = Allow
      <4>1. CASE LauncherRestart
        BY <1>1, <3>2, <4>1 DEF LauncherRestart
      <4>2. CASE ~LauncherRestart
        <5>1. UNCHANGED env
          BY <3>1, <4>2 DEF CutoverNext, PollFails, PollSync, Writes, Enters, Answers, Arrives,
             DryRun, Apply, ApplyFetch, ApplySuppress, ApplyRecord, Verify, VerifyRecord,
             Activate, CommandDies, EditFile, EditModes
        <5> QED
          BY <3>2, <5>1
      <4> QED
        BY <4>1, <4>2
    <3>4. ASSUME NEW v \in Workers, NEW c \in Comments, Arrives(v, c), NEW w \in Workers
          PROVE  Heeds(w)'
      <4>1. Campaign /\ UNCHANGED json
        BY <3>1, <3>4 DEF Arrives, Blocked, Campaign
      <4>2. Campaign'
        BY <4>1 DEF Campaign
      <4> DEFINE s == [NoWork EXCEPT !.at = "passed", !.c = c]
      <4>3. work' = [work EXCEPT ![v] = s] /\ s.at = "passed"
        BY <3>4 DEF Arrives, NoWork
      <4> HIDE DEF s
      <4> QED
        BY <1>1, <3>1, <3>2, <4>2, <4>3 DEF Heeds
    <3>5. ASSUME NEW v \in Workers, Enters(v), NEW w \in Workers PROVE Heeds(w)'
      <4>1. UNCHANGED json /\ env.live.store = "enforce" /\ (Campaign' <=> Campaign)
        BY <3>2, <3>5 DEF Enters, Campaign, Allow
      <4>2. \/ work' = [work EXCEPT ![v] = NoWork]
            \/ /\ work' = [work EXCEPT ![v].at = "claimed"]
               /\ events[work[v].c] \in {"none", "working"}
            \/ work' = [work EXCEPT ![v].at = "legacy"] /\ ~Campaign
        BY <3>5, <4>1 DEF Enters
      <4>3. /\ events[work[v].c] \in {"none", "working"} => work[v].c \notin target.old
            /\ work[v].at = "passed"
        BY <3>2, <3>5 DEF Safe, Enters
      <4>4. CASE work' = [work EXCEPT ![v] = NoWork]
        BY <1>1, <3>1, <3>2, <4>1, <4>4 DEF NoWork, Heeds
      <4>5. ASSUME NEW at \in {"legacy", "claimed"}, work' = [work EXCEPT ![v].at = at],
                   at = "claimed" => events[work[v].c] \in {"none", "working"},
                   at = "legacy" => ~Campaign
            PROVE  Heeds(w)'
        <5> DEFINE s == [work[v] EXCEPT !.at = at]
        <5>1. s.at = at /\ s.c = work[v].c /\ s.torn = work[v].torn
          BY <1>1 DEF Works
        <5>2. work' = [work EXCEPT ![v] = s]
          BY <4>5
        <5>3. at = "legacy" => s.torn
          BY <3>2, <4>3, <4>5, <5>1 DEF Heeds
        <5> HIDE DEF s
        <5> QED
          BY <1>1, <3>1, <3>2, <4>1, <4>3, <4>5, <5>1, <5>2, <5>3 DEF Heeds
      <4> QED
        BY <4>2, <4>4, <4>5
    <3>6. ASSUME NEW v \in Workers, Answers(v), NEW w \in Workers PROVE Heeds(w)'
      BY <1>1, <3>1, <3>2, <3>6 DEF Answers, NoWork, Campaign, Heeds
    <3>7. ASSUME LauncherRestart, NEW w \in Workers PROVE Heeds(w)'
      BY <3>7 DEF LauncherRestart, NoWork, Heeds
    <3>8. ASSUME EditFile, NEW w \in Workers PROVE Heeds(w)'
      BY <1>1, <3>1, <3>2, <3>8, TornIs DEF Heeds
    <3>9. ASSUME \/ PollFails \/ PollSync \/ Writes \/ DryRun \/ Apply \/ ApplyFetch
                 \/ ApplyRecord \/ \E c \in Comments : ApplySuppress(c)
                 \/ Verify \/ VerifyRecord \/ CommandDies \/ EditModes,
                 NEW w \in Workers
          PROVE  Heeds(w)'
      <4>1. UNCHANGED <<work, json>>
        BY <3>9 DEF PollFails, PollSync, Writes, DryRun, Apply, ApplyFetch, ApplySuppress,
           ApplyRecord, Verify, VerifyRecord, CommandDies, EditModes
      <4> QED
        BY <3>1, <3>2, <4>1 DEF Campaign, Heeds
    <3>10. ASSUME NEW w \in Workers PROVE Heeds(w)'
      BY <2>2, <3>4, <3>5, <3>6, <3>7, <3>8, <3>9 DEF CutoverNext
    <3> QED
      BY <3>1, <3>3, <3>10
  <2> QED
    BY <2>1, <2>2
<1> QED
  BY <1>2, <1>3 DEF ActiveIsHeeded

LEMMA InitCutover == CutoverInit => CutInv
<1> SUFFICES ASSUME CutoverInit PROVE CutInv
  OBVIOUS
<1>1. Last \in Nat \ {0} /\ Lists # {} /\ 0 \in 0..MaxFailed
  BY CutoverAssumption
<1>2. target = NoTarget /\ cli = NoCommand /\ late = {} /\ cached = {} /\ commands = 0
      /\ posted = 1
  BY DEF CutoverInit
<1>3. json \in [ok : BOOLEAN, in : BOOLEAN, rest : Lists]
  BY <1>1 DEF CutoverInit
<1>4. events \in [Comments -> {"none", "shadow", "working", "done", "suppressed"}]
  BY DEF CutoverInit
<1>5. env \in [file : Modes, live : Modes]
  <2>1. PICK m \in {"disabled", "shadow", "enforce"} :
           env = [file |-> [Allow EXCEPT !.gate = "legacy", !.store = m],
                  live |-> [Allow EXCEPT !.gate = "legacy", !.store = m]]
    BY DEF CutoverInit
  <2>2. [Allow EXCEPT !.gate = "legacy", !.store = m] \in Modes
    BY DEF Modes, Allow
  <2> QED
    BY <2>1, <2>2
<1>6. work \in [Workers -> Works] /\ \A w \in Workers : work[w].at = "idle"
  BY DEF CutoverInit, NoWork, Works
<1>7. Unnoted \in Notes
  BY DEF Unnoted, Notes
<1>8. /\ target \in Targets /\ target.state = "none" /\ target.old = {}
      /\ ~target.verified /\ ~target.alerted
  BY <1>1, <1>2, <1>7 DEF NoTarget, Targets
<1>9. cli \in Commands /\ cli.at = "idle"
  BY <1>2, <1>7 DEF NoCommand, Commands
<1>10. posted \in 0..Last
  BY <1>1, <1>2
<1>11. CutShape
  BY <1>2, <1>3, <1>4, <1>5, <1>6, <1>8, <1>9, <1>10 DEF CutShape
<1> QED
  BY <1>2, <1>8, <1>9, <1>11
     DEF CutInv, VerifiedIsSettled, ActiveIsHeeded, Heeds, MarkIsOfThisStreak

LEMMA CutInvStep == CutInv /\ [CutoverNext]_cutVars => CutInv'
<1> SUFFICES ASSUME CutInv, [CutoverNext]_cutVars PROVE CutInv'
  OBVIOUS
<1>1. CASE CutoverNext
  BY <1>1, CutShapeNext, SettledNext, HeededNext, TargetStep DEF CutInv
<1>2. CASE UNCHANGED cutVars
  BY <1>2 DEF cutVars, CutInv, CutShape, VerifiedIsSettled, ActiveIsHeeded, Heeds,
     MarkIsOfThisStreak, Safe, Campaign
<1> QED
  BY <1>1, <1>2

\* Between the operator's commands and edits, the webhook, the poller, restarts and dead
\* commands: no comment that the baseline lists is answered once its post is active, but
\* one under whose eyes the file changed between the gate and is_campaign_post
\* (comment_auto_reply.py:695-707); each of them has a row no claim takes up, and an
\* alert's mark is of the streak that is going on (comment_campaign_baseline_cli,
\* comment_poll_targets, comment_event_store).
THEOREM CutoverIsSoundHolds == CutoverSpec => []CutoverIsSound
<1>1. CutoverInit => CutInv
  BY InitCutover
<1>2. CutInv /\ [CutoverNext]_cutVars => CutInv'
  BY CutInvStep
<1>3. CutInv => CutoverIsSound
  <2> SUFFICES ASSUME CutInv PROVE CutoverIsSound
    OBVIOUS
  <2>1. CutoverTypeOK
    BY DEF CutInv, CutShape, CutoverTypeOK, Targets, Works, Commands
  <2>2. OldStaysQuiet /\ ActiveIsSettled /\ MarkIsOfThisStreak
    BY DEF CutInv, OldStaysQuiet, ActiveIsSettled, ActiveIsHeeded, VerifiedIsSettled
  <2> QED
    BY <2>1, <2>2 DEF CutoverIsSound
<1> QED
  BY <1>1, <1>2, <1>3, PTL DEF CutoverSpec

-----------------------------------------------------------------------------
(* The Facebook crawl.  A job that has opened a profile and not noted it is *)
(* owed its place in the count of the day, by the file and by every reading *)
(* of it that will be written back.                                         *)

Files == [date : Nat, count : 0..MaxOpens, blocked : BOOLEAN]

Hands == [at : {"idle", "open", "count", "limit", "add", "block", "page", "find", "save", "broken"},
          todo : SUBSET Routes, route : Routes \cup {NoRoute}, read : Files,
          left : SUBSET Pictures, pic : Pictures \cup {NoPicture},
          addr : Addresses \cup {NoPicture}]

CrawlShape ==
    /\ day \in 1..(MaxDays + 1) /\ opens \in 0..MaxOpens
    /\ file \in Files /\ file.date <= day
    /\ DOMAIN jobs = Jobs
    /\ recent \subseteq Routes /\ broken \subseteq Routes
    /\ posts \in [Pictures \X Addresses -> Nat] /\ cands \in [Pictures \X Addresses -> Nat]

Owed(s) == IF s.at \in {"count", "add"} THEN 1 ELSE 0
AllOwed == Owed(jobs["crawl"]) + Owed(jobs["train"]) + Owed(jobs["friend"])
Fits(f) == OpensToday(f) + AllOwed <= opens

CountFits ==
    /\ Fits(file)
    /\ \A j \in Jobs : jobs[j].at \in {"add", "block"} => Fits(jobs[j].read)

Unknown(rows, p) == \A a \in Addresses : rows[<<p, a>>] = 0

HandIsSound(j, s) ==
    /\ s \in Hands /\ s.read.date <= day
    /\ s.at \in {"find", "save"} => s.pic \in Pictures /\ s.addr \in Addresses
    /\ j = "crawl" /\ s.at = "save" => Unknown(posts, s.pic)
    /\ j = "train" /\ s.at = "save" => Unknown(cands, s.pic)
    /\ j = "crawl" => s.todo \cap recent = {}
    /\ j = "crawl" /\ s.at \notin {"idle", "open"} => s.route \in Routes \ s.todo

CrawlInv ==
    /\ CrawlShape /\ CountFits
    /\ \A j \in Jobs : HandIsSound(j, jobs[j])
    /\ OnePostPerPicture /\ RecentWasCrawled

LEMMA CrawlTypes ==
    ASSUME CrawlInv
    PROVE  /\ day \in Nat /\ day > 0 /\ opens \in Nat /\ MaxOpens \in Nat /\ MaxDays \in Nat
           /\ Empty \in Files /\ Empty.date = 0 /\ Empty.count = 0
           /\ AtRest \in Hands /\ AtRest.at = "idle" /\ AtRest.todo = {} /\ AtRest.read = Empty
           /\ \A j \in Jobs : /\ jobs[j] \in Hands /\ HandIsSound(j, jobs[j])
                              /\ jobs[j].read \in Files
           /\ \A f \in Files : f.count \in Nat /\ f.date \in Nat
<1>1. day \in Nat /\ day > 0 /\ opens \in Nat /\ MaxOpens \in Nat /\ MaxDays \in Nat
  BY CrawlAssumption DEF CrawlInv, CrawlShape
<1>2. Empty \in Files /\ Empty.date = 0 /\ Empty.count = 0
  BY <1>1 DEF Empty, Files
<1>3. AtRest \in Hands /\ AtRest.at = "idle" /\ AtRest.todo = {} /\ AtRest.read = Empty
  BY <1>2 DEF AtRest, Hands
<1>4. ASSUME NEW j \in Jobs PROVE jobs[j] \in Hands /\ HandIsSound(j, jobs[j])
  BY DEF CrawlInv, HandIsSound
<1>5. ASSUME NEW s \in Hands PROVE s.read \in Files
  BY DEF Hands
<1>6. \A f \in Files : f.count \in Nat /\ f.date \in Nat
  BY <1>1 DEF Files
<1> QED
  BY <1>1, <1>2, <1>3, <1>4, <1>5, <1>6

\* What the other jobs rely on while job i goes on.
Unharmed(i) ==
    /\ i = "crawl" => recent' \subseteq recent /\ posts' = posts
    /\ i = "train" => cands' = cands

LEMMA HandKept ==
    ASSUME NEW i, NEW s, HandIsSound(i, s), Unharmed(i), day' \in Nat, day \in Nat, day' >= day
    PROVE  HandIsSound(i, s)'
<1>1. s.read.date <= day'
  <2>1. s.read.date \in Nat
    BY DEF HandIsSound, Hands, Files
  <2> QED
    BY <2>1 DEF HandIsSound
<1> QED
  BY <1>1 DEF HandIsSound, Unharmed, Unknown

\* A step of job j; the day stays, and the opens with it or one more.
LEMMA JobGoes ==
    ASSUME CrawlInv, NEW j \in Jobs, NEW s, jobs' = [jobs EXCEPT ![j] = s],
           UNCHANGED day, HandIsSound(j, s)',
           \A i \in Jobs \ {j} : Unharmed(i),
           \/ opens' = opens /\ Owed(s) <= Owed(jobs[j])
           \/ opens' = opens + 1 /\ opens < MaxOpens /\ Owed(s) <= Owed(jobs[j]) + 1,
           file' \in Files, file'.date <= day, file' = file \/ Fits(file)',
           s.at \in {"add", "block"} => Fits(s.read)',
           recent' \subseteq Routes, broken' \subseteq Routes, RecentWasCrawled',
           posts' \in [Pictures \X Addresses -> Nat], cands' \in [Pictures \X Addresses -> Nat],
           OnePostPerPicture'
    PROVE  CrawlInv'
<1>1. CrawlShape /\ CountFits
  BY DEF CrawlInv
<1>2. CrawlShape'
  BY <1>1, CrawlTypes DEF CrawlShape
<1>3. ASSUME NEW i \in Jobs PROVE HandIsSound(i, jobs[i])'
  <2>1. PICK x : x = jobs'[i]
    OBVIOUS
  <2>2. x = IF i = j THEN s ELSE jobs[i]
    BY <1>1, <2>1 DEF CrawlShape
  <2>3. HandIsSound(i, x)'
    <3>1. CASE i = j
      BY <2>2, <3>1
    <3>2. CASE i # j
      BY <2>2, <3>2, HandKept, CrawlTypes
    <3> QED
      BY <3>1, <3>2
  <2> QED
    BY <2>1, <2>3
<1>4. opens' - AllOwed' >= opens - AllOwed /\ opens' \in Nat /\ AllOwed \in Nat /\ AllOwed' \in Nat
  BY <1>1, CrawlTypes DEF CrawlShape, AllOwed, Owed, Jobs
<1>5. ASSUME NEW f \in Files, Fits(f) PROVE Fits(f)'
  BY <1>4, <1>5, CrawlTypes DEF Fits, OpensToday
<1>6. CountFits'
  <2>1. Fits(file)'
    <3>1. PICK f : f = file
      OBVIOUS
    <3>2. file' = file => Fits(f)'
      BY <1>1, <1>5, <3>1 DEF CountFits, CrawlShape
    <3> QED
      BY <3>1, <3>2 DEF Fits, OpensToday
  <2>2. ASSUME NEW i \in Jobs, jobs'[i].at \in {"add", "block"} PROVE Fits(jobs[i].read)'
    <3>1. PICK x : x = jobs'[i]
      OBVIOUS
    <3>2. x = IF i = j THEN s ELSE jobs[i]
      BY <1>1, <3>1 DEF CrawlShape
    <3>3. PICK f : f = x.read
      OBVIOUS
    <3>4. Fits(f)'
      <4>1. CASE i = j
        BY <2>2, <3>1, <3>2, <3>3, <4>1
      <4>2. CASE i # j
        BY <1>1, <1>5, <2>2, <3>1, <3>2, <3>3, <4>2, CrawlTypes DEF CountFits
      <4> QED
        BY <4>1, <4>2
    <3> QED
      BY <3>1, <3>3, <3>4 DEF Fits, OpensToday
  <2> QED
    BY <2>1, <2>2 DEF CountFits
<1> QED
  BY <1>2, <1>3, <1>6 DEF CrawlInv

\* The same for a step that changes nothing but the job.
LEMMA JobTurns ==
    ASSUME CrawlInv, NEW j \in Jobs, NEW s, jobs' = [jobs EXCEPT ![j] = s],
           UNCHANGED <<day, opens, file, recent, broken, posts, cands>>,
           HandIsSound(j, s), Owed(s) <= Owed(jobs[j]),
           s.at \in {"add", "block"} => Fits(s.read)'
    PROVE  CrawlInv'
<1>1. CrawlShape /\ OnePostPerPicture /\ RecentWasCrawled
  BY DEF CrawlInv
<1>2. \A i \in Jobs : Unharmed(i)
  BY DEF Unharmed
<1>3. HandIsSound(j, s)'
  BY <1>2, HandKept, CrawlTypes
<1>4. OnePostPerPicture' /\ RecentWasCrawled'
  BY <1>1 DEF OnePostPerPicture, RecentWasCrawled
<1> QED
  BY <1>1, <1>2, <1>3, <1>4, JobGoes DEF CrawlShape

LEMMA OwedMoves ==
    ASSUME CrawlInv, NEW j \in Jobs, NEW s, jobs' = [jobs EXCEPT ![j] = s]
    PROVE  /\ AllOwed \in Nat /\ AllOwed' \in Nat /\ Owed(jobs[j]) <= AllOwed
           /\ AllOwed' = (AllOwed - Owed(jobs[j])) + Owed(s)
<1>1. DOMAIN jobs = Jobs
  BY DEF CrawlInv, CrawlShape
<1>2. \A i \in Jobs : jobs'[i] = IF i = j THEN s ELSE jobs[i]
  BY <1>1
<1> QED
  BY <1>1, <1>2 DEF AllOwed, Owed, Jobs

\* Through with a route, a job goes to the next of those it has left.
LEMMA AfterIsSound ==
    ASSUME CrawlInv, NEW j \in Jobs, NEW s, s.todo \subseteq Routes,
           j = "crawl" => s.todo \cap recent = {}
    PROVE  HandIsSound(j, After(s)) /\ Owed(After(s)) = 0 /\ After(s).at \in {"idle", "open"}
           /\ After(s).todo = s.todo
<1> DEFINE n == [AtRest EXCEPT !.at = "open", !.todo = s.todo]
<1>1. /\ AtRest \in Hands /\ AtRest.at = "idle" /\ AtRest.todo = {}
      /\ AtRest.read = Empty /\ Empty.date = 0 /\ day \in Nat
  BY CrawlTypes
<1>2. n \in Hands /\ n.at = "open" /\ n.todo = s.todo /\ n.read = Empty
  BY <1>1 DEF Hands
<1>3. HandIsSound(j, n)
  BY <1>1, <1>2 DEF HandIsSound
<1>4. HandIsSound(j, AtRest)
  BY <1>1 DEF HandIsSound
<1>5. After(s) = IF s.todo = {} THEN AtRest ELSE n
  BY DEF After
<1> HIDE DEF n
<1> QED
  BY <1>1, <1>2, <1>3, <1>4, <1>5 DEF Owed

LEMMA StartsAreSound ==
    ASSUME CrawlInv, CrawlStart \/ TrainStart \/ FriendStart
    PROVE  CrawlInv'
<1>1. /\ AtRest \in Hands /\ AtRest.at = "idle" /\ AtRest.todo = {}
      /\ AtRest.read = Empty /\ Empty.date = 0 /\ day \in Nat
  BY CrawlTypes
<1>2. {"crawl", "train", "friend"} = Jobs
  BY DEF Jobs
<1>3. ASSUME NEW n \in Hands, NEW j \in Jobs, n.at = "open", n.read = Empty,
             j = "crawl" => n.todo \cap recent = {},
             jobs' = [jobs EXCEPT ![j] = n],
             UNCHANGED <<day, opens, file, recent, broken, posts, cands>>
      PROVE  CrawlInv'
  <2>1. HandIsSound(j, n)
    BY <1>1, <1>3 DEF HandIsSound
  <2>2. Owed(n) <= Owed(jobs[j])
    BY <1>3 DEF Owed
  <2> QED
    BY <1>3, <2>1, <2>2, JobTurns
<1>4. CASE CrawlStart
  <2>1. PICK some \in SUBSET (Routes \ recent) :
            jobs' = [jobs EXCEPT !["crawl"] = [AtRest EXCEPT !.at = "open", !.todo = some]]
    BY <1>4 DEF CrawlStart, Goes
  <2> DEFINE n == [AtRest EXCEPT !.at = "open", !.todo = some]
  <2>2. n \in Hands /\ n.at = "open" /\ n.todo = some /\ n.read = Empty
    BY <1>1 DEF Hands
  <2>3. jobs' = [jobs EXCEPT !["crawl"] = n]
    BY <2>1
  <2> HIDE DEF n
  <2>4. n.todo \cap recent = {}
    BY <2>2
  <2> QED
    BY <1>2, <1>3, <1>4, <2>2, <2>3, <2>4 DEF CrawlStart
<1>5. CASE TrainStart
  <2> DEFINE n == [AtRest EXCEPT !.at = "open", !.todo = Routes]
  <2>1. n \in Hands /\ n.at = "open" /\ n.read = Empty
    BY <1>1 DEF Hands
  <2>2. jobs' = [jobs EXCEPT !["train"] = n]
    BY <1>5 DEF TrainStart, Goes
  <2> HIDE DEF n
  <2> QED
    BY <1>2, <1>3, <1>5, <2>1, <2>2 DEF TrainStart
<1>6. CASE FriendStart
  <2> DEFINE n == [AtRest EXCEPT !.at = "open"]
  <2>1. n \in Hands /\ n.at = "open" /\ n.read = Empty
    BY <1>1 DEF Hands
  <2>2. jobs' = [jobs EXCEPT !["friend"] = n]
    BY <1>6 DEF FriendStart, Goes
  <2> HIDE DEF n
  <2> QED
    BY <1>2, <1>3, <1>6, <2>1, <2>2 DEF FriendStart
<1> QED
  BY <1>4, <1>5, <1>6

LEMMA OpenIsSound ==
    ASSUME CrawlInv, NEW j \in Jobs, Open(j)
    PROVE  CrawlInv'
<1>1. PICK r \in IF j = "friend" THEN {NoRoute} ELSE jobs[j].todo :
          LET s == [jobs[j] EXCEPT !.todo = @ \ {r}, !.route = r]
          IN  /\ \/ /\ opens < MaxOpens /\ opens' = opens + 1
                    /\ Goes(j, [s EXCEPT !.at = "count"]) /\ Smooth
                 \/ Goes(j, [s EXCEPT !.at = "limit"]) /\ Smooth /\ UNCHANGED opens
                 \/ Goes(j, After(s)) /\ Slip /\ UNCHANGED opens
              /\ broken' = IF j = "crawl" THEN broken \cup {r} ELSE broken
  BY DEF Open
<1> DEFINE s == [jobs[j] EXCEPT !.todo = @ \ {r}, !.route = r]
           c == [s EXCEPT !.at = "count"]
           l == [s EXCEPT !.at = "limit"]
<1>2. jobs[j].at = "open" /\ UNCHANGED <<day, file, recent, posts, cands>>
  BY DEF Open
<1>3. /\ jobs[j] \in Hands /\ HandIsSound(j, jobs[j]) /\ opens \in Nat /\ MaxOpens \in Nat
      /\ day \in Nat
  BY CrawlTypes
<1>4. jobs[j].todo \subseteq Routes /\ r \in Routes \cup {NoRoute}
  BY <1>3 DEF Hands
<1>5. /\ s \in Hands /\ s.at = "open" /\ s.todo = jobs[j].todo \ {r} /\ s.route = r
      /\ s.read = jobs[j].read
  BY <1>2, <1>3, <1>4 DEF Hands
<1>6. /\ c \in Hands /\ c.at = "count" /\ c.todo = s.todo /\ c.route = r
      /\ c.read = jobs[j].read
  BY <1>5 DEF Hands
<1>7. /\ l \in Hands /\ l.at = "limit" /\ l.todo = s.todo /\ l.route = r
      /\ l.read = jobs[j].read
  BY <1>5 DEF Hands
<1>8. /\ \/ opens < MaxOpens /\ opens' = opens + 1 /\ jobs' = [jobs EXCEPT ![j] = c]
         \/ jobs' = [jobs EXCEPT ![j] = l] /\ opens' = opens
         \/ jobs' = [jobs EXCEPT ![j] = After(s)] /\ opens' = opens
      /\ broken' = IF j = "crawl" THEN broken \cup {r} ELSE broken
  BY <1>1 DEF Goes
<1> HIDE DEF s, c, l
<1>9. j = "crawl" => r \in Routes /\ r \notin recent /\ s.todo \cap recent = {} /\ r \notin s.todo
  BY <1>1, <1>3, <1>4, <1>5 DEF HandIsSound
<1>10. HandIsSound(j, c) /\ HandIsSound(j, l)
  BY <1>3, <1>6, <1>7, <1>9 DEF HandIsSound
<1>11. s.todo \subseteq Routes
  BY <1>4, <1>5
<1>12. HandIsSound(j, After(s)) /\ Owed(After(s)) = 0 /\ After(s).at \in {"idle", "open"}
  BY <1>9, <1>11, AfterIsSound
<1>13. CrawlShape /\ OnePostPerPicture /\ RecentWasCrawled
  BY DEF CrawlInv
<1>14. OnePostPerPicture' /\ RecentWasCrawled' /\ broken' \subseteq Routes
  <2>1. OnePostPerPicture'
    BY <1>2, <1>13 DEF OnePostPerPicture
  <2>2. RecentWasCrawled' /\ broken' \subseteq Routes
    BY <1>2, <1>8, <1>9, <1>13 DEF RecentWasCrawled, CrawlShape
  <2> QED
    BY <2>1, <2>2
<1>15. ASSUME NEW i \in Jobs PROVE Unharmed(i)
  BY <1>2 DEF Unharmed
<1>16. PICK n \in {c, l, After(s)} :
         /\ jobs' = [jobs EXCEPT ![j] = n]
         /\ \/ n = c /\ opens < MaxOpens /\ opens' = opens + 1
            \/ n \in {l, After(s)} /\ opens' = opens
  BY <1>8
<1>17. /\ HandIsSound(j, n) /\ n.at \notin {"add", "block"}
       /\ \/ opens' = opens /\ Owed(n) <= Owed(jobs[j])
          \/ opens' = opens + 1 /\ opens < MaxOpens /\ Owed(n) <= Owed(jobs[j]) + 1
  <2>1. HandIsSound(j, n)
    BY <1>10, <1>12, <1>16
  <2>2. n.at \notin {"add", "block"}
    BY <1>6, <1>7, <1>12, <1>16
  <2>3. \/ opens' = opens /\ Owed(n) <= Owed(jobs[j])
        \/ opens' = opens + 1 /\ opens < MaxOpens /\ Owed(n) <= Owed(jobs[j]) + 1
    BY <1>6, <1>7, <1>12, <1>16 DEF Owed
  <2> QED
    BY <2>1, <2>2, <2>3
<1>18. HandIsSound(j, n)'
  BY <1>2, <1>3, <1>15, <1>17, HandKept
<1>19. file' \in Files /\ file'.date <= day /\ file' = file /\ recent' \subseteq Routes
  BY <1>2, <1>13 DEF CrawlShape
<1>20. posts' \in [Pictures \X Addresses -> Nat] /\ cands' \in [Pictures \X Addresses -> Nat]
  BY <1>2, <1>13 DEF CrawlShape
<1> QED
  BY <1>2, <1>14, <1>15, <1>16, <1>17, <1>18, <1>19, <1>20, JobGoes

LEMMA ReadFileIsSound ==
    ASSUME CrawlInv, NEW j \in Jobs, ReadFile(j)
    PROVE  CrawlInv'
<1>1. PICK f \in {file, Empty} :
          jobs' = [jobs EXCEPT ![j] = [jobs[j] EXCEPT !.read = f,
                                           !.at = IF @ = "count" THEN "add" ELSE "block"]]
  BY DEF ReadFile, Goes
<1> DEFINE n == [jobs[j] EXCEPT !.read = f, !.at = IF @ = "count" THEN "add" ELSE "block"]
<1>2. /\ jobs[j].at \in {"count", "limit"}
      /\ UNCHANGED <<day, opens, file, recent, broken, posts, cands>>
  BY DEF ReadFile
<1>3. jobs[j] \in Hands /\ HandIsSound(j, jobs[j]) /\ day \in Nat
  BY CrawlTypes
<1>4. f \in Files /\ f.date <= day /\ Fits(f)
  <2>1. file \in Files /\ file.date <= day /\ Fits(file)
    BY DEF CrawlInv, CrawlShape, CountFits
  <2>2. Empty \in Files /\ Empty.date = 0 /\ Empty.count = 0 /\ day > 0
    BY CrawlTypes
  <2>3. file.count \in Nat /\ opens \in Nat
    BY <2>1, CrawlTypes
  <2>4. AllOwed \in Nat
    BY DEF AllOwed, Owed
  <2>5. Fits(Empty)
    BY <2>1, <2>2, <2>3, <2>4 DEF Fits, OpensToday
  <2> QED
    BY <1>1, <2>1, <2>2, <2>5, <1>3
<1>5. /\ n \in Hands /\ n.todo = jobs[j].todo /\ n.route = jobs[j].route /\ n.read = f
      /\ n.at = IF jobs[j].at = "count" THEN "add" ELSE "block"
  <2>1. (IF jobs[j].at = "count" THEN "add" ELSE "block") \in {"add", "block"}
    OBVIOUS
  <2> QED
    BY <1>3, <1>4, <2>1 DEF Hands
<1>6. jobs' = [jobs EXCEPT ![j] = n]
  BY <1>1
<1> HIDE DEF n
<1>7. HandIsSound(j, n)
  BY <1>2, <1>3, <1>4, <1>5 DEF HandIsSound
<1>8. Owed(n) = Owed(jobs[j]) /\ Owed(n) \in Nat
  BY <1>2, <1>5 DEF Owed
<1>9. Fits(f)'
  <2>1. AllOwed' = (AllOwed - Owed(jobs[j])) + Owed(n) /\ AllOwed \in Nat
    BY <1>6, OwedMoves
  <2>2. AllOwed' = AllOwed
    BY <1>8, <2>1
  <2> QED
    BY <1>2, <1>4, <2>2 DEF Fits, OpensToday
<1>10. PICK m : m = n
  OBVIOUS
<1>11. HandIsSound(j, m) /\ Owed(m) <= Owed(jobs[j]) /\ jobs' = [jobs EXCEPT ![j] = m]
  BY <1>6, <1>7, <1>8, <1>10
<1>12. Fits(m.read)'
  <2>1. m.read = f
    BY <1>5, <1>10
  <2> QED
    BY <1>9, <2>1
<1> QED
  BY <1>2, <1>11, <1>12, JobTurns

\* The note of an open: its place in the count was owed.
LEMMA AddOpenIsSound ==
    ASSUME CrawlInv, NEW j \in Jobs, AddOpen(j)
    PROVE  CrawlInv'
<1> DEFINE n == [jobs[j] EXCEPT !.at = "page", !.read = Empty,
                                !.left = IF j = "friend" THEN {} ELSE Pictures]
<1>1. /\ jobs[j].at = "add" /\ jobs' = [jobs EXCEPT ![j] = n]
      /\ file' = [date |-> day, count |-> OpensToday(jobs[j].read) + 1, blocked |-> FALSE]
      /\ UNCHANGED <<day, opens, recent, broken, posts, cands>>
  BY DEF AddOpen, Goes
<1>2. /\ jobs[j] \in Hands /\ HandIsSound(j, jobs[j]) /\ jobs[j].read \in Files
      /\ day \in Nat /\ opens \in Nat /\ MaxOpens \in Nat
      /\ Empty \in Files /\ Empty.date = 0 /\ \A f \in Files : f.count \in Nat /\ f.date \in Nat
  BY CrawlTypes
<1>3. /\ n \in Hands /\ n.at = "page" /\ n.read = Empty
      /\ n.todo = jobs[j].todo /\ n.route = jobs[j].route
  <2>1. (IF j = "friend" THEN {} ELSE Pictures) \subseteq Pictures
    OBVIOUS
  <2> QED
    BY <1>2, <2>1 DEF Hands
<1> HIDE DEF n
<1>4. HandIsSound(j, n)
  BY <1>1, <1>2, <1>3 DEF HandIsSound
<1>5. CrawlShape /\ CountFits /\ OnePostPerPicture /\ RecentWasCrawled
  BY DEF CrawlInv
<1>6. Owed(jobs[j]) = 1 /\ Owed(n) = 0
  BY <1>1, <1>3 DEF Owed
<1>7. AllOwed' = AllOwed - 1 /\ AllOwed \in Nat /\ 1 <= AllOwed
  <2>1. /\ AllOwed' = (AllOwed - Owed(jobs[j])) + Owed(n)
        /\ AllOwed \in Nat /\ Owed(jobs[j]) <= AllOwed
    BY <1>1, OwedMoves
  <2> QED
    BY <1>6, <2>1
<1>8. OpensToday(jobs[j].read) \in Nat /\ OpensToday(jobs[j].read) + AllOwed <= opens
  <2>1. OpensToday(jobs[j].read) \in Nat
    BY <1>2 DEF OpensToday
  <2> QED
    BY <1>1, <1>5, <2>1 DEF CountFits, Fits
<1>9. file' \in Files /\ file'.date = day /\ file'.count = OpensToday(jobs[j].read) + 1
  <2>1. opens <= MaxOpens
    BY <1>5, <1>2 DEF CrawlShape
  <2>2. OpensToday(jobs[j].read) + 1 \in 0..MaxOpens
    BY <1>2, <1>7, <1>8, <2>1
  <2> QED
    BY <1>1, <1>2, <2>2 DEF Files
<1>10. Fits(file)'
  <2>1. file'.count + AllOwed' <= opens'
    BY <1>1, <1>2, <1>7, <1>8, <1>9
  <2> QED
    BY <1>1, <1>9, <2>1 DEF Fits, OpensToday
<1>11. \A i \in Jobs : Unharmed(i)
  BY <1>1 DEF Unharmed
<1>12. PICK m : m = n
  OBVIOUS
<1>13. HandIsSound(j, m)'
  BY <1>1, <1>2, <1>4, <1>11, <1>12, HandKept
<1>14. OnePostPerPicture' /\ RecentWasCrawled'
  BY <1>1, <1>5 DEF OnePostPerPicture, RecentWasCrawled
<1>15. /\ recent' \subseteq Routes /\ broken' \subseteq Routes
       /\ posts' \in [Pictures \X Addresses -> Nat] /\ cands' \in [Pictures \X Addresses -> Nat]
  BY <1>1, <1>5 DEF CrawlShape
<1>16. opens' = opens /\ Owed(m) <= Owed(jobs[j]) /\ file'.date <= day /\ UNCHANGED day
  BY <1>1, <1>2, <1>6, <1>9, <1>12
<1>17. m.at \notin {"add", "block"} /\ jobs' = [jobs EXCEPT ![j] = m]
  BY <1>1, <1>3, <1>12
<1> QED
  BY <1>9, <1>10, <1>11, <1>14, <1>15, <1>16, <1>17, <1>13, JobGoes

LEMMA BlockIsSound ==
    ASSUME CrawlInv, NEW j \in Jobs, Block(j)
    PROVE  CrawlInv'
<1>1. /\ jobs[j].at = "block" /\ jobs' = [jobs EXCEPT ![j] = After(jobs[j])]
      /\ file' = [jobs[j].read EXCEPT !.blocked = TRUE]
      /\ UNCHANGED <<day, opens, recent, broken, posts, cands>>
  BY DEF Block, Goes
<1>2. /\ jobs[j] \in Hands /\ HandIsSound(j, jobs[j]) /\ jobs[j].read \in Files
      /\ day \in Nat /\ opens \in Nat
      /\ \A f \in Files : f.count \in Nat /\ f.date \in Nat
  BY CrawlTypes
<1>3. jobs[j].todo \subseteq Routes /\ (j = "crawl" => jobs[j].todo \cap recent = {})
  BY <1>2 DEF Hands, HandIsSound
<1>4. PICK n : n = After(jobs[j])
  OBVIOUS
<1>5. HandIsSound(j, n) /\ Owed(n) = 0 /\ n.at \in {"idle", "open"}
  BY <1>3, <1>4, AfterIsSound
<1>6. CrawlShape /\ CountFits /\ OnePostPerPicture /\ RecentWasCrawled
  BY DEF CrawlInv
<1>7. Owed(jobs[j]) = 0
  BY <1>1 DEF Owed
<1>8. AllOwed' = AllOwed /\ AllOwed \in Nat
  <2>1. AllOwed' = (AllOwed - Owed(jobs[j])) + Owed(n) /\ AllOwed \in Nat
    BY <1>1, <1>4, OwedMoves
  <2> QED
    BY <1>5, <1>7, <2>1
<1>9. /\ file' \in Files /\ file'.date = jobs[j].read.date
      /\ file'.count = jobs[j].read.count
  BY <1>1, <1>2 DEF Files
<1>10. Fits(file)'
  <2>1. OpensToday(jobs[j].read) + AllOwed <= opens
    BY <1>1, <1>6 DEF CountFits, Fits
  <2> QED
    BY <1>1, <1>8, <1>9, <2>1 DEF Fits, OpensToday
<1>11. \A i \in Jobs : Unharmed(i)
  BY <1>1 DEF Unharmed
<1>12. HandIsSound(j, n)'
  BY <1>1, <1>2, <1>5, <1>11, HandKept
<1>13. OnePostPerPicture' /\ RecentWasCrawled'
  BY <1>1, <1>6 DEF OnePostPerPicture, RecentWasCrawled
<1>14. /\ recent' \subseteq Routes /\ broken' \subseteq Routes
       /\ posts' \in [Pictures \X Addresses -> Nat] /\ cands' \in [Pictures \X Addresses -> Nat]
  BY <1>1, <1>6 DEF CrawlShape
<1>15. file'.date <= day
  BY <1>2, <1>9 DEF HandIsSound
<1>16. opens' = opens /\ Owed(n) <= Owed(jobs[j]) /\ UNCHANGED day
  BY <1>1, <1>5, <1>7
<1>17. n.at \notin {"add", "block"} /\ jobs' = [jobs EXCEPT ![j] = n]
  BY <1>1, <1>4, <1>5
<1> QED
  BY <1>9, <1>10, <1>11, <1>12, <1>13, <1>14, <1>15, <1>16, <1>17, JobGoes

\* A crawl of a route that came to its end is no broken one.
LEMMA CloseIsSound ==
    ASSUME CrawlInv, NEW j \in Jobs, Close(j)
    PROVE  CrawlInv'
<1>1. /\ jobs[j].at \in {"page", "broken"} /\ jobs' = [jobs EXCEPT ![j] = After(jobs[j])]
      /\ UNCHANGED <<day, opens, file, posts, cands>>
  BY DEF Close, Goes
<1>2. \/ recent' = recent /\ broken' = broken
      \/ /\ j = "crawl" /\ jobs[j].at = "page"
         /\ recent' = recent \cup {jobs[j].route} /\ broken' = broken \ {jobs[j].route}
  BY DEF Close
<1>3. /\ jobs[j] \in Hands /\ HandIsSound(j, jobs[j]) /\ day \in Nat /\ opens \in Nat
  BY CrawlTypes
<1>4. jobs[j].todo \subseteq Routes /\ (j = "crawl" => jobs[j].todo \cap recent = {})
  BY <1>3 DEF Hands, HandIsSound
<1>5. j = "crawl" => jobs[j].route \in Routes \ jobs[j].todo
  BY <1>1, <1>3 DEF HandIsSound
<1>6. PICK n : n = After(jobs[j])
  OBVIOUS
<1>7. /\ HandIsSound(j, n) /\ Owed(n) = 0 /\ n.at \in {"idle", "open"}
      /\ n.todo = jobs[j].todo
  BY <1>4, <1>6, AfterIsSound
<1>8. CrawlShape /\ OnePostPerPicture /\ RecentWasCrawled
  BY DEF CrawlInv
<1>9. HandIsSound(j, n)'
  <2>1. j = "crawl" => n.todo \cap recent' = {}
    BY <1>2, <1>4, <1>5, <1>7
  <2>2. n.at \notin {"find", "save"}
    BY <1>7
  <2> QED
    BY <1>1, <1>7, <2>1, <2>2 DEF HandIsSound
<1>10. ASSUME NEW i \in Jobs \ {j} PROVE Unharmed(i)
  BY <1>1, <1>2, <1>10 DEF Unharmed
<1>11. OnePostPerPicture' /\ RecentWasCrawled' /\ recent' \subseteq Routes /\ broken' \subseteq Routes
  <2>1. OnePostPerPicture'
    BY <1>1, <1>8 DEF OnePostPerPicture
  <2>2. RecentWasCrawled' /\ recent' \subseteq Routes /\ broken' \subseteq Routes
    BY <1>2, <1>5, <1>8 DEF RecentWasCrawled, CrawlShape
  <2> QED
    BY <2>1, <2>2
<1>12. /\ file' \in Files /\ file'.date <= day /\ file' = file
       /\ posts' \in [Pictures \X Addresses -> Nat] /\ cands' \in [Pictures \X Addresses -> Nat]
  BY <1>1, <1>8 DEF CrawlShape
<1>13. opens' = opens /\ Owed(n) <= Owed(jobs[j]) /\ UNCHANGED day
  BY <1>1, <1>7 DEF Owed
<1>14. n.at \notin {"add", "block"} /\ jobs' = [jobs EXCEPT ![j] = n]
  BY <1>1, <1>6, <1>7
<1> QED
  BY <1>9, <1>10, <1>11, <1>12, <1>13, <1>14, JobGoes

\* What a job does on a page it has open leaves its routes as they were.
LEMMA PageHand ==
    ASSUME CrawlInv, NEW j \in Jobs, NEW n \in Hands,
           jobs[j].at \in {"page", "find", "save"},
           n.at \in {"page", "find", "save", "broken"},
           n.todo = jobs[j].todo, n.route = jobs[j].route, n.read = jobs[j].read,
           n.at \in {"find", "save"} => n.pic \in Pictures /\ n.addr \in Addresses,
           j = "crawl" /\ n.at = "save" => Unknown(posts, n.pic),
           j = "train" /\ n.at = "save" => Unknown(cands, n.pic)
    PROVE  HandIsSound(j, n) /\ Owed(n) = 0 /\ Owed(n) <= Owed(jobs[j])
<1>1. HandIsSound(j, jobs[j])
  BY CrawlTypes
<1>2. HandIsSound(j, n)
  BY <1>1 DEF HandIsSound
<1>3. Owed(n) = 0 /\ Owed(n) <= Owed(jobs[j])
  BY DEF Owed
<1> QED
  BY <1>2, <1>3

LEMMA BackIsOnPage ==
    ASSUME NEW s \in Hands
    PROVE  /\ Back(s) \in Hands /\ Back(s).at = "page" /\ Back(s).todo = s.todo
           /\ Back(s).route = s.route /\ Back(s).read = s.read
BY DEF Hands, Back

LEMMA PageStepsAreSound ==
    ASSUME CrawlInv, NEW j \in Jobs, j \in {"crawl", "train"},
           NextPicture(j) \/ Find(j)
    PROVE  CrawlInv'
<1>1. jobs[j] \in Hands /\ HandIsSound(j, jobs[j])
  BY CrawlTypes
<1>2. CASE NextPicture(j)
  <2>1. PICK p \in jobs[j].left, a \in Addresses :
            jobs' = [jobs EXCEPT ![j] = [jobs[j] EXCEPT !.left = @ \ {p}, !.pic = p,
                                                        !.addr = a, !.at = "find"]]
    BY <1>2 DEF NextPicture, Goes
  <2> DEFINE n == [jobs[j] EXCEPT !.left = @ \ {p}, !.pic = p, !.addr = a, !.at = "find"]
  <2>2. jobs[j].left \subseteq Pictures /\ p \in Pictures
    BY <1>1, <2>1 DEF Hands
  <2>3. /\ n \in Hands /\ n.at = "find" /\ n.todo = jobs[j].todo /\ n.route = jobs[j].route
        /\ n.read = jobs[j].read /\ n.pic = p /\ n.addr = a
    BY <1>1, <2>2 DEF Hands
  <2>4. jobs' = [jobs EXCEPT ![j] = n]
    BY <2>1
  <2> HIDE DEF n
  <2>5. jobs[j].at = "page" /\ UNCHANGED <<day, opens, file, recent, broken, posts, cands>>
    BY <1>2 DEF NextPicture
  <2>6. HandIsSound(j, n) /\ Owed(n) <= Owed(jobs[j])
    BY <2>2, <2>3, <2>5, PageHand
  <2> QED
    BY <2>3, <2>4, <2>5, <2>6, JobTurns
<1>3. CASE Find(j)
  <2> DEFINE known == Known(IF j = "crawl" THEN posts ELSE cands, jobs[j].pic, jobs[j].addr)
             save == [jobs[j] EXCEPT !.at = "save"]
             torn == [Back(jobs[j]) EXCEPT !.at = "broken"]
  <2>1. /\ jobs[j].at = "find" /\ UNCHANGED <<day, opens, file, recent, broken, posts, cands>>
        /\ \/ jobs' = [jobs EXCEPT ![j] = Back(jobs[j])]
           \/ jobs' = [jobs EXCEPT ![j] = save] /\ ~known
           \/ jobs' = [jobs EXCEPT ![j] = torn]
    BY <1>3 DEF Find, Goes
  <2>2. /\ save \in Hands /\ save.at = "save" /\ save.todo = jobs[j].todo
        /\ save.route = jobs[j].route /\ save.read = jobs[j].read
        /\ save.pic = jobs[j].pic /\ save.addr = jobs[j].addr
    BY <1>1 DEF Hands
  <2>3. /\ Back(jobs[j]) \in Hands /\ Back(jobs[j]).at = "page"
        /\ Back(jobs[j]).todo = jobs[j].todo /\ Back(jobs[j]).route = jobs[j].route
        /\ Back(jobs[j]).read = jobs[j].read
    BY <1>1, BackIsOnPage
  <2>4. /\ torn \in Hands /\ torn.at = "broken" /\ torn.todo = jobs[j].todo
        /\ torn.route = jobs[j].route /\ torn.read = jobs[j].read
    BY <2>3 DEF Hands
  <2>5. ~known => /\ j = "crawl" => Unknown(posts, jobs[j].pic)
                  /\ j = "train" => Unknown(cands, jobs[j].pic)
    <3>1. CrawlShape /\ jobs[j].pic \in Pictures
      BY <1>1, <2>1 DEF CrawlInv, HandIsSound
    <3>2. ASSUME NEW a \in Addresses PROVE posts[<<jobs[j].pic, a>>] \in Nat /\ cands[<<jobs[j].pic, a>>] \in Nat
      BY <3>1 DEF CrawlShape
    <3> QED
      BY <3>2 DEF Known, Unknown
  <2>6. jobs[j].pic \in Pictures /\ jobs[j].addr \in Addresses
    BY <1>1, <2>1 DEF HandIsSound
  <2> HIDE DEF known, save, torn
  <2>7. PICK n \in {Back(jobs[j]), save, torn} :
            jobs' = [jobs EXCEPT ![j] = n] /\ (n = save => ~known)
    <3>1. torn # save /\ Back(jobs[j]) # save
      BY <2>2, <2>3, <2>4
    <3> QED
      BY <2>1, <3>1
  <2>8. /\ n \in Hands /\ n.at \in {"page", "find", "save", "broken"}
        /\ n.todo = jobs[j].todo /\ n.route = jobs[j].route /\ n.read = jobs[j].read
        /\ n.at \in {"find", "save"} => n = save
    BY <2>2, <2>3, <2>4, <2>7
  <2>9. HandIsSound(j, n) /\ Owed(n) <= Owed(jobs[j])
    <3>1. n.at \in {"find", "save"} => n.pic \in Pictures /\ n.addr \in Addresses
      BY <2>2, <2>6, <2>8
    <3>2. /\ j = "crawl" /\ n.at = "save" => Unknown(posts, n.pic)
          /\ j = "train" /\ n.at = "save" => Unknown(cands, n.pic)
      BY <2>2, <2>5, <2>7, <2>8
    <3> QED
      BY <2>1, <2>8, <3>1, <3>2, PageHand
  <2>10. n.at \notin {"add", "block"}
    BY <2>8
  <2> QED
    BY <2>1, <2>7, <2>9, <2>10, JobTurns
<1> QED
  BY <1>2, <1>3

LEMMA DropsAreSound ==
    ASSUME CrawlInv, DropPicture \/ \E j \in Jobs : Breaks(j)
    PROVE  CrawlInv'
<1>1. "crawl" \in Jobs
  BY DEF Jobs
<1>2. ASSUME NEW j \in Jobs, NEW n \in Hands, jobs' = [jobs EXCEPT ![j] = n],
             jobs[j].at \in {"page", "save"}, n.at \in {"page", "broken"},
             n.todo = jobs[j].todo, n.route = jobs[j].route, n.read = jobs[j].read,
             UNCHANGED <<day, opens, file, recent, broken, posts, cands>>
      PROVE  CrawlInv'
  <2>1. HandIsSound(j, n) /\ Owed(n) <= Owed(jobs[j])
    BY <1>2, PageHand
  <2> QED
    BY <1>2, <2>1, JobTurns
<1>3. CASE DropPicture
  <2>1. PICK n : n = Back(jobs["crawl"])
    OBVIOUS
  <2>2. /\ n \in Hands /\ n.at = "page" /\ n.todo = jobs["crawl"].todo
        /\ n.route = jobs["crawl"].route /\ n.read = jobs["crawl"].read
    BY <1>1, <2>1, CrawlTypes, BackIsOnPage
  <2>3. jobs["crawl"].at = "save" /\ jobs' = [jobs EXCEPT !["crawl"] = n]
    BY <1>3, <2>1 DEF DropPicture, Goes
  <2> QED
    BY <1>1, <1>2, <1>3, <2>2, <2>3 DEF DropPicture
<1>4. ASSUME NEW j \in Jobs, Breaks(j) PROVE CrawlInv'
  <2>1. jobs[j] \in Hands
    BY CrawlTypes
  <2>2. PICK n : n = [jobs[j] EXCEPT !.at = "broken"]
    OBVIOUS
  <2>3. /\ n \in Hands /\ n.at = "broken" /\ n.todo = jobs[j].todo
        /\ n.route = jobs[j].route /\ n.read = jobs[j].read
    BY <2>1, <2>2 DEF Hands
  <2>4. jobs[j].at = "page" /\ jobs' = [jobs EXCEPT ![j] = n]
    BY <1>4, <2>2 DEF Breaks, Goes
  <2> QED
    BY <1>2, <1>4, <2>3, <2>4 DEF Breaks
<1> QED
  BY <1>3, <1>4

OneRowEach(rows) ==
    \A p \in Pictures, a, b \in Addresses :
        rows[<<p, a>>] > 0 /\ rows[<<p, b>>] > 0 => a = b /\ rows[<<p, a>>] = 1

LEMMA RowAdded ==
    ASSUME NEW rows \in [Pictures \X Addresses -> Nat], OneRowEach(rows),
           NEW p \in Pictures, NEW a \in Addresses, Unknown(rows, p)
    PROVE  LET more == [rows EXCEPT ![<<p, a>>] = @ + 1]
           IN  more \in [Pictures \X Addresses -> Nat] /\ OneRowEach(more)
<1> DEFINE more == [rows EXCEPT ![<<p, a>>] = @ + 1]
<1>1. \A q \in Pictures, b \in Addresses :
          more[<<q, b>>] = IF q = p /\ b = a THEN 1 ELSE rows[<<q, b>>]
  <2>1. rows[<<p, a>>] = 0
    BY DEF Unknown
  <2> QED
    BY <2>1
<1>2. more \in [Pictures \X Addresses -> Nat]
  <2>1. rows[<<p, a>>] + 1 \in Nat
    OBVIOUS
  <2> QED
    BY <2>1
<1> HIDE DEF more
<1>3. ASSUME NEW q \in Pictures, NEW b \in Addresses, NEW c \in Addresses,
             more[<<q, b>>] > 0, more[<<q, c>>] > 0
      PROVE  b = c /\ more[<<q, b>>] = 1
  <2>1. CASE q = p
    <3>1. b = a /\ c = a
      BY <1>1, <1>3, <2>1 DEF Unknown
    <3> QED
      BY <1>1, <2>1, <3>1
  <2>2. CASE q # p
    BY <1>1, <1>3, <2>2 DEF OneRowEach
  <2> QED
    BY <2>1, <2>2
<1>4. OneRowEach(more)
  BY <1>3 DEF OneRowEach
<1> QED
  BY <1>2, <1>4 DEF more

LEMMA SavesAreSound ==
    ASSUME CrawlInv, SavePost \/ SaveCandidate
    PROVE  CrawlInv'
<1>1. "crawl" \in Jobs /\ "train" \in Jobs
  BY DEF Jobs
<1>2. CrawlShape /\ CountFits /\ RecentWasCrawled /\ OneRowEach(posts) /\ OneRowEach(cands)
  BY DEF CrawlInv, OnePostPerPicture, OneRowEach
<1>3. ASSUME NEW j \in Jobs, jobs[j].at = "save", jobs' = [jobs EXCEPT ![j] = Back(jobs[j])],
             UNCHANGED <<day, opens, file, recent, broken>>,
             posts' \in [Pictures \X Addresses -> Nat], cands' \in [Pictures \X Addresses -> Nat],
             OneRowEach(posts'), OneRowEach(cands'),
             j = "crawl" \/ posts' = posts, j = "train" \/ cands' = cands
      PROVE  CrawlInv'
  <2>1. PICK n : n = Back(jobs[j])
    OBVIOUS
  <2>2. jobs[j] \in Hands /\ HandIsSound(j, jobs[j]) /\ day \in Nat /\ opens \in Nat
    BY CrawlTypes
  <2>3. /\ n \in Hands /\ n.at = "page" /\ n.todo = jobs[j].todo
        /\ n.route = jobs[j].route /\ n.read = jobs[j].read
    BY <2>1, <2>2, BackIsOnPage
  <2>4. HandIsSound(j, n) /\ Owed(n) <= Owed(jobs[j])
    BY <1>3, <2>3, PageHand
  <2>5. HandIsSound(j, n)'
    BY <1>3, <2>3, <2>4 DEF HandIsSound
  <2>6. ASSUME NEW i \in Jobs \ {j} PROVE Unharmed(i)
    BY <1>3, <2>6 DEF Unharmed
  <2>7. OnePostPerPicture' /\ RecentWasCrawled'
    BY <1>2, <1>3 DEF OnePostPerPicture, OneRowEach, RecentWasCrawled
  <2>8. /\ file' \in Files /\ file'.date <= day /\ file' = file
        /\ recent' \subseteq Routes /\ broken' \subseteq Routes
    BY <1>2, <1>3 DEF CrawlShape
  <2>9. n.at \notin {"add", "block"} /\ jobs' = [jobs EXCEPT ![j] = n] /\ opens' = opens
    BY <1>3, <2>1, <2>3
  <2> QED
    BY <1>3, <2>4, <2>5, <2>6, <2>7, <2>8, <2>9, JobGoes
<1>4. ASSUME NEW j \in Jobs, jobs[j].at = "save"
      PROVE  /\ jobs[j].pic \in Pictures /\ jobs[j].addr \in Addresses
             /\ j = "crawl" => Unknown(posts, jobs[j].pic)
             /\ j = "train" => Unknown(cands, jobs[j].pic)
  BY <1>4, CrawlTypes DEF HandIsSound
<1>5. CASE SavePost
  <2> DEFINE s == jobs["crawl"]
             more == [posts EXCEPT ![<<s.pic, s.addr>>] = @ + 1]
  <2>1. /\ s.at = "save" /\ posts' \in {posts, more}
        /\ jobs' = [jobs EXCEPT !["crawl"] = Back(s)]
        /\ UNCHANGED <<day, opens, file, recent, broken, cands>>
    BY <1>5 DEF SavePost, Goes
  <2>2. more \in [Pictures \X Addresses -> Nat] /\ OneRowEach(more)
    BY <1>1, <1>2, <1>4, <2>1, RowAdded DEF CrawlShape
  <2> HIDE DEF more
  <2>3. posts' \in [Pictures \X Addresses -> Nat] /\ OneRowEach(posts')
    BY <1>2, <2>1, <2>2 DEF CrawlShape
  <2>4. cands' \in [Pictures \X Addresses -> Nat] /\ OneRowEach(cands')
    BY <1>2, <2>1 DEF CrawlShape
  <2> QED
    BY <1>1, <1>3, <2>1, <2>3, <2>4
<1>6. CASE SaveCandidate
  <2> DEFINE s == jobs["train"]
             more == [cands EXCEPT ![<<s.pic, s.addr>>] = @ + 1]
  <2>1. /\ s.at = "save" /\ cands' \in {cands, more}
        /\ jobs' = [jobs EXCEPT !["train"] = Back(s)]
        /\ UNCHANGED <<day, opens, file, recent, broken, posts>>
    BY <1>6 DEF SaveCandidate, Goes
  <2>2. more \in [Pictures \X Addresses -> Nat] /\ OneRowEach(more)
    BY <1>1, <1>2, <1>4, <2>1, RowAdded DEF CrawlShape
  <2> HIDE DEF more
  <2>3. cands' \in [Pictures \X Addresses -> Nat] /\ OneRowEach(cands')
    BY <1>2, <2>1, <2>2 DEF CrawlShape
  <2>4. posts' \in [Pictures \X Addresses -> Nat] /\ OneRowEach(posts')
    BY <1>2, <2>1 DEF CrawlShape
  <2> QED
    BY <1>1, <1>3, <2>1, <2>3, <2>4
<1> QED
  BY <1>5, <1>6

LEMMA UnblockIsSound ==
    ASSUME CrawlInv, Unblock
    PROVE  CrawlInv'
<1>1. file' = [file EXCEPT !.blocked = FALSE]
      /\ UNCHANGED <<day, opens, jobs, recent, broken, posts, cands>>
  BY DEF Unblock
<1>2. CrawlShape /\ CountFits /\ OnePostPerPicture /\ RecentWasCrawled
  BY DEF CrawlInv
<1>3. file' \in Files /\ file'.date = file.date /\ file'.count = file.count
  BY <1>1, <1>2 DEF CrawlShape, Files
<1>4. CrawlShape'
  BY <1>1, <1>2, <1>3 DEF CrawlShape
<1>5. AllOwed' = AllOwed
  BY <1>1 DEF AllOwed
<1>6. CountFits'
  BY <1>1, <1>2, <1>3, <1>5 DEF CountFits, Fits, OpensToday
<1>7. \A j \in Jobs : HandIsSound(j, jobs[j])'
  BY <1>1, CrawlTypes DEF HandIsSound
<1>8. OnePostPerPicture' /\ RecentWasCrawled'
  BY <1>1, <1>2 DEF OnePostPerPicture, RecentWasCrawled
<1> QED
  BY <1>4, <1>6, <1>7, <1>8 DEF CrawlInv

LEMMA IntervalIsSound ==
    ASSUME CrawlInv, NEW r, IntervalEnds(r)
    PROVE  CrawlInv'
<1>1. recent' = recent \ {r} /\ UNCHANGED <<day, opens, file, jobs, broken, posts, cands>>
  BY DEF IntervalEnds
<1>2. CrawlShape /\ CountFits /\ OnePostPerPicture /\ RecentWasCrawled
  BY DEF CrawlInv
<1>3. CrawlShape'
  BY <1>1, <1>2 DEF CrawlShape
<1>4. CountFits'
  BY <1>1, <1>2 DEF CountFits, Fits, OpensToday, AllOwed
<1>5. \A j \in Jobs : HandIsSound(j, jobs[j])'
  BY <1>1, CrawlTypes DEF HandIsSound
<1>6. OnePostPerPicture' /\ RecentWasCrawled'
  BY <1>1, <1>2 DEF OnePostPerPicture, RecentWasCrawled
<1> QED
  BY <1>3, <1>4, <1>5, <1>6 DEF CrawlInv

\* At midnight nothing is owed, and what the file says is of another day.
LEMMA MidnightIsSound ==
    ASSUME CrawlInv, Midnight
    PROVE  CrawlInv'
<1>1. /\ day < MaxDays /\ day' = day + 1 /\ opens' = 0
      /\ \A j \in Jobs : jobs[j].at \notin {"count", "limit", "add", "block"}
      /\ UNCHANGED <<file, jobs, recent, broken, posts, cands>>
  BY DEF Midnight
<1>2. CrawlShape /\ OnePostPerPicture /\ RecentWasCrawled
  BY DEF CrawlInv
<1>3. /\ day \in Nat /\ day > 0 /\ MaxDays \in Nat /\ MaxOpens \in Nat
      /\ \A f \in Files : f.count \in Nat /\ f.date \in Nat
  BY CrawlTypes
<1>4. day' \in 1..(MaxDays + 1) /\ opens' \in 0..MaxOpens
  BY <1>1, <1>3
<1>5. file'.date < day' /\ file' \in Files
  BY <1>1, <1>2, <1>3 DEF CrawlShape
<1>6. file'.date <= day'
  BY <1>1, <1>3, <1>5
<1>7. CrawlShape'
  BY <1>1, <1>2, <1>4, <1>5, <1>6 DEF CrawlShape
<1>8. AllOwed' = 0
  BY <1>1 DEF AllOwed, Owed, Jobs
<1>9. CountFits'
  <2>1. Fits(file)'
    BY <1>1, <1>3, <1>5, <1>8 DEF Fits, OpensToday
  <2> QED
    BY <1>1, <2>1 DEF CountFits
<1>10. \A j \in Jobs : Unharmed(j)
  BY <1>1 DEF Unharmed
<1>11. ASSUME NEW j \in Jobs PROVE HandIsSound(j, jobs[j])'
  <2>1. PICK s : s = jobs[j]
    OBVIOUS
  <2>2. HandIsSound(j, s)'
    BY <1>1, <1>3, <1>10, <2>1, CrawlTypes, HandKept
  <2> QED
    BY <1>1, <2>1, <2>2
<1>12. OnePostPerPicture' /\ RecentWasCrawled'
  BY <1>1, <1>2 DEF OnePostPerPicture, RecentWasCrawled
<1> QED
  BY <1>7, <1>9, <1>11, <1>12 DEF CrawlInv

\* A dead process leaves opens that nobody notes any more.
LEMMA DeathIsSound ==
    ASSUME CrawlInv, NEW gone, CrawlDies(gone)
    PROVE  CrawlInv'
<1>1. /\ jobs' = [j \in Jobs |-> IF j \in gone THEN AtRest ELSE jobs[j]]
      /\ UNCHANGED <<day, opens, file, recent, broken, posts, cands>>
  BY DEF CrawlDies
<1>2. CrawlShape /\ CountFits /\ OnePostPerPicture /\ RecentWasCrawled
  BY DEF CrawlInv
<1>3. /\ AtRest \in Hands /\ AtRest.at = "idle" /\ AtRest.todo = {}
      /\ AtRest.read = Empty /\ Empty.date = 0 /\ day \in Nat /\ opens \in Nat
      /\ \A f \in Files : f.count \in Nat /\ f.date \in Nat
  BY CrawlTypes
<1>4. CrawlShape'
  BY <1>1, <1>2 DEF CrawlShape
<1>5. AllOwed' <= AllOwed /\ AllOwed \in Nat /\ AllOwed' \in Nat
  BY <1>1, <1>3 DEF AllOwed, Owed, Jobs
<1>6. ASSUME NEW f \in Files, Fits(f) PROVE Fits(f)'
  <2>1. OpensToday(f) \in Nat /\ OpensToday(f)' = OpensToday(f)
    BY <1>1, <1>3 DEF OpensToday
  <2> QED
    BY <1>1, <1>3, <1>5, <1>6, <2>1 DEF Fits
<1>7. Fits(file)'
  <2>1. PICK f : f = file
    OBVIOUS
  <2>2. Fits(f)'
    BY <1>2, <1>6, <2>1 DEF CountFits, CrawlShape
  <2> QED
    BY <1>1, <2>1, <2>2
<1>8. ASSUME NEW j \in Jobs, jobs'[j].at \in {"add", "block"} PROVE Fits(jobs[j].read)'
  <2>1. jobs'[j] = jobs[j]
    BY <1>1, <1>3, <1>8
  <2>2. PICK f : f = jobs[j].read
    OBVIOUS
  <2>3. Fits(f)'
    BY <1>2, <1>6, <1>8, <2>1, <2>2, CrawlTypes DEF CountFits
  <2> QED
    BY <2>1, <2>2, <2>3
<1>9. CountFits'
  BY <1>7, <1>8 DEF CountFits
<1>10. HandIsSound("crawl", AtRest) /\ HandIsSound("train", AtRest) /\ HandIsSound("friend", AtRest)
  BY <1>3 DEF HandIsSound
<1>11. ASSUME NEW j \in Jobs PROVE HandIsSound(j, jobs[j])'
  <2>1. HandIsSound(j, jobs'[j])
    BY <1>1, <1>10, CrawlTypes DEF Jobs
  <2> QED
    BY <1>1, <2>1 DEF HandIsSound, Unknown
<1>12. OnePostPerPicture' /\ RecentWasCrawled'
  BY <1>1, <1>2 DEF OnePostPerPicture, RecentWasCrawled
<1> QED
  BY <1>4, <1>9, <1>11, <1>12 DEF CrawlInv

LEMMA CrawlStarts ==
    ASSUME CrawlInit
    PROVE  CrawlInv
<1>1. /\ MaxOpens \in Nat /\ MaxDays \in Nat
      /\ day = 1 /\ opens = 0 /\ file = Empty /\ jobs = [j \in Jobs |-> AtRest]
      /\ recent = {} /\ broken = {}
      /\ posts = [x \in Pictures \X Addresses |-> 0]
      /\ cands = [x \in Pictures \X Addresses |-> 0]
  BY CrawlAssumption DEF CrawlInit
<1>2. Empty \in Files /\ Empty.date = 0 /\ Empty.count = 0
  BY <1>1 DEF Empty, Files
<1>3. /\ AtRest \in Hands /\ AtRest.at = "idle" /\ AtRest.todo = {} /\ AtRest.read = Empty
  BY <1>2 DEF AtRest, Hands
<1>4. day \in 1..(MaxDays + 1) /\ opens \in 0..MaxOpens
  BY <1>1
<1>5. CrawlShape
  BY <1>1, <1>2, <1>4 DEF CrawlShape
<1>6. CountFits
  <2>1. AllOwed = 0
    BY <1>1, <1>3 DEF AllOwed, Owed, Jobs
  <2> QED
    BY <1>1, <1>2, <1>3, <2>1 DEF CountFits, Fits, OpensToday
<1>7. \A j \in Jobs : HandIsSound(j, jobs[j])
  BY <1>1, <1>2, <1>3 DEF HandIsSound
<1>8. OnePostPerPicture /\ RecentWasCrawled
  BY <1>1 DEF OnePostPerPicture, RecentWasCrawled
<1> QED
  BY <1>5, <1>6, <1>7, <1>8 DEF CrawlInv

LEMMA CrawlGoesOn ==
    ASSUME CrawlInv, [CrawlNext]_crawlVars
    PROVE  CrawlInv'
<1>1. "crawl" \in Jobs /\ "train" \in Jobs
  BY DEF Jobs
<1>2. CASE CrawlStart \/ TrainStart \/ FriendStart
  BY <1>2, StartsAreSound
<1>3. CASE Unblock
  BY <1>3, UnblockIsSound
<1>4. CASE Midnight
  BY <1>4, MidnightIsSound
<1>5. ASSUME NEW j \in Jobs,
             Open(j) \/ ReadFile(j) \/ AddOpen(j) \/ Block(j) \/ Close(j) \/ Breaks(j)
      PROVE  CrawlInv'
  BY <1>5, OpenIsSound, ReadFileIsSound, AddOpenIsSound, BlockIsSound, CloseIsSound,
     DropsAreSound
<1>6. ASSUME NEW j \in {"crawl", "train"}, NextPicture(j) \/ Find(j)
      PROVE  CrawlInv'
  BY <1>1, <1>6, PageStepsAreSound
<1>7. CASE DropPicture
  BY <1>7, DropsAreSound
<1>8. CASE SavePost \/ SaveCandidate
  BY <1>8, SavesAreSound
<1>9. ASSUME NEW r \in Routes, IntervalEnds(r) PROVE CrawlInv'
  BY <1>9, IntervalIsSound
<1>10. CASE CrawlDies({"crawl", "friend"}) \/ CrawlDies({"train"})
  BY <1>10, DeathIsSound
<1>11. CASE UNCHANGED crawlVars
  BY <1>11 DEF crawlVars, CrawlInv, CrawlShape, CountFits, Fits, OpensToday, AllOwed,
     HandIsSound, Unknown, OnePostPerPicture, RecentWasCrawled
<1> QED
  BY <1>2, <1>3, <1>4, <1>5, <1>6, <1>7, <1>8, <1>9, <1>10, <1>11 DEF CrawlNext

\* Whatever order the crawl, the training crawl and the friend requests open profiles
\* and write the file of the day in, and whichever of them dies: a picture is one row,
\* the file never says more opens than there were, and a route that is left out for its
\* interval was crawled to the end.
THEOREM CrawlIsSoundHolds == CrawlSpec => []CrawlIsSound
<1>1. CrawlInit => CrawlInv
  BY CrawlStarts
<1>2. CrawlInv /\ [CrawlNext]_crawlVars => CrawlInv'
  BY CrawlGoesOn
<1>3. ASSUME CrawlInv PROVE CrawlIsSound
  <2>1. CrawlShape /\ CountFits /\ OnePostPerPicture /\ RecentWasCrawled
    BY <1>3 DEF CrawlInv
  <2>2. CrawlTypeOK
    <3>1. /\ file.date \in 0..MaxDays + 1 /\ file.count \in 0..MaxOpens
          /\ file.blocked \in BOOLEAN
      BY <1>3, <2>1, CrawlTypes DEF CrawlShape, Files
    <3>2. ASSUME NEW j \in Jobs
          PROVE  /\ jobs[j].at \in {"idle", "open", "count", "limit", "add", "block", "page",
                                    "find", "save", "broken"}
                 /\ jobs[j].todo \subseteq Routes /\ jobs[j].left \subseteq Pictures
      BY <1>3, CrawlTypes DEF Hands
    <3> QED
      BY <2>1, <3>1, <3>2 DEF CrawlTypeOK, CrawlShape
  <2>3. CountIsNotAhead
    <3>1. AllOwed \in Nat
      BY DEF AllOwed, Owed
    <3>2. file.count \in Nat /\ opens \in Nat
      BY <1>3, <2>1, CrawlTypes DEF CrawlShape
    <3> QED
      BY <2>1, <3>1, <3>2 DEF CountFits, Fits, OpensToday, CountIsNotAhead
  <2> QED
    BY <2>1, <2>2, <2>3 DEF CrawlIsSound
<1> QED
  BY <1>1, <1>2, <1>3, PTL DEF CrawlSpec

=============================================================================
