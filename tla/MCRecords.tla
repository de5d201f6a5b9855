------------------------------- MODULE MCRecords ------------------------------
(***************************************************************************)
(* Four parts that write rows a person or another job relies on, checked   *)
(* side by side: a behaviour is one of the review of candidates, of the    *)
(* export of source items with its canary, of the Facebook crawl, or of    *)
(* the cutover of a campaign post.  They share no variable, so nothing is  *)
(* lost by not interleaving them.                                          *)
(***************************************************************************)
EXTENDS ReviewBatches, SourceExport, FacebookCrawl, CampaignCutover

CONSTANTS r1, r2, r3, t1, i1, f1, p1, a1, a2, l1, l2

VARIABLE part

RecordsInit ==
    /\ part \in {"review", "export", "crawl", "cutover"}
    /\ ReviewInit /\ ExportInit /\ CrawlInit /\ CutoverInit
    \* What does not take part keeps one initial state.
    /\ part # "export" => \A i \in Items : source[i] = NoRow
    /\ part # "cutover" => json.in /\ env.file.store = "disabled"

RecordsNext ==
    \/ part = "review" /\ ReviewNext /\ UNCHANGED <<part, exportVars, crawlVars, cutVars>>
    \/ part = "export" /\ ExportNext /\ UNCHANGED <<part, reviewVars, crawlVars, cutVars>>
    \/ part = "crawl" /\ CrawlNext /\ UNCHANGED <<part, reviewVars, exportVars, cutVars>>
    \/ part = "cutover" /\ CutoverNext /\ UNCHANGED <<part, reviewVars, exportVars, crawlVars>>

RecordsSpec ==
    RecordsInit /\ [][RecordsNext]_<<part, reviewVars, exportVars, crawlVars, cutVars>>
=============================================================================
