---------------------------- MODULE FacebookCrawl -----------------------------
(***************************************************************************)
(* The Facebook crawl (_job_fb_crawl, facebook_crawler): profiles that are *)
(* opened at AdsPower and counted in a file, routes with a least interval, *)
(* and the pictures of a page, which become posts, or candidates for the   *)
(* training of the filter.  The friend requests of the launcher and the    *)
(* training crawl of an operator open profiles and write the file at the   *)
(* same time.                                                              *)
(* Midnight does not fall between an open and the note of it.              *)
(***************************************************************************)
EXTENDS Integers, FiniteSets

CONSTANTS
    Routes,     \* pairs of a page and the account that publishes from it
    NoRoute,
    Pictures,   \* pictures by the number in their address
    NoPicture,
    Addresses,  \* one picture has a new address, newly signed, on each page
    Ceiling,    \* _CRAWL_OPEN_CEILING
    MaxOpens,   \* bound: profiles opened in a day
    MaxDays,    \* bound: midnights
    MaxSlips    \* bound: pages that break, requests without an answer, dead processes

ASSUME CrawlAssumption ==
    /\ IsFiniteSet(Routes) /\ NoRoute \notin Routes
    /\ IsFiniteSet(Pictures) /\ NoPicture \notin Pictures
    /\ Addresses # {} /\ Ceiling \in Nat /\ MaxOpens \in Nat /\ MaxDays \in Nat
    /\ MaxSlips \in Nat

VARIABLES
    day,
    opens,    \* ghost: profiles AdsPower has opened today
    file,     \* adspower_open_daily.json
    jobs,     \* what the crawl, the training crawl and the friend requests are doing
    recent,   \* routes crawled less than the interval ago: crawl_last_run
    broken,   \* ghost: routes whose last crawl was broken off
    posts,    \* rows of Instagram_Posts of a picture, under an address
    cands,    \* rows of Training_Review_Queue
    slips

crawlVars == <<day, opens, file, jobs, recent, broken, posts, cands, slips>>

Slip == slips < MaxSlips /\ slips' = slips + 1
Smooth == UNCHANGED slips

Jobs  == {"crawl", "train", "friend"}
Empty == [date |-> 0, count |-> 0, blocked |-> FALSE]    \* no file, or one that cannot be read
AtRest == [at |-> "idle", todo |-> {}, route |-> NoRoute, read |-> Empty,
           left |-> {}, pic |-> NoPicture, addr |-> NoPicture]

OpensToday(f) == IF f.date = day THEN f.count ELSE 0        \* adspower_opens_today

Goes(j, s) == jobs' = [jobs EXCEPT ![j] = s]

-----------------------------------------------------------------------------
(* Profiles.                                                               *)

\* The routes that pass: the rest is skipped for its account, its purpose, its
\* rights or its interval.
CrawlStart ==
    /\ jobs["crawl"].at = "idle"
    /\ ~file.blocked /\ OpensToday(file) < Ceiling
    /\ \E some \in SUBSET (Routes \ recent) :
          /\ some # {}
          /\ Goes("crawl", [AtRest EXCEPT !.at = "open", !.todo = some])
    /\ UNCHANGED <<day, opens, file, recent, broken, posts, cands, slips>>

TrainStart ==
    /\ jobs["train"].at = "idle"
    /\ Goes("train", [AtRest EXCEPT !.at = "open", !.todo = Routes])
    /\ UNCHANGED <<day, opens, file, recent, broken, posts, cands, slips>>

FriendStart ==
    /\ jobs["friend"].at = "idle" /\ ~file.blocked
    /\ Goes("friend", [AtRest EXCEPT !.at = "open"])
    /\ UNCHANGED <<day, opens, file, recent, broken, posts, cands, slips>>

\* What a job does when it is through with a route.
After(s) == IF s.todo = {} THEN AtRest
            ELSE [AtRest EXCEPT !.at = "open", !.todo = s.todo]

\* start_browser: opened, refused for the limit of the day, or failed otherwise.
Open(j) ==
    /\ jobs[j].at = "open"
    /\ \E r \in IF j = "friend" THEN {NoRoute} ELSE jobs[j].todo :
          LET s == [jobs[j] EXCEPT !.todo = @ \ {r}, !.route = r]
          IN  /\ \/ /\ opens < MaxOpens /\ opens' = opens + 1
                    /\ Goes(j, [s EXCEPT !.at = "count"]) /\ Smooth
                 \/ Goes(j, [s EXCEPT !.at = "limit"]) /\ Smooth /\ UNCHANGED opens
                 \/ Goes(j, After(s)) /\ Slip /\ UNCHANGED opens
              /\ broken' = IF j = "crawl" THEN broken \cup {r} ELSE broken
    /\ UNCHANGED <<day, file, recent, posts, cands>>

\* _read_open_state; while another one writes the file may be found empty.
ReadFile(j) ==
    /\ jobs[j].at \in {"count", "limit"}
    /\ \E f \in {file} \cup {Empty : o \in {o \in Jobs \ {j} : jobs[o].at \in {"add", "block"}}} :
          Goes(j, [jobs[j] EXCEPT !.read = f, !.at = IF @ = "count" THEN "add" ELSE "block"])
    /\ UNCHANGED <<day, opens, file, recent, broken, posts, cands, slips>>

\* _record_adspower_open: an open means that there is room again.
AddOpen(j) ==
    /\ jobs[j].at = "add"
    /\ file' = [date |-> day, count |-> OpensToday(jobs[j].read) + 1, blocked |-> FALSE]
    /\ Goes(j, [jobs[j] EXCEPT !.at = "page", !.read = Empty,
                               !.left = IF j = "friend" THEN {} ELSE Pictures])
    /\ UNCHANGED <<day, opens, recent, broken, posts, cands, slips>>

\* _record_open_limit
Block(j) ==
    /\ jobs[j].at = "block"
    /\ file' = [jobs[j].read EXCEPT !.blocked = TRUE]
    /\ Goes(j, After(jobs[j]))
    /\ UNCHANGED <<day, opens, recent, broken, posts, cands, slips>>

\* The hours of the limit are over.
Unblock ==
    /\ file.blocked /\ file' = [file EXCEPT !.blocked = FALSE]
    /\ UNCHANGED <<day, opens, jobs, recent, broken, posts, cands, slips>>

Midnight ==
    /\ day < MaxDays /\ day' = day + 1 /\ opens' = 0
    /\ \A j \in Jobs : jobs[j].at \notin {"count", "limit", "add", "block"}
    /\ UNCHANGED <<file, jobs, recent, broken, posts, cands, slips>>

-----------------------------------------------------------------------------
(* A page and its pictures.                                                *)

\* The next post that is not blocked and passes the filters, with its address.
NextPicture(j) ==
    /\ jobs[j].at = "page" /\ jobs[j].left # {}
    /\ \E p \in jobs[j].left, a \in Addresses :
          Goes(j, [jobs[j] EXCEPT !.left = @ \ {p}, !.pic = p, !.addr = a, !.at = "find"])
    /\ UNCHANGED <<day, opens, file, recent, broken, posts, cands, slips>>

\* The picture is done with, saved or not.
Back(s) == [s EXCEPT !.at = "page", !.pic = NoPicture, !.addr = NoPicture]

\* Mutant: what is looked for is the address and not the number in it.
Known_Address(rows, p, a) == rows[<<p, a>>] > 0

\* _image_url_hash: the number in the address.
Known(rows, p, a) == \E b \in Addresses : rows[<<p, b>>] > 0

\* The duplicate check; without an answer the page is broken off.
Find(j) ==
    LET s == jobs[j]
        known == Known(IF j = "crawl" THEN posts ELSE cands, s.pic, s.addr)
    IN  /\ s.at = "find"
        /\ \/ Goes(j, IF known THEN Back(s) ELSE [s EXCEPT !.at = "save"]) /\ Smooth
           \/ Goes(j, [Back(s) EXCEPT !.at = "broken"]) /\ Slip
        /\ UNCHANGED <<day, opens, file, recent, broken, posts, cands>>

\* The caption and the hosted picture: without the picture, or with a caption the
\* rules reject, nothing is saved; the row is ready, a draft for a person to look at,
\* or failed when there is no caption.
DropPicture ==
    /\ jobs["crawl"].at = "save"
    /\ Goes("crawl", Back(jobs["crawl"]))
    /\ UNCHANGED <<day, opens, file, recent, broken, posts, cands, slips>>

SavePost ==
    LET s == jobs["crawl"]
        more == [posts EXCEPT ![<<s.pic, s.addr>>] = @ + 1]
    IN  /\ s.at = "save"
        /\ \/ posts' = more /\ Smooth
           \/ posts' \in {posts, more} /\ Slip
        /\ Goes("crawl", Back(s))
        /\ UNCHANGED <<day, opens, file, recent, broken, cands>>

\* save_to_training_queue: the picture, hosted or not.
SaveCandidate ==
    LET s == jobs["train"]
        more == [cands EXCEPT ![<<s.pic, s.addr>>] = @ + 1]
    IN  /\ s.at = "save"
        /\ \/ cands' = more /\ Smooth
           \/ cands' \in {cands, more} /\ Slip
        /\ Goes("train", Back(s))
        /\ UNCHANGED <<day, opens, file, recent, broken, posts>>

\* The browser fails, or a profile that two jobs share is closed by the other.
Breaks(j) ==
    /\ jobs[j].at = "page" /\ Slip
    /\ Goes(j, [jobs[j] EXCEPT !.at = "broken"])
    /\ UNCHANGED <<day, opens, file, recent, broken, posts, cands>>

\* The end of a page, at its last post or before; a crawl without an exception
\* is marked.
Close(j) ==
    LET s == jobs[j]
        well == j = "crawl" /\ s.at = "page"
    IN  /\ s.at \in {"page", "broken"}
        /\ Goes(j, After(s))
        /\ recent' = IF well THEN recent \cup {s.route} ELSE recent
        /\ broken' = IF well THEN broken \ {s.route} ELSE broken
        /\ UNCHANGED <<day, opens, file, posts, cands, slips>>

IntervalEnds(r) ==
    /\ r \in recent /\ recent' = recent \ {r}
    /\ UNCHANGED <<day, opens, file, jobs, broken, posts, cands, slips>>

\* The launcher dies, with the crawl and the friend requests; or the operator's
\* process does.
CrawlDies(gone) ==
    /\ Slip /\ \E j \in gone : jobs[j].at # "idle"
    /\ jobs' = [j \in Jobs |-> IF j \in gone THEN AtRest ELSE jobs[j]]
    /\ UNCHANGED <<day, opens, file, recent, broken, posts, cands>>

-----------------------------------------------------------------------------

CrawlInit ==
    /\ day = 1 /\ opens = 0 /\ file = Empty
    /\ jobs = [j \in Jobs |-> AtRest]
    /\ recent = {} /\ broken = {}
    /\ posts = [x \in Pictures \X Addresses |-> 0]
    /\ cands = [x \in Pictures \X Addresses |-> 0]
    /\ slips = 0

CrawlNext ==
    \/ CrawlStart \/ TrainStart \/ FriendStart \/ Unblock \/ Midnight
    \/ \E j \in Jobs : Open(j) \/ ReadFile(j) \/ AddOpen(j) \/ Block(j) \/ Close(j) \/ Breaks(j)
    \/ \E j \in {"crawl", "train"} : NextPicture(j) \/ Find(j)
    \/ DropPicture \/ SavePost \/ SaveCandidate
    \/ \E r \in Routes : IntervalEnds(r)
    \/ CrawlDies({"crawl", "friend"}) \/ CrawlDies({"train"})

CrawlSpec == CrawlInit /\ [][CrawlNext]_crawlVars

-----------------------------------------------------------------------------

\* The types of the variables.
CrawlTypeOK ==
    /\ file.date \in 0..MaxDays + 1 /\ file.count \in 0..MaxOpens /\ file.blocked \in BOOLEAN
    /\ \A j \in Jobs :
          /\ jobs[j].at \in {"idle", "open", "count", "limit", "add", "block", "page", "find",
                             "save", "broken"}
          /\ jobs[j].todo \subseteq Routes /\ jobs[j].left \subseteq Pictures
    /\ recent \subseteq Routes /\ broken \subseteq Routes

\* A picture is posted once and is a candidate once, on however many pages, under
\* however many addresses it is met, and whatever became of the earlier answers.
OnePostPerPicture ==
    \A p \in Pictures, rows \in {posts, cands} :
        \A a, b \in Addresses :
            rows[<<p, a>>] > 0 /\ rows[<<p, b>>] > 0 => a = b /\ rows[<<p, a>>] = 1

\* The file never says more opens than there were today: notes that overwrite each
\* other may lose one, and never stop the crawl before its ceiling.
CountIsNotAhead == file.date = day => file.count <= opens

\* A route that is left out for its interval was crawled to the end.
RecentWasCrawled == recent \cap broken = {}

\* The crawl keeps its word, part by part as above.
CrawlIsSound == CrawlTypeOK /\ OnePostPerPicture /\ CountIsNotAhead /\ RecentWasCrawled

=============================================================================
