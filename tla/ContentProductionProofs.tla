----------------------- MODULE ContentProductionProofs -----------------------
(***************************************************************************)
(* What the production of an account's posts guarantees, for any number of *)
(* processes, sources, days and failures.  The lock alone does not do it:  *)
(* it is held by the dead, given back by a person, and the post of an      *)
(* answer that was lost is in Airtable while the Vault says it is not.     *)
(* The invariant says what is true of the package in a run's hands at      *)
(* every step, and of a package that nobody has in his hands.              *)
(***************************************************************************)
EXTENDS ContentProduction, FiniteSetTheorems, WellFoundedInduction, TLAPS

\* Only the holder of the lock is at work.
LockInv ==
    \A p \in Runs : /\ run[p].pc = "idle" => run[p] = Idle
                    /\ run[p].pc # "idle" => lock = p

\* Nothing waits from the moment a run has looked until it saves; what it writes, sends
\* and saves was never saved before, and the address it saves is the one in the Vault.
RunOk(p) ==
    LET c == run[p].item IN
    /\ run[p].pc \in {"scan", "topic", "write", "upload", "save"} => Waiting = {}
    /\ run[p].pc = "write" => /\ ~Legacy(c) /\ posts[c].count = 0
                              /\ IF Carousel THEN vault[c].md = "none"
                                 ELSE vault[c].images = 0 /\ vault[c].md # "queued"
    /\ run[p].pc \in {"upload", "save", "mark"} => vault[c].md = "pending"
    /\ run[p].pc = "upload" => posts[c].count = 0
    /\ run[p].pc = "save" => /\ ~Legacy(c) /\ posts[c].count = 0
                             /\ Carousel => /\ vault[c].urls = run[p].url
                                            /\ run[p].url # 0
    /\ run[p].pc = "mark" => posts[c].count > 0

\* What was saved has its text in the Vault, a waiting post can be published, what is
\* queued was saved, and no carousel is torn.
PackageOk(c) ==
    /\ posts[c].count <= 1
    /\ posts[c].count = 0 => posts[c].status = "none"
    /\ posts[c].count > 0 => vault[c].md # "none"
    /\ c \in Waiting => Resolves(c)
    /\ vault[c].md = "queued" => posts[c].count > 0
    /\ Carousel /\ vault[c].md = "pending" /\ ~Legacy(c) => vault[c].images = Slides

\* At most one waits, said without counting.
Alone == \A c, d \in Waiting : c = d

ProductionInv ==
    /\ TypeOK /\ LockInv
    /\ \A p \in Runs : RunOk(p)
    /\ \A c \in Contents : PackageOk(c)
    /\ Alone

-----------------------------------------------------------------------------
(* The choices are choices: a finite set of days has a last one, and the    *)
(* order in which sources and files are taken up has a first one.           *)

LEMMA LeastNumber ==
    ASSUME NEW T \in SUBSET Nat, T # {}
    PROVE  \E x \in T : \A y \in T : x <= y
<1>1. PICK x \in T : \A y \in T : ~(<<y, x>> \in OpToRel(<, Nat))
  <2>1. \E x \in T : \A y \in T : ~(<<y, x>> \in OpToRel(<, Nat))
    BY NatLessThanWellFounded, WFMin
  <2> QED
    BY <2>1
<1>2. ASSUME NEW y \in T PROVE x <= y
  <2>1. ~(y < x)
    BY <1>1 DEF OpToRel
  <2> QED
    BY <2>1
<1> QED
  BY <1>2

\* The last one has the fewest after it.
LEMMA LastNumber ==
    ASSUME NEW T \in SUBSET Nat, T # {}, IsFiniteSet(T)
    PROVE  \E x \in T : \A y \in T : y <= x
<1> DEFINE After(x) == {y \in T : y > x}
           Sizes == {Cardinality(After(x)) : x \in T}
<1>1. \A x \in T : IsFiniteSet(After(x)) /\ Cardinality(After(x)) \in Nat
  BY FS_Subset, FS_CardinalityType
<1>2. Sizes \in SUBSET Nat /\ Sizes # {}
  BY <1>1
<1>3. PICK n \in Sizes : \A m \in Sizes : n <= m
  <2> HIDE DEF Sizes
  <2>1. \E n \in Sizes : \A m \in Sizes : n <= m
    BY <1>2, LeastNumber
  <2> QED
    BY <2>1
<1>4. PICK x \in T : n = Cardinality(After(x))
  BY <1>3
<1>5. ASSUME NEW y \in T, y > x PROVE FALSE
  <2>1. After(y) \in SUBSET After(x) /\ y \in After(x) /\ y \notin After(y)
    <3>1. \A z \in T : z > y => z > x
      BY <1>5
    <3>2. ~(y > y)
      BY <1>5
    <3> QED
      BY <1>5, <3>1, <3>2
  <2>2. Cardinality(After(x)) <= Cardinality(After(y))
    BY <1>3, <1>4
  <2>3. Cardinality(After(y)) <= Cardinality(After(x))
    BY <1>1, <2>1, FS_Subset
  <2>4. Cardinality(After(x)) = Cardinality(After(y))
    BY <1>1, <2>2, <2>3
  <2>5. After(x) = After(y)
    BY <1>1, <2>1, <2>4, FS_Subset
  <2> QED
    BY <2>1, <2>5
<1> QED
  BY <1>4, <1>5

\* The order of the pairs of numbers has a first one in every set of them.
LEMMA FirstPair ==
    ASSUME NEW T \in SUBSET (Nat \X Nat), T # {}
    PROVE  \E c \in T : \A d \in T \ {c} : Before(c, d)
<1> DEFINE Firsts == {c[1] : c \in T}
<1>1. Firsts \in SUBSET Nat /\ Firsts # {}
  OBVIOUS
<1>2. PICK m \in Firsts : \A k \in Firsts : m <= k
  <2> HIDE DEF Firsts
  <2>1. \E m \in Firsts : \A k \in Firsts : m <= k
    BY <1>1, LeastNumber
  <2> QED
    BY <2>1
<1> DEFINE Seconds == {c[2] : c \in {d \in T : d[1] = m}}
<1>3. Seconds \in SUBSET Nat /\ Seconds # {}
  BY <1>2
<1>4. PICK n \in Seconds : \A k \in Seconds : n <= k
  <2> HIDE DEF Seconds
  <2>1. \E n \in Seconds : \A k \in Seconds : n <= k
    BY <1>3, LeastNumber
  <2> QED
    BY <2>1
<1>5. PICK c \in T : c[1] = m /\ c[2] = n
  BY <1>4
<1>6. ASSUME NEW d \in T \ {c} PROVE Before(c, d)
  <2>1. c = <<c[1], c[2]>> /\ d = <<d[1], d[2]>>
    OBVIOUS
  <2>2. c[1] # d[1] \/ c[2] # d[2]
    BY <2>1
  <2>3. c[1] <= d[1] /\ c[1] \in Nat /\ d[1] \in Nat /\ c[2] \in Nat /\ d[2] \in Nat
    BY <1>2, <1>5
  <2>4. d[1] = c[1] => c[2] <= d[2]
    BY <1>4, <1>5
  <2> QED
    BY <2>2, <2>3, <2>4 DEF Before
<1> QED
  BY <1>6

LEMMA ContentsArePairs ==
    /\ Contents \in SUBSET (Nat \X Nat)
    /\ NoContent \in Contents
    /\ \A s \in Sources \cup {News}, d \in Days : <<s, d>> \in Contents /\ ~Legacy(<<s, d>>)
<1>1. Sources \cup {0} \in SUBSET Nat /\ Days \cup {0} \in SUBSET Nat /\ 0 \notin Days
  BY ProductionAssumption
<1>2. \A S \in SUBSET Nat, T \in SUBSET Nat : S \X T \in SUBSET (Nat \X Nat)
  OBVIOUS
<1>3. \A S, T : \A s \in S, t \in T : <<s, t>> \in S \X T /\ <<s, t>>[2] = t
  OBVIOUS
<1>4. Contents = (Sources \cup {0}) \X (Days \cup {0}) /\ NoContent = <<0, 0>>
  BY DEF Contents, NoContent, News
<1> QED
  BY <1>1, <1>2, <1>3, <1>4 DEF News, Legacy

LEMMA FirstIsAStop ==
    ASSUME NEW p, Stops(p) # {}
    PROVE  First(p) \in Stops(p)
<1>1. Stops(p) \in SUBSET (Nat \X Nat)
  BY ContentsArePairs DEF Stops, Pending
<1>2. \E c \in Stops(p) : \A d \in Stops(p) \ {c} : Before(c, d)
  BY <1>1, FirstPair
<1> QED
  BY <1>2 DEF First

LEMMA LastUsedIsADay ==
    ASSUME NEW s
    PROVE  LastUsed(s) \in Nat
<1> DEFINE Used == {c[2] : c \in Complete(s)}
<1>1. Days \cup {0} \in SUBSET Nat /\ IsFiniteSet(Days \cup {0})
  BY ProductionAssumption, FS_AddElement
<1>2. Complete(s) \subseteq Contents
  BY DEF Complete
<1>3. Used \in SUBSET (Days \cup {0})
  BY <1>2 DEF Contents
<1>4. CASE Complete(s) = {}
  BY <1>4 DEF LastUsed
<1>5. CASE Complete(s) # {}
  <2>1. Used # {}
    BY <1>5
  <2>2. \E x \in Used : \A y \in Used : y <= x
    <3> HIDE DEF Used
    <3>1. Used \in SUBSET Nat /\ IsFiniteSet(Used)
      BY <1>1, <1>3, FS_Subset
    <3> QED
      BY <2>1, <3>1, LastNumber
  <2>3. \E d \in Days \cup {0} : /\ \E c \in Complete(s) : c[2] = d
                                 /\ \A c \in Complete(s) : c[2] <= d
    BY <1>3, <2>2
  <2>4. LastUsed(s) = CHOOSE d \in Days \cup {0} : /\ \E c \in Complete(s) : c[2] = d
                                                   /\ \A c \in Complete(s) : c[2] <= d
    BY <1>5 DEF LastUsed
  <2>5. LastUsed(s) \in Days \cup {0}
    BY <2>3, <2>4
  <2> QED
    BY <1>1, <2>5
<1> QED
  BY <1>4, <1>5

LEMMA NextSourceIsASource ==
    ASSUME Selectable # {}
    PROVE  NextSource \in Sources
<1> DEFINE Ages == {<<LastUsed(s), s>> : s \in Selectable}
<1>1. Selectable \subseteq Sources /\ Sources \subseteq Nat
  BY ProductionAssumption DEF Selectable
<1>2. Ages \in SUBSET (Nat \X Nat) /\ Ages # {}
  <2>1. \A s \in Selectable : s \in Nat /\ LastUsed(s) \in Nat
    BY <1>1, LastUsedIsADay
  <2>2. \A s \in Selectable : <<LastUsed(s), s>> \in Nat \X Nat
    BY <2>1
  <2> QED
    BY <2>2
<1>3. \E c \in Ages : \A d \in Ages \ {c} : Before(c, d)
  <2> HIDE DEF Ages
  <2> QED
    BY <1>2, FirstPair
<1>4. PICK s \in Selectable : \A d \in Ages \ {<<LastUsed(s), s>>} : Before(<<LastUsed(s), s>>, d)
  BY <1>3
<1>5. ASSUME NEW t \in Selectable \ {s} PROVE Older(s, t)
  <2>1. <<LastUsed(t), t>> \in Ages \ {<<LastUsed(s), s>>}
    BY <1>5
  <2>2. Before(<<LastUsed(s), s>>, <<LastUsed(t), t>>)
    BY <1>4, <2>1
  <2> QED
    BY <2>2 DEF Before, Older
<1>6. \E x \in Selectable : \A t \in Selectable \ {x} : Older(x, t)
  BY <1>5
<1>7. NextSource \in Selectable
  BY <1>6 DEF NextSource
<1> QED
  BY <1>1, <1>7

LEMMA FreshUrlIsFresh ==
    ASSUME NEW c
    PROVE  FreshUrl(c) \in 1 .. 3
<1>1. \E u \in 1 .. 3 : u # vault[c].urls /\ u # posts[c].url
  <2>1. \A a, b : (1 # a /\ 1 # b) \/ (2 # a /\ 2 # b) \/ (3 # a /\ 3 # b)
    OBVIOUS
  <2> QED
    BY <2>1
<1> QED
  BY <1>1 DEF FreshUrl

-----------------------------------------------------------------------------
(* Types and frames.                                                        *)

Package == [md : {"none", "pending", "queued"}, images : 0..Slides,
            persona : {0} \cup Personas, urls : 0..3]
Post == [count : 0..(MaxFaults + 2), url : 0..3,
         status : {"none", "ready", "uploading", "over"}]
Work == [pc : {"idle", "status", "scan", "topic", "write", "upload", "save", "mark"},
         item : Contents, persona : {0} \cup Personas, url : 0..3]

LEMMA ValuesHaveTypes ==
    /\ NoPackage \in Package /\ NoPost \in Post /\ Idle \in Work
    /\ \A n \in 0 .. 1 : n \in 0 .. (MaxFaults + 2)
    /\ \A n \in 0 .. (Slides - 1) : n + 1 \in 0 .. Slides
    /\ 1 \in 0 .. Slides /\ 0 \in 0 .. Slides /\ Slides \in 0 .. Slides /\ 2 <= Slides
<1>1. /\ MaxFaults \in Nat /\ Slides \in Nat /\ 2 <= Slides
  BY ProductionAssumption
<1>2. /\ 0 \in 0 .. (MaxFaults + 2) /\ 0 \in 0 .. Slides /\ 0 \in 0 .. 3
      /\ \A n \in 0 .. 1 : n \in 0 .. (MaxFaults + 2)
      /\ \A n \in 0 .. (Slides - 1) : n + 1 \in 0 .. Slides
      /\ 1 \in 0 .. Slides /\ Slides \in 0 .. Slides
  BY <1>1
<1> QED
  BY <1>1, <1>2, ContentsArePairs DEF NoPackage, NoPost, Idle, Package, Post, Work

\* The types, named.
LEMMA Typed ==
    TypeOK <=> /\ account \in [own : BOOLEAN, format : {"single", "carousel"}]
               /\ day \in Days /\ persona \in Personas
               /\ vault \in [Contents -> Package] /\ posts \in [Contents -> Post]
               /\ lock \in Runs \cup {NoRun} /\ run \in [Runs -> Work]
               /\ faults \in 0..MaxFaults
BY DEF TypeOK, Package, Post, Work

LEMMA FaultsTyped ==
    ASSUME faults \in 0 .. MaxFaults, Fine \/ Fault
    PROVE  faults' \in 0 .. MaxFaults
BY ProductionAssumption DEF Fine, Fault

\* Of the packages, a step moves the one it works on.
LEMMA PackageSame ==
    ASSUME NEW c \in Contents, PackageOk(c), UNCHANGED account,
           vault'[c] = vault[c], posts'[c] = posts[c]
    PROVE  PackageOk(c)'
BY DEF PackageOk, Waiting, Resolves, Carousel, Legacy

\* The runs but the one that steps are idle, and stay so.
LEMMA WorkerStep ==
    ASSUME ProductionInv, NEW p \in Runs, run[p].pc # "idle",
           NEW r \in Work, run' = [run EXCEPT ![p] = r],
           r = Idle \/ (r.pc # "idle" /\ UNCHANGED lock)
    PROVE  /\ run' \in [Runs -> Work] /\ run'[p] = r
           /\ LockInv'
           /\ \A q \in Runs \ {p} : RunOk(q)'
<1>1. run \in [Runs -> Work] /\ lock = p
  BY Typed DEF ProductionInv, LockInv
<1>2. run' \in [Runs -> Work] /\ run'[p] = r
  BY <1>1
<1>3. ASSUME NEW q \in Runs, q # p PROVE run'[q] = run[q] /\ run'[q] = Idle
  BY <1>1, <1>3, ProductionAssumption DEF ProductionInv, LockInv
<1>4. Idle.pc = "idle"
  BY DEF Idle
<1>5. LockInv'
  BY <1>1, <1>2, <1>3, <1>4 DEF LockInv
<1>6. ASSUME NEW q \in Runs \ {p} PROVE RunOk(q)'
  BY <1>3, <1>4, <1>6 DEF RunOk
<1> QED
  BY <1>2, <1>5, <1>6

\* A run that ends before it has written anything leaves everything as it was.
LEMMA LeaveStep ==
    ASSUME ProductionInv, NEW p \in Runs, run[p].pc # "idle", Leave(p),
           UNCHANGED <<world, vault, posts>>, Fine \/ Fault
    PROVE  ProductionInv'
<1>1. Idle \in Work /\ Idle.pc = "idle" /\ run' = [run EXCEPT ![p] = Idle]
  BY ValuesHaveTypes DEF Idle, Leave
<1>2. /\ run' \in [Runs -> Work] /\ run'[p] = Idle
      /\ LockInv'
      /\ \A q \in Runs \ {p} : RunOk(q)'
  BY <1>1, WorkerStep
<1>3. RunOk(p)'
  BY <1>1, <1>2 DEF RunOk
<1>4. \A c \in Contents : PackageOk(c)'
  BY PackageSame DEF ProductionInv, world
<1>5. Alone'
  BY DEF ProductionInv, Alone, Waiting
<1>6. TypeOK'
  BY <1>2, Typed, FaultsTyped DEF ProductionInv, TypeOK, world, Leave, Release, Package, Post, Work
<1> QED
  BY <1>2, <1>3, <1>4, <1>5, <1>6 DEF ProductionInv

-----------------------------------------------------------------------------
(* A run, step by step.                                                     *)

\* A run that goes on with other work, the packages as they were.
LEMMA GoOnStep ==
    ASSUME ProductionInv, NEW p \in Runs, run[p].pc # "idle",
           NEW r \in Work, run' = [run EXCEPT ![p] = r], r.pc # "idle",
           UNCHANGED <<world, vault, posts, lock, faults>>,
           RunOk(p)'
    PROVE  ProductionInv'
<1>1. /\ run' \in [Runs -> Work] /\ LockInv' /\ \A q \in Runs \ {p} : RunOk(q)'
  BY WorkerStep
<1>2. \A c \in Contents : PackageOk(c)'
  BY PackageSame DEF ProductionInv, world
<1>3. Alone'
  BY DEF ProductionInv, Alone, Waiting
<1>4. TypeOK'
  BY <1>1, Typed DEF ProductionInv, TypeOK, world, Package, Post, Work
<1> QED
  BY <1>1, <1>2, <1>3, <1>4 DEF ProductionInv

LEMMA StartStep ==
    ASSUME ProductionInv, NEW p \in Runs, Start(p)
    PROVE  ProductionInv'
<1>0. run \in [Runs -> Work] /\ lock = NoRun /\ lock' = p
  BY Typed DEF ProductionInv, Start, Acquire
<1>1. \A q \in Runs : run[q].pc = "idle" /\ run[q] = Idle
  BY <1>0, ProductionAssumption DEF ProductionInv, LockInv
<1> DEFINE r == [Idle EXCEPT !.pc = "status"]
<1>2. r \in Work /\ r.pc = "status" /\ Idle.pc = "idle"
  BY ValuesHaveTypes DEF Idle, Work
<1>3. run' = [run EXCEPT ![p] = r]
  BY <1>0, <1>1 DEF Start
<1> HIDE DEF r
<1>4. /\ run' \in [Runs -> Work] /\ run'[p] = r /\ \A q \in Runs \ {p} : run'[q] = Idle
  BY <1>0, <1>1, <1>2, <1>3
<1>5. LockInv' /\ \A q \in Runs : RunOk(q)'
  <2>1. \A q \in Runs : run'[q].pc = "idle" \/ (q = p /\ run'[q].pc = "status")
    BY <1>2, <1>4
  <2> QED
    BY <1>0, <1>2, <1>4, <2>1 DEF LockInv, RunOk
<1>6. \A c \in Contents : PackageOk(c)'
  BY PackageSame DEF ProductionInv, Start, world
<1>7. Alone' /\ TypeOK'
  BY <1>0, <1>4, Typed DEF ProductionInv, Start, world, Alone, Waiting, TypeOK, Package, Post, Work
<1> QED
  BY <1>5, <1>6, <1>7 DEF ProductionInv

LEMMA ReadStatusStep ==
    ASSUME ProductionInv, NEW p \in Runs, ReadStatus(p)
    PROVE  ProductionInv'
<1>1. CASE Leave(p) /\ (Fine \/ Fault)
  BY <1>1, LeaveStep DEF ReadStatus
<1>2. CASE /\ Waiting = {}
           /\ run' = [run EXCEPT ![p].pc = "scan", ![p].persona = persona]
           /\ UNCHANGED <<faults, lock>>
  <2> DEFINE r == [run[p] EXCEPT !.pc = "scan", !.persona = persona]
  <2>1. run \in [Runs -> Work] /\ persona \in Personas
    BY Typed DEF ProductionInv
  <2>2. r \in Work /\ r.pc = "scan" /\ run' = [run EXCEPT ![p] = r]
    BY <1>2, <2>1 DEF Work
  <2>3. run'[p] = r /\ UNCHANGED posts
    BY <2>1, <2>2 DEF ReadStatus
  <2> HIDE DEF r
  <2>4. RunOk(p)'
    BY <1>2, <2>2, <2>3 DEF RunOk, Waiting
  <2> QED
    BY <1>2, <2>2, <2>4, GoOnStep DEF ReadStatus
<1> QED
  BY <1>1, <1>2 DEF ReadStatus, Fine

\* What a scan takes up was never saved.
LEMMA NotStale ==
    ASSUME ProductionInv, NEW c \in Contents, ~Stale(c)
    PROVE  posts[c].count = 0
<1>1. posts[c].count \in Nat
  BY Typed DEF ProductionInv, Post
<1> QED
  BY <1>1 DEF Stale

LEMMA ScanStep ==
    ASSUME ProductionInv, NEW p \in Runs, Scan(p)
    PROVE  ProductionInv'
<1>1. CASE Leave(p) /\ (Fine \/ Fault)
  BY <1>1, LeaveStep DEF Scan
<1>2. run \in [Runs -> Work] /\ run[p] \in Work /\ Waiting = {}
  BY Typed DEF ProductionInv, RunOk, Scan
<1>3. CASE run' = [run EXCEPT ![p].pc = "topic"] /\ UNCHANGED <<faults, lock>>
  <2> DEFINE r == [run[p] EXCEPT !.pc = "topic"]
  <2>1. r \in Work /\ r.pc = "topic" /\ run' = [run EXCEPT ![p] = r]
    BY <1>2, <1>3 DEF Work
  <2>2. run'[p] = r /\ UNCHANGED posts
    BY <1>2, <2>1 DEF Scan
  <2> HIDE DEF r
  <2>3. RunOk(p)'
    BY <1>2, <2>1, <2>2 DEF RunOk, Waiting
  <2> QED
    BY <1>3, <2>1, <2>3, GoOnStep DEF Scan
<1>4. CASE /\ Stops(p) # {} /\ ~OtherPersona(p, First(p))
           /\ run' = [run EXCEPT ![p].pc = "upload", ![p].item = First(p)]
           /\ UNCHANGED <<faults, lock>>
  <2> DEFINE c == First(p)
             r == [run[p] EXCEPT !.pc = "upload", !.item = c]
  <2>1. c \in Contents /\ vault[c].md = "pending" /\ ~Stale(c)
    BY <1>4, FirstIsAStop DEF Stops, Pending
  <2>2. posts[c].count = 0
    BY <2>1, NotStale
  <2>3. r \in Work /\ r.pc = "upload" /\ r.item = c /\ run' = [run EXCEPT ![p] = r]
    BY <1>2, <1>4, <2>1 DEF Work
  <2>4. run'[p] = r /\ UNCHANGED <<posts, vault>>
    BY <1>2, <2>3 DEF Scan
  <2> HIDE DEF r, c
  <2>5. RunOk(p)'
    BY <1>2, <2>1, <2>2, <2>3, <2>4 DEF RunOk, Waiting
  <2> QED
    BY <1>4, <2>3, <2>5, GoOnStep DEF Scan
<1> QED
  BY <1>1, <1>3, <1>4 DEF Scan, Fine

LEMMA TopicStep ==
    ASSUME ProductionInv, NEW p \in Runs, Topic(p)
    PROVE  ProductionInv'
<1>1. CASE Leave(p) /\ (Fine \/ Fault)
  BY <1>1, LeaveStep DEF Topic
<1>2. /\ run \in [Runs -> Work] /\ run[p] \in Work /\ Waiting = {}
      /\ vault \in [Contents -> Package] /\ posts \in [Contents -> Post] /\ day \in Days
  BY Typed DEF ProductionInv, RunOk, Topic
<1>3. ASSUME NEW c \in Contents, ~Legacy(c), Build(p, c), UNCHANGED faults
      PROVE  ProductionInv'
  <2>1. CASE Leave(p)
    BY <1>1, <1>3, <2>1 DEF Fine
  <2>2. CASE /\ ~(vault[c].md # "none" \/ vault[c].images > 0)
             /\ run' = [run EXCEPT ![p].pc = "write", ![p].item = c] /\ UNCHANGED lock
    <3> DEFINE r == [run[p] EXCEPT !.pc = "write", !.item = c]
    <3>1. vault[c].md = "none" /\ vault[c].images = 0
      BY <1>2, <2>2 DEF Package
    <3>2. posts[c].count = 0
      BY <1>2, <3>1 DEF ProductionInv, PackageOk, Post
    <3>3. r \in Work /\ r.pc = "write" /\ r.item = c /\ run' = [run EXCEPT ![p] = r]
      BY <1>2, <2>2 DEF Work
    <3>4. run'[p] = r /\ UNCHANGED <<posts, vault>>
      BY <1>2, <3>3 DEF Topic
    <3> HIDE DEF r
    <3>5. RunOk(p)'
      BY <1>2, <1>3, <3>1, <3>2, <3>3, <3>4 DEF RunOk, Waiting, Legacy
    <3> QED
      BY <1>3, <2>2, <3>3, <3>5, GoOnStep DEF Topic
  <2> QED
    BY <1>3, <2>1, <2>2 DEF Build
<1>4. Selectable # {} => /\ <<NextSource, day>> \in Contents /\ ~Legacy(<<NextSource, day>>)
  BY <1>2, NextSourceIsASource, ContentsArePairs
<1>5. <<News, day>> \in Contents /\ ~Legacy(<<News, day>>)
  BY <1>2, ContentsArePairs
<1> QED
  BY <1>1, <1>3, <1>4, <1>5 DEF Topic, Fine

-----------------------------------------------------------------------------
(* A run that writes: the package in its hands, and no other.               *)

LEMMA HandsOnStep ==
    ASSUME ProductionInv, NEW p \in Runs, run[p].pc # "idle",
           NEW c \in Contents,
           NEW r \in Work, run' = [run EXCEPT ![p] = r],
           (r = Idle /\ Release(p)) \/ (r.pc # "idle" /\ UNCHANGED lock),
           UNCHANGED world, Fine \/ Fault,
           vault' \in [Contents -> Package], posts' \in [Contents -> Post],
           \A d \in Contents \ {c} : vault'[d] = vault[d] /\ posts'[d] = posts[d],
           PackageOk(c)', Alone', RunOk(p)'
    PROVE  ProductionInv'
<1>1. /\ run' \in [Runs -> Work] /\ LockInv' /\ \A q \in Runs \ {p} : RunOk(q)'
  BY WorkerStep
<1>2. \A d \in Contents : PackageOk(d)'
  BY PackageSame DEF ProductionInv, world
<1>3. lock' \in Runs \cup {NoRun}
  BY Typed DEF ProductionInv, Release
<1>4. TypeOK'
  BY <1>1, <1>3, Typed, FaultsTyped DEF ProductionInv, TypeOK, world, Package, Post, Work
<1> QED
  BY <1>1, <1>2, <1>4 DEF ProductionInv

\* What the two files of a package become.
LEMMA WriteNextTypes ==
    ASSUME ProductionInv, NEW p \in Runs, run[p].pc = "write", NEW c, c = run[p].item,
           WriteNext(p, c)
    PROVE  /\ c \in Contents /\ vault' \in [Contents -> Package]
           /\ \A d \in Contents \ {c} : vault'[d] = vault[d]
           /\ vault'[c].md # "queued"
           /\ IF Carousel THEN vault'[c].md = "none"
                               \/ (vault'[c].md = "pending" /\ vault'[c].images = Slides)
              ELSE vault'[c].images = 0 \/ (vault'[c].md = "pending" /\ vault'[c].images = 1)
<1>1. /\ run \in [Runs -> Work] /\ vault \in [Contents -> Package] /\ c \in Contents
      /\ run[p].persona \in {0} \cup Personas
  BY Typed DEF ProductionInv, Work
<1>2. IF Carousel THEN vault[c].md = "none" ELSE vault[c].images = 0 /\ vault[c].md # "queued"
  BY DEF ProductionInv, RunOk
<1>3. vault[c].images \in 0 .. Slides /\ vault[c] \in Package /\ Slides \in Nat
  BY <1>1, ProductionAssumption DEF Package
<1>4. ASSUME PutText(p, c)
      PROVE  /\ vault' \in [Contents -> Package]
             /\ vault'[c].md = "pending" /\ vault'[c].images = vault[c].images
             /\ \A d \in Contents \ {c} : vault'[d] = vault[d]
  <2> DEFINE v == [vault[c] EXCEPT !.md = "pending", !.persona = run[p].persona]
  <2>1. v \in Package /\ v.md = "pending" /\ v.images = vault[c].images
    BY <1>1, <1>3 DEF Package
  <2>2. vault' = [vault EXCEPT ![c] = v]
    BY <1>1, <1>4 DEF PutText
  <2> HIDE DEF v
  <2> QED
    BY <1>1, <2>1, <2>2
<1>5. ASSUME PutImage(c), vault[c].images < Slides
      PROVE  /\ vault' \in [Contents -> Package]
             /\ vault'[c].md = vault[c].md /\ vault'[c].images = vault[c].images + 1
             /\ \A d \in Contents \ {c} : vault'[d] = vault[d]
  <2> DEFINE v == [vault[c] EXCEPT !.images = @ + 1]
  <2>1. vault[c].images + 1 \in 0 .. Slides
    BY <1>3, <1>5
  <2>2. v \in Package /\ v.md = vault[c].md /\ v.images = vault[c].images + 1
    BY <1>1, <1>3, <2>1 DEF Package
  <2>3. vault' = [vault EXCEPT ![c] = v]
    BY <1>1, <1>5 DEF PutImage
  <2> HIDE DEF v
  <2> QED
    BY <1>1, <2>2, <2>3
<1>6. CASE Carousel
  <2>2. \/ vault[c].images < Slides /\ PutImage(c)
        \/ ~(vault[c].images < Slides) /\ PutText(p, c)
    BY <1>6 DEF WriteNext
  <2>3. ~(vault[c].images < Slides) => vault[c].images = Slides
    BY <1>3
  <2>4. CASE vault[c].images < Slides /\ PutImage(c)
    BY <1>1, <1>2, <1>5, <1>6, <2>4
  <2>5. CASE ~(vault[c].images < Slides) /\ PutText(p, c)
    BY <1>1, <1>2, <1>4, <1>6, <2>3, <2>5
  <2> QED
    BY <2>2, <2>4, <2>5
<1>7. CASE ~Carousel
  <2>1. CASE vault[c].md = "none" /\ PutText(p, c)
    BY <1>1, <1>2, <1>4, <1>7, <2>1
  <2>2. CASE vault[c].md # "none" /\ PutImage(c)
    <3>1. vault[c].md = "pending"
      BY <1>2, <1>3, <1>7, <2>2 DEF Package
    <3>2. vault[c].images < Slides
      BY <1>2, <1>3, <1>7, ValuesHaveTypes
    <3> QED
      BY <1>1, <1>2, <1>5, <1>7, <2>2, <3>1, <3>2
  <2> QED
    BY <1>7, <2>1, <2>2 DEF WriteNext
<1> QED
  BY <1>6, <1>7

LEMMA WriteStep ==
    ASSUME ProductionInv, NEW p \in Runs, Write(p)
    PROVE  ProductionInv'
<1>0. PICK c \in Contents : c = run[p].item
  BY Typed DEF ProductionInv, Work
<1>1. /\ run \in [Runs -> Work] /\ run[p] \in Work /\ Waiting = {} /\ run[p].pc = "write"
      /\ vault \in [Contents -> Package] /\ posts \in [Contents -> Post]
  BY Typed DEF ProductionInv, RunOk, Write, Work
<1>2. ~Legacy(c) /\ posts[c].count = 0 /\ posts[c].status = "none" /\ PackageOk(c)
  BY <1>0, <1>1 DEF ProductionInv, RunOk, PackageOk
<1>3. UNCHANGED <<world, posts>> /\ Waiting' = {} /\ (Carousel <=> Carousel')
  BY <1>0, <1>1 DEF Write, Waiting, world, Carousel
<1>4. Alone'
  BY <1>0, <1>3 DEF Alone
<1>5. ASSUME WriteNext(p, c), UNCHANGED <<faults, lock>>,
             run' = [run EXCEPT ![p].pc = IF Written(c) THEN "upload" ELSE "write"]
      PROVE  ProductionInv'
  <2>1. /\ vault' \in [Contents -> Package]
        /\ \A d \in Contents \ {c} : vault'[d] = vault[d]
        /\ vault'[c].md # "queued"
        /\ IF Carousel THEN vault'[c].md = "none"
                            \/ (vault'[c].md = "pending" /\ vault'[c].images = Slides)
           ELSE vault'[c].images = 0 \/ (vault'[c].md = "pending" /\ vault'[c].images = 1)
    BY <1>0, <1>1, <1>5, WriteNextTypes
  <2> DEFINE label == IF Written(c) THEN "upload" ELSE "write"
             r == [run[p] EXCEPT !.pc = label]
  <2>2. /\ label = "upload" /\ vault'[c].md = "pending"
        \/ /\ label = "write"
           /\ IF Carousel THEN vault'[c].md = "none" ELSE vault'[c].images = 0
    <3>1. vault'[c].md \in {"none", "pending"} /\ Slides # 0 /\ 1 # 0
      BY <1>0, <1>1, <2>1, ProductionAssumption DEF Package
    <3> QED
      BY <2>1, <3>1 DEF Written, Images
  <2>3. r \in Work /\ r.pc = label /\ r.item = c /\ run' = [run EXCEPT ![p] = r]
    BY <1>0, <1>1, <1>5, <2>2 DEF Work
  <2>4. run'[p] = r /\ r.pc # "idle"
    BY <1>0, <1>1, <2>2, <2>3
  <2> HIDE DEF r, label
  <2>5. RunOk(p)'
    BY <1>0, <1>2, <1>3, <2>1, <2>2, <2>3, <2>4 DEF RunOk, Legacy
  <2>6. PackageOk(c)'
    BY <1>0, <1>2, <1>3, <2>1 DEF PackageOk
  <2> QED
    BY <1>0, <1>1, <1>3, <1>4, <1>5, <2>1, <2>3, <2>4, <2>5, <2>6, HandsOnStep DEF Fine
<1>6. ASSUME Fault, vault' = [vault EXCEPT ![c] = NoPackage], Leave(p)
      PROVE  ProductionInv'
  <2>1. /\ vault' \in [Contents -> Package] /\ vault'[c] = NoPackage
        /\ \A d \in Contents \ {c} : vault'[d] = vault[d]
    BY <1>0, <1>1, <1>6, ValuesHaveTypes
  <2>2. PackageOk(c)'
    BY <1>0, <1>2, <1>3, <2>1 DEF PackageOk, NoPackage
  <2>3. Idle \in Work /\ Idle.pc = "idle" /\ run' = [run EXCEPT ![p] = Idle] /\ run'[p] = Idle
    BY <1>0, <1>1, <1>6, ValuesHaveTypes DEF Leave, Idle
  <2>4. RunOk(p)'
    BY <2>3 DEF RunOk
  <2> QED
    BY <1>0, <1>1, <1>3, <1>4, <1>6, <2>1, <2>2, <2>3, <2>4, HandsOnStep DEF Leave
<1> QED
  BY <1>0, <1>5, <1>6 DEF Write, Fine

LEMMA UploadStep ==
    ASSUME ProductionInv, NEW p \in Runs, Upload(p)
    PROVE  ProductionInv'
<1>0. PICK c \in Contents : c = run[p].item
  BY Typed DEF ProductionInv, Work
<1>1. /\ run \in [Runs -> Work] /\ run[p] \in Work /\ Waiting = {} /\ run[p].pc = "upload"
      /\ vault \in [Contents -> Package] /\ posts \in [Contents -> Post]
  BY Typed DEF ProductionInv, RunOk, Upload, Work
<1>2. posts[c].count = 0 /\ posts[c].status = "none" /\ PackageOk(c) /\ vault[c].md = "pending"
  BY <1>0, <1>1 DEF ProductionInv, RunOk, PackageOk
<1>3. UNCHANGED <<world, posts>> /\ Waiting' = {} /\ (Carousel <=> Carousel')
  BY <1>0, <1>1 DEF Upload, Waiting, world, Carousel
<1>4. Alone'
  BY <1>0, <1>3 DEF Alone
<1>5. CASE Leave(p) /\ (Fine \/ Fault) /\ UNCHANGED vault
  BY <1>0, <1>1, <1>3, <1>5, LeaveStep
<1>6. ASSUME Sendable(c), KeepUrls(c), UNCHANGED <<faults, lock>>,
             run' = [run EXCEPT ![p].pc = "save", ![p].url = FreshUrl(c)]
      PROVE  ProductionInv'
  <2> DEFINE u == FreshUrl(c)
             r == [run[p] EXCEPT !.pc = "save", !.url = u]
             v == [vault[c] EXCEPT !.urls = u]
  <2>1. u \in 1 .. 3 /\ u \in 0 .. 3 /\ u # 0
    <3>1. u \in 1 .. 3
      BY FreshUrlIsFresh
    <3> QED
      BY <3>1
  <2> HIDE DEF u
  <2>2. r \in Work /\ r.pc = "save" /\ r.item = c /\ r.url = u
    BY <1>0, <1>1, <2>1 DEF Work
  <2>3. run' = [run EXCEPT ![p] = r] /\ run'[p] = r
    BY <1>0, <1>1, <1>6 DEF u
  <2>4. v \in Package /\ v.md = "pending" /\ v.images = vault[c].images /\ v.urls = u
    BY <1>0, <1>1, <1>2, <2>1 DEF Package
  <2>5. IF Carousel THEN vault' = [vault EXCEPT ![c] = v] ELSE UNCHANGED vault
    BY <1>0, <1>1, <1>6 DEF KeepUrls, u
  <2> HIDE DEF r, v
  <2>6. /\ vault' \in [Contents -> Package]
        /\ \A d \in Contents \ {c} : vault'[d] = vault[d]
        /\ vault'[c].md = "pending" /\ vault'[c].images = vault[c].images
        /\ Carousel => vault'[c].urls = u
    BY <1>0, <1>1, <1>2, <2>4, <2>5
  <2>7. PackageOk(c)'
    BY <1>0, <1>2, <1>3, <2>6 DEF PackageOk, Legacy
  <2>8. RunOk(p)'
    BY <1>0, <1>2, <1>3, <1>6, <2>1, <2>2, <2>3, <2>6 DEF RunOk, Legacy, Sendable
  <2> QED
    BY <1>0, <1>1, <1>3, <1>4, <1>6, <2>2, <2>3, <2>6, <2>7, <2>8, HandsOnStep DEF Fine
<1> QED
  BY <1>0, <1>5, <1>6 DEF Upload, Fine

LEMMA SaveStep ==
    ASSUME ProductionInv, NEW p \in Runs, Save(p)
    PROVE  ProductionInv'
<1>0. PICK c \in Contents : c = run[p].item
  BY Typed DEF ProductionInv, Work
<1>1. /\ run \in [Runs -> Work] /\ run[p] \in Work /\ Waiting = {} /\ run[p].pc = "save"
      /\ vault \in [Contents -> Package] /\ posts \in [Contents -> Post]
  BY Typed DEF ProductionInv, RunOk, Save, Work
<1>2. /\ posts[c].count = 0 /\ posts[c].status = "none" /\ PackageOk(c) /\ vault[c].md = "pending"
      /\ ~Legacy(c)
      /\ Carousel => vault[c].urls = run[p].url /\ run[p].url # 0
  BY <1>0, <1>1 DEF ProductionInv, RunOk, PackageOk
<1>3. UNCHANGED <<world, vault>> /\ (Carousel <=> Carousel')
  BY DEF Save, world, Carousel
<1>4. ASSUME Create(p, c)
      PROVE  /\ posts' \in [Contents -> Post] /\ posts'[c].count = 1
             /\ \A d \in Contents \ {c} : posts'[d] = posts[d]
             /\ Alone' /\ PackageOk(c)'
  <2> DEFINE w == [posts[c] EXCEPT !.count = @ + 1, !.status = "ready", !.url = run[p].url]
  <2>1. /\ w \in Post /\ w.count = 1 /\ w.status = "ready" /\ w.url = run[p].url
    <3>1. posts[c] \in Post /\ run[p].url \in 0 .. 3
      BY <1>0, <1>1 DEF Work
    <3>2. posts[c].count + 1 = 1 /\ 1 \in 0 .. (MaxFaults + 2)
      BY <1>2, ProductionAssumption
    <3>3. w = [posts[c] EXCEPT !.count = 1, !.status = "ready", !.url = run[p].url]
      BY <3>2
    <3> HIDE DEF w
    <3> QED
      BY <3>1, <3>2, <3>3 DEF Post
  <2>2. posts' = [posts EXCEPT ![c] = w]
    BY <1>0, <1>1, <1>4 DEF Create
  <2> HIDE DEF w
  <2>3. posts' \in [Contents -> Post] /\ posts'[c] = w
        /\ \A d \in Contents \ {c} : posts'[d] = posts[d]
    BY <1>0, <1>1, <2>1, <2>2
  <2>4. Waiting' = {c}
    BY <1>0, <1>1, <2>1, <2>3 DEF Waiting
  <2>5. Alone'
    BY <2>4 DEF Alone
  <2>6. Resolves(c)'
    BY <1>0, <1>2, <1>3, <2>1, <2>3 DEF Resolves, Legacy
  <2>7. PackageOk(c)'
    BY <1>0, <1>2, <1>3, <2>1, <2>3, <2>4, <2>6 DEF PackageOk, Legacy
  <2> QED
    BY <2>1, <2>3, <2>5, <2>7
<1>5. ASSUME Create(p, c), run' = [run EXCEPT ![p].pc = "mark"], UNCHANGED <<faults, lock>>
      PROVE  ProductionInv'
  <2> DEFINE r == [run[p] EXCEPT !.pc = "mark"]
  <2>1. r \in Work /\ r.pc = "mark" /\ r.item = c
    BY <1>0, <1>1 DEF Work
  <2>2. run' = [run EXCEPT ![p] = r] /\ run'[p] = r
    BY <1>0, <1>1, <1>5
  <2> HIDE DEF r
  <2>3. RunOk(p)'
    BY <1>0, <1>2, <1>3, <1>4, <1>5, <2>1, <2>2 DEF RunOk
  <2> QED
    BY <1>0, <1>1, <1>3, <1>4, <1>5, <2>1, <2>2, <2>3, HandsOnStep DEF Fine
<1>6. ASSUME Fault, Create(p, c), Leave(p)
      PROVE  ProductionInv'
  <2>1. Idle \in Work /\ Idle.pc = "idle" /\ run' = [run EXCEPT ![p] = Idle] /\ run'[p] = Idle
    BY <1>0, <1>1, <1>6, ValuesHaveTypes DEF Leave, Idle
  <2>2. RunOk(p)'
    BY <2>1 DEF RunOk
  <2> QED
    BY <1>0, <1>1, <1>3, <1>4, <1>6, <2>1, <2>2, HandsOnStep DEF Leave
<1>7. CASE Fault /\ UNCHANGED posts /\ Leave(p)
  BY <1>0, <1>1, <1>3, <1>7, LeaveStep
<1> QED
  BY <1>0, <1>5, <1>6, <1>7 DEF Save, Fine

LEMMA MarkStep ==
    ASSUME ProductionInv, NEW p \in Runs, Mark(p)
    PROVE  ProductionInv'
<1>0. PICK c \in Contents : c = run[p].item
  BY Typed DEF ProductionInv, Work
<1>1. /\ run \in [Runs -> Work] /\ run[p] \in Work /\ run[p].pc = "mark" /\ Leave(p)
      /\ vault \in [Contents -> Package] /\ posts \in [Contents -> Post]
  BY Typed DEF ProductionInv, RunOk, Mark, Work
<1>2. posts[c].count > 0 /\ PackageOk(c) /\ vault[c].md = "pending" /\ Alone
  BY <1>0, <1>1 DEF ProductionInv, RunOk
<1>3. UNCHANGED <<world, posts>> /\ (Carousel <=> Carousel')
  BY <1>0, <1>1 DEF Mark, world, Carousel
<1>4. CASE Fault /\ UNCHANGED vault
  BY <1>0, <1>1, <1>3, <1>4, LeaveStep
<1>5. ASSUME vault' = [vault EXCEPT ![c].md = "queued"], Fine PROVE ProductionInv'
  <2> DEFINE v == [vault[c] EXCEPT !.md = "queued"]
  <2>1. v \in Package /\ v.md = "queued" /\ v.urls = vault[c].urls
    BY <1>0, <1>1 DEF Package
  <2>2. vault' = [vault EXCEPT ![c] = v]
    BY <1>0, <1>1, <1>5
  <2> HIDE DEF v
  <2>3. /\ vault' \in [Contents -> Package] /\ vault'[c] = v
        /\ \A d \in Contents \ {c} : vault'[d] = vault[d]
    BY <1>0, <1>1, <2>1, <2>2
  <2>4. Alone'
    BY <1>0, <1>2, <1>3 DEF Alone, Waiting
  <2>5. PackageOk(c)'
    BY <1>0, <1>2, <1>3, <2>1, <2>3 DEF PackageOk, Waiting, Resolves, Legacy
  <2>6. Idle \in Work /\ Idle.pc = "idle" /\ run' = [run EXCEPT ![p] = Idle] /\ run'[p] = Idle
    BY <1>0, <1>1, ValuesHaveTypes DEF Leave, Idle
  <2>7. RunOk(p)'
    BY <2>6 DEF RunOk
  <2> QED
    BY <1>0, <1>1, <1>3, <1>5, <2>3, <2>4, <2>5, <2>6, <2>7, HandsOnStep DEF Leave
<1> QED
  BY <1>0, <1>4, <1>5 DEF Mark

-----------------------------------------------------------------------------
(* The slot job, the operator and the world.                                *)

\* The slot job and the text gate only take posts away.
LEMMA SlotStep ==
    ASSUME ProductionInv, NEW c \in Contents, Claim(c) \/ Finish(c) \/ Reject(c)
    PROVE  ProductionInv'
<1>1. /\ posts \in [Contents -> Post] /\ vault \in [Contents -> Package]
      /\ UNCHANGED <<world, vault, lock, run, faults>>
  BY Typed DEF ProductionInv, Claim, Finish, Reject, SetStatus
<1>2. PICK s \in {"uploading", "over"} :
          /\ posts' = [posts EXCEPT ![c].status = s]
          /\ c \in Waiting /\ (s = "over" \/ Resolves(c))
  BY DEF Claim, Finish, Reject, SetStatus, Waiting
<1> DEFINE w == [posts[c] EXCEPT !.status = s]
<1>3. w \in Post /\ w.count = posts[c].count /\ w.url = posts[c].url /\ w.status = s
  BY <1>1 DEF Post
<1>4. posts' = [posts EXCEPT ![c] = w]
  BY <1>1, <1>2
<1> HIDE DEF w
<1>5. /\ posts' \in [Contents -> Post] /\ posts'[c] = w
      /\ \A d \in Contents \ {c} : posts'[d] = posts[d]
  BY <1>1, <1>3, <1>4
<1>6. Waiting' \subseteq Waiting
  BY <1>2, <1>5 DEF Waiting
<1>7. Alone'
  BY <1>6 DEF Alone, ProductionInv
<1>8. \A d \in Contents : posts'[d].count = posts[d].count
  BY <1>3, <1>5
<1>9. \A p \in Runs : RunOk(p)'
  <2> SUFFICES ASSUME NEW p \in Runs PROVE RunOk(p)'
    OBVIOUS
  <2>1. RunOk(p) /\ run[p].item \in Contents
    BY Typed DEF ProductionInv, Work
  <2> QED
    BY <1>1, <1>6, <1>8, <2>1 DEF RunOk, Carousel, world, Legacy
<1>10. \A d \in Contents : PackageOk(d)'
  <2>1. \A d \in Contents \ {c} : PackageOk(d)'
    BY <1>1, <1>5, PackageSame DEF ProductionInv, world
  <2>2. PackageOk(c) /\ posts[c].count # 0 /\ Resolves(c)
    BY <1>1, <1>2 DEF ProductionInv, PackageOk, Waiting
  <2>3. Resolves(c)'
    BY <1>1, <1>3, <1>5, <2>2 DEF Resolves, Carousel, Legacy, world
  <2>4. PackageOk(c)'
    BY <1>1, <1>3, <1>5, <2>2, <2>3 DEF PackageOk, Carousel, Legacy, world
  <2> QED
    BY <2>1, <2>4
<1>11. LockInv' /\ TypeOK'
  BY <1>1, <1>5, Typed DEF ProductionInv, LockInv, TypeOK, world, Package, Post, Work
<1> QED
  BY <1>7, <1>9, <1>10, <1>11 DEF ProductionInv

\* A person, the clock and the end of a process leave the packages alone.
LEMMA WorldStep ==
    ASSUME ProductionInv,
           ForceRelease \/ ChangePersona \/ Midnight \/ \E p \in Runs : Crash(p)
    PROVE  ProductionInv'
<1>0. UNCHANGED <<account, vault, posts>>
  BY DEF ForceRelease, ChangePersona, Midnight, Crash, world
<1>1. (\A c \in Contents : PackageOk(c)') /\ Alone'
  BY <1>0, PackageSame DEF ProductionInv, Alone, Waiting
<1>2. ASSUME UNCHANGED run PROVE \A p \in Runs : RunOk(p)'
  BY <1>0, <1>2 DEF ProductionInv, RunOk, Waiting, Carousel, Legacy
<1>3. CASE ForceRelease
  <2>1. LockInv'
    BY <1>3, ProductionAssumption DEF ForceRelease, LockInv, ProductionInv, Idle
  <2>2. TypeOK'
    BY <1>3 DEF ForceRelease, world, ProductionInv, TypeOK
  <2> QED
    BY <1>1, <1>2, <1>3, <2>1, <2>2 DEF ForceRelease, ProductionInv
<1>4. CASE ChangePersona \/ Midnight
  <2>1. UNCHANGED <<run, lock, faults>>
    BY <1>4 DEF ChangePersona, Midnight
  <2>2. TypeOK'
    BY <1>4 DEF ChangePersona, Midnight, ProductionInv, TypeOK, Personas
  <2> QED
    BY <1>1, <1>2, <2>1, <2>2 DEF LockInv, ProductionInv
<1>5. ASSUME NEW p \in Runs, Crash(p) PROVE ProductionInv'
  <2>1. /\ Idle \in Work /\ Idle.pc = "idle" /\ run \in [Runs -> Work]
        /\ run' = [run EXCEPT ![p] = Idle]
    BY <1>5, ValuesHaveTypes, Typed DEF Crash, Idle, ProductionInv
  <2>2. /\ run' \in [Runs -> Work] /\ run'[p] = Idle
        /\ \A q \in Runs \ {p} : run'[q] = run[q]
    BY <2>1
  <2>3. LockInv'
    BY <1>5, <2>1, <2>2 DEF LockInv, ProductionInv, Crash
  <2>4. \A q \in Runs : RunOk(q)'
    BY <1>0, <2>1, <2>2 DEF ProductionInv, RunOk, Waiting, Carousel, Legacy
  <2>5. TypeOK'
    BY <1>5, <2>2, Typed, FaultsTyped DEF Crash, ProductionInv, TypeOK, world, Package, Post, Work
  <2> QED
    BY <1>1, <2>3, <2>4, <2>5 DEF ProductionInv
<1> QED
  BY <1>3, <1>4, <1>5

-----------------------------------------------------------------------------
(* The theorems.                                                            *)

LEMMA InitProduction == Init => ProductionInv
<1> SUFFICES ASSUME Init PROVE ProductionInv
  OBVIOUS
<1>1. PICK old \in Sources \cup {News}, saved \in BOOLEAN :
         /\ saved => old # News
         /\ vault = [c \in Contents |->
                       IF c = <<old, 0>> /\ old # News
                       THEN [NoPackage EXCEPT !.md = "pending", !.images = 1] ELSE NoPackage]
         /\ posts = [c \in Contents |->
                       IF c = <<old, 0>> /\ saved
                       THEN [NoPost EXCEPT !.count = 1, !.status = "over"] ELSE NoPost]
  BY DEF Init
<1>2. /\ [NoPackage EXCEPT !.md = "pending", !.images = 1] \in Package
      /\ [NoPost EXCEPT !.count = 1, !.status = "over"] \in Post
  <2>1. 1 \in 0 .. 1
    OBVIOUS
  <2> QED
    BY <2>1, ValuesHaveTypes DEF NoPackage, NoPost, Package, Post
<1>3. vault \in [Contents -> Package] /\ posts \in [Contents -> Post]
  BY <1>1, <1>2, ValuesHaveTypes
<1>4. run \in [Runs -> Work] /\ \A p \in Runs : run[p] = Idle /\ run[p].pc = "idle"
  BY ValuesHaveTypes DEF Init, Idle
<1>5. 0 \in 0 .. MaxFaults /\ 1 \in Personas
  BY ProductionAssumption DEF Personas
<1>6. day \in Days
  BY ProductionAssumption DEF Init
<1>7. TypeOK
  BY <1>3, <1>4, <1>5, <1>6, Typed DEF Init
<1>8. LockInv /\ \A p \in Runs : RunOk(p)
  BY <1>4 DEF LockInv, RunOk
<1>9. ASSUME NEW c \in Contents PROVE PackageOk(c) /\ c \notin Waiting
  <2>1. c = <<old, 0>> => Legacy(c)
    BY DEF Legacy
  <2>2. CASE c = <<old, 0>>
    BY <1>1, <2>1, <2>2 DEF PackageOk, Waiting, NoPackage, NoPost
  <2>3. CASE c # <<old, 0>>
    BY <1>1, <2>3 DEF PackageOk, Waiting, NoPackage, NoPost
  <2> QED
    BY <2>2, <2>3
<1>10. Alone
  BY <1>9 DEF Alone, Waiting
<1> QED
  BY <1>7, <1>8, <1>9, <1>10 DEF ProductionInv

LEMMA ProductionStep == ProductionInv /\ [Next]_vars => ProductionInv'
<1> SUFFICES ASSUME ProductionInv, [Next]_vars PROVE ProductionInv'
  OBVIOUS
<1>1. ASSUME NEW p \in Runs, Start(p) \/ Step(p) PROVE ProductionInv'
  BY <1>1, StartStep, ReadStatusStep, ScanStep, TopicStep, WriteStep, UploadStep, SaveStep,
     MarkStep DEF Step
<1>2. ASSUME NEW c \in Contents, Claim(c) \/ Finish(c) \/ Reject(c) PROVE ProductionInv'
  BY <1>2, SlotStep
<1>3. CASE ForceRelease \/ ChangePersona \/ Midnight \/ \E p \in Runs : Crash(p)
  BY <1>3, WorldStep
<1>4. CASE UNCHANGED vars
  BY <1>4 DEF vars, ProductionInv, TypeOK, LockInv, RunOk, PackageOk, Alone, Waiting,
     Resolves, Carousel, Legacy
<1> QED
  BY <1>1, <1>2, <1>3, <1>4 DEF Next

\* Only the holder of the lock works, on a package that was never saved.
THEOREM ProductionHolds == Spec => []ProductionInv
<1>1. Init => ProductionInv
  BY InitProduction
<1>2. ProductionInv /\ [Next]_vars => ProductionInv'
  BY ProductionStep
<1> QED
  BY <1>1, <1>2, PTL DEF Spec

\* A package is saved at most once as a post of Airtable, though the answer of the call
\* that saved it may be lost, the process may die before the Vault is marked, and a manual
\* run starts in between (the stale branch of _job_aijomoojin_content_producer).
THEOREM SavedOnceHolds == Spec => []SavedOnce
<1>1. ProductionInv => SavedOnce
  BY DEF ProductionInv, PackageOk, SavedOnce
<1> QED
  BY <1>1, ProductionHolds, PTL

\* At most one post of the account waits for its slot, and the slot job does not hold it
\* back: its text is in the Vault and its pictures are those the Vault names
\* (_resolve_aijomoojin_slot_package).
THEOREM WaitingIsPublishableHolds == Spec => []WaitingIsPublishable
<1>1. ProductionInv => WaitingIsPublishable
  <2> SUFFICES ASSUME ProductionInv PROVE WaitingIsPublishable
    OBVIOUS
  <2>1. \A c \in Waiting : Resolves(c)
    BY DEF ProductionInv, PackageOk, Waiting
  <2>2. Cardinality(Waiting) <= 1
    <3>1. CASE Waiting = {}
      <4>1. Cardinality(Waiting) = 0
        BY <3>1, FS_EmptySet
      <4> QED
        BY <4>1
    <3>2. ASSUME NEW c \in Waiting PROVE Cardinality(Waiting) <= 1
      <4>1. Waiting = {c}
        BY <3>2 DEF ProductionInv, Alone
      <4>2. Cardinality({c}) = 1
        BY FS_Singleton
      <4> QED
        BY <4>1, <4>2
    <3> QED
      BY <3>1, <3>2
  <2> QED
    BY <2>1, <2>2 DEF WaitingIsPublishable, OneWaiting
<1> QED
  BY <1>1, ProductionHolds, PTL

\* Whatever crashed, what the Vault calls queued is in Airtable, and a carousel whose text
\* is there has all its pictures (mark_channel_status after the save, the .md file last).
THEOREM VaultIsTrueHolds == Spec => []VaultIsTrue
<1>1. ProductionInv => VaultIsTrue
  BY DEF ProductionInv, PackageOk, VaultIsTrue, Pending
<1> QED
  BY <1>1, ProductionHolds, PTL

=============================================================================
