------------------------------ MODULE PartsProofs ------------------------------
(***************************************************************************)
(* What the parts of MCParts guarantee for every value of their constants: *)
(* the private replies, the two watchers, the text of a carousel, the      *)
(* start of the launchers, the posts that are used again, the drawings of  *)
(* a carousel, the calls of a person and the friend requests of the job.   *)
(* Each part has an invariant of its own, one lemma per step or group of   *)
(* steps, and a theorem for the properties the run of the parts checks.    *)
(***************************************************************************)
EXTENDS MCParts, FiniteSetTheorems, SequenceTheorems, WellFoundedInduction, TLAPS

-----------------------------------------------------------------------------
(* The private replies.  One thread is at work under REPLY_LOCK, the file of *)
(* the day is never behind what was begun, and a reply that is not noted    *)
(* belongs to a user who is loose or to the thread that is about to note it. *)

RepliesShape ==
    /\ tick \in 0..LastTick /\ slips \in 0..MaxSlips
    /\ reply \in [Threads -> [at : {"idle", "started", "noting"}, for : Users]]
    /\ cooldown \in [whole : BOOLEAN, last : [Users -> Int]]
    /\ budget \in [whole : BOOLEAN, day : Nat, n : Nat]
    /\ given \in [Users -> Int] /\ \A u \in Users : given[u] <= tick
    /\ begun \in [Days -> Nat]

OneReplies == \A s, t \in Threads : reply[s].at # "idle" /\ reply[t].at # "idle" => s = t

\* The file knows of every reply of today, and no day to come has begun.
DayIsCounted ==
    /\ \A d \in Days : begun[d] <= Budget /\ (d > Today => begun[d] = 0)
    /\ begun[Today] <= Used

Noting(u) == \E t \in Threads : reply[t].at = "noting" /\ reply[t].for = u

\* Whom the notes can be trusted about.
Known(u) == u \in Users /\ u # Nobody /\ u \notin loose

NotesAreTrue ==
    /\ again \subseteq loose \cup {Nobody}
    /\ \A u \in Users : Known(u) => given[u] <= cooldown.last[u] \/ Noting(u)
    /\ \A t \in Threads : reply[t].at = "started" /\ reply[t].for # Nobody
                             => tick - cooldown.last[reply[t].for] >= Cooldown

RepliesInv == RepliesShape /\ OneReplies /\ DayIsCounted /\ NotesAreTrue

LEMMA DivGrows ==
    ASSUME NEW d \in Nat \ {0}, NEW m \in Nat, NEW n \in Nat, m <= n
    PROVE  m \div d \in Nat /\ n \div d \in Nat /\ m \div d <= n \div d
OBVIOUS

\* The clock: what does not change with it, and the day that may begin.
LEMMA RepliesTypes ==
    ASSUME RepliesShape
    PROVE  /\ tick \in Nat /\ LastTick \in Nat /\ Cooldown \in Nat \ {0} /\ Budget \in Nat
           /\ Today \in Days /\ Today \in Nat /\ Days \subseteq Nat /\ Used \in Nat
           /\ NoReply \in [at : {"idle", "started", "noting"}, for : Users]
           /\ NoReply.at = "idle"
<1>1. tick \in Nat /\ LastTick \in Nat /\ tick <= LastTick /\ Day \in Nat \ {0}
      /\ Cooldown \in Nat \ {0} /\ Budget \in Nat
  BY RepliesAssumption DEF RepliesShape
<1>2. Today \in Days /\ Today \in Nat /\ Days \subseteq Nat
  BY <1>1, DivGrows DEF Today, Days
<1>3. Used \in Nat
  BY DEF RepliesShape, Used
<1>4. NoReply \in [at : {"idle", "started", "noting"}, for : Users] /\ NoReply.at = "idle"
  BY RepliesAssumption DEF NoReply
<1> QED
  BY <1>1, <1>2, <1>3, <1>4

\* A step that leaves the files, the clock and the ghosts of the day alone.
LEMMA DayStays ==
    ASSUME DayIsCounted, UNCHANGED <<tick, budget, begun>>
    PROVE  DayIsCounted'
BY DEF DayIsCounted, Today, Used

\* A step of the thread that holds the lock.
LEMMA ThreadMoves ==
    ASSUME RepliesShape, OneReplies, NEW t \in Threads, reply[t].at # "idle",
           NEW r \in [at : {"idle", "started", "noting"}, for : Users],
           reply' = [reply EXCEPT ![t] = r]
    PROVE  /\ reply' \in [Threads -> [at : {"idle", "started", "noting"}, for : Users]]
           /\ OneReplies' /\ reply'[t] = r
           /\ \A s \in Threads \ {t} : reply'[s] = reply[s] /\ reply[s].at = "idle"
<1>1. \A s \in Threads : reply'[s] = IF s = t THEN r ELSE reply[s]
  BY DEF RepliesShape
<1>2. reply' \in [Threads -> [at : {"idle", "started", "noting"}, for : Users]]
  BY <1>1 DEF RepliesShape
<1>3. \A s \in Threads \ {t} : reply[s].at = "idle"
  BY DEF OneReplies
<1>4. OneReplies'
  BY <1>1, <1>3 DEF OneReplies
<1> QED
  BY <1>1, <1>2, <1>3, <1>4

LEMMA PassesKeeps ==
    ASSUME RepliesInv, NEW t \in Threads, NEW u \in Users, Passes(t, u)
    PROVE  RepliesInv'
<1> DEFINE r == [at |-> "started", for |-> u]
<1>1. RepliesShape /\ OneReplies /\ DayIsCounted /\ NotesAreTrue
  BY DEF RepliesInv
<1>2. /\ reply' = [reply EXCEPT ![t] = r] /\ \A s \in Threads : reply[s].at = "idle"
      /\ ~InCooldown(u) /\ Used < Budget
      /\ budget' = [budget EXCEPT !.day = Today, !.n = Used + 1]
      /\ begun' = [begun EXCEPT ![Today] = @ + 1]
      /\ UNCHANGED <<tick, cooldown, circuit, given, again, loose, slips>>
  BY DEF Passes, Unlocked
<1>3. /\ Today \in Days /\ Today \in Nat /\ Days \subseteq Nat /\ Used \in Nat
      /\ Cooldown \in Nat /\ Budget \in Nat /\ tick \in Nat
  BY <1>1, RepliesTypes
<1>4. \A s \in Threads : reply'[s] = IF s = t THEN r ELSE reply[s]
  BY <1>1, <1>2 DEF RepliesShape
<1>5. /\ budget' \in [whole : BOOLEAN, day : Nat, n : Nat]
      /\ budget'.day = Today /\ budget'.n = Used + 1
  <2>1. Used + 1 \in Nat
    BY <1>3
  <2>2. PICK n \in Nat : n = Used + 1
    BY <2>1
  <2>3. budget' = [budget EXCEPT !.day = Today, !.n = n]
    BY <1>2, <2>2
  <2> QED
    BY <1>1, <1>3, <2>2, <2>3 DEF RepliesShape
<1>6. /\ begun' \in [Days -> Nat]
      /\ \A d \in Days : begun'[d] = IF d = Today THEN begun[d] + 1 ELSE begun[d]
  BY <1>1, <1>2, <1>3 DEF RepliesShape
<1>7. RepliesShape'
  <2>1. reply' \in [Threads -> [at : {"idle", "started", "noting"}, for : Users]]
    BY <1>1, <1>2 DEF RepliesShape
  <2> QED
    BY <1>1, <1>2, <1>5, <1>6, <2>1 DEF RepliesShape
<1>8. OneReplies'
  BY <1>2, <1>4 DEF OneReplies
<1>9. DayIsCounted'
  <2>1. Today' = Today
    BY <1>2 DEF Today
  <2>2. Used' = Used + 1
    BY <1>5, <2>1 DEF Used
  <2>3. begun[Today] <= Used /\ begun[Today] \in Nat
    BY <1>1, <1>3 DEF DayIsCounted, RepliesShape
  <2>4. begun'[Today] <= Used + 1 /\ begun'[Today] <= Budget
    BY <1>2, <1>3, <1>6, <2>3
  <2>5. \A d \in Days : begun'[d] <= Budget /\ (d > Today => begun'[d] = 0)
    BY <1>1, <1>3, <1>6, <2>4 DEF DayIsCounted
  <2> QED
    BY <2>1, <2>2, <2>4, <2>5 DEF DayIsCounted
<1>10. NotesAreTrue'
  <2>1. \A v \in Users : Known(v)' => Known(v)
    BY <1>2 DEF Known
  <2>2. ASSUME NEW v \in Users, Known(v)' PROVE (given[v] <= cooldown.last[v] \/ Noting(v))'
    BY <1>1, <1>2, <2>1, <2>2 DEF NotesAreTrue, Noting
  <2>3. u # Nobody => tick - cooldown.last[u] >= Cooldown
    <3>1. cooldown.last[u] \in Int
      BY <1>1 DEF RepliesShape
    <3> QED
      BY <1>2, <1>3, <3>1 DEF InCooldown
  <2>4. \A s \in Threads : reply'[s].at = "started" => reply'[s].for = u
    BY <1>2, <1>4
  <2>5. \A s \in Threads : (reply[s].at = "started" /\ reply[s].for # Nobody
                              => tick - cooldown.last[reply[s].for] >= Cooldown)'
    BY <1>2, <2>3, <2>4
  <2>6. (again \subseteq loose \cup {Nobody})'
    BY <1>1, <1>2 DEF NotesAreTrue
  <2> QED
    BY <2>2, <2>5, <2>6 DEF NotesAreTrue
<1> QED
  BY <1>7, <1>8, <1>9, <1>10 DEF RepliesInv

LEMMA FencedKeeps ==
    ASSUME RepliesInv, NEW t \in Threads, Fenced(t)
    PROVE  RepliesInv'
<1>1. RepliesShape /\ OneReplies /\ DayIsCounted /\ NotesAreTrue
  BY DEF RepliesInv
<1>2. /\ reply[t].at = "started" /\ reply' = [reply EXCEPT ![t] = NoReply]
      /\ UNCHANGED <<tick, cooldown, budget, circuit, given, again, loose, begun, slips>>
  BY DEF Fenced
<1>3. /\ NoReply \in [at : {"idle", "started", "noting"}, for : Users] /\ NoReply.at = "idle"
  BY <1>1, RepliesTypes
<1>4. /\ reply' \in [Threads -> [at : {"idle", "started", "noting"}, for : Users]]
      /\ OneReplies' /\ reply'[t] = NoReply
      /\ \A s \in Threads \ {t} : reply'[s] = reply[s] /\ reply[s].at = "idle"
  BY <1>1, <1>2, <1>3, ThreadMoves
<1>5. RepliesShape'
  BY <1>1, <1>2, <1>4 DEF RepliesShape
<1>6. DayIsCounted'
  BY <1>1, <1>2, DayStays
<1>7. NotesAreTrue'
  <2>1. \A u \in Users : ~Noting(u)
    BY <1>2, <1>4 DEF Noting
  <2>2. \A s \in Threads : reply'[s].at = "idle"
    BY <1>3, <1>4
  <2>3. \A u \in Users : Known(u)' => given'[u] <= cooldown'.last[u]
    BY <1>1, <1>2, <2>1 DEF NotesAreTrue, Known
  <2> QED
    BY <1>1, <1>2, <2>2, <2>3 DEF NotesAreTrue
<1> QED
  BY <1>4, <1>5, <1>6, <1>7 DEF RepliesInv

\* The message reaches its user: nobody is reached twice but whom the notes do not know.
LEMMA ReachIsFair ==
    ASSUME RepliesInv, NEW t \in Threads, reply[t].at = "started", Reaches(reply[t].for)
    PROVE  /\ reply[t].for \in Users
           /\ given' = [given EXCEPT ![reply[t].for] = tick]
           /\ given' \in [Users -> Int] /\ \A u \in Users : given'[u] <= tick
           /\ again' \subseteq loose \cup {Nobody}
           /\ \A u \in Users : Known(u) => given[u] <= cooldown.last[u]
<1>1. RepliesShape /\ OneReplies /\ NotesAreTrue
  BY DEF RepliesInv
<1>2. reply[t].for \in Users /\ tick \in Nat /\ Cooldown \in Nat
  BY <1>1, RepliesTypes DEF RepliesShape
<1>3. \A u \in Users : given[u] \in Int /\ cooldown.last[u] \in Int
  BY <1>1 DEF RepliesShape
<1>4. given' = [given EXCEPT ![reply[t].for] = tick]
  BY DEF Reaches
<1>5. \A u \in Users : given'[u] = IF u = reply[t].for THEN tick ELSE given[u]
  BY <1>1, <1>4 DEF RepliesShape
<1>6. given' \in [Users -> Int]
  BY <1>1, <1>2, <1>4 DEF RepliesShape
<1>7. \A u \in Users : given'[u] <= tick
  BY <1>1, <1>2, <1>5 DEF RepliesShape
<1>8. \A u \in Users : ~Noting(u)
  BY <1>1 DEF Noting, OneReplies
<1>9. \A u \in Users : Known(u) => given[u] <= cooldown.last[u]
  BY <1>1, <1>8 DEF NotesAreTrue
<1>10. again' \subseteq loose \cup {Nobody}
  <2>1. CASE Known(reply[t].for)
    <3>1. reply[t].for # Nobody
      BY <2>1 DEF Known
    <3>2. tick - cooldown.last[reply[t].for] >= Cooldown
      BY <1>1, <3>1 DEF NotesAreTrue
    <3>3. ~(tick - given[reply[t].for] < Cooldown)
      BY <1>2, <1>3, <1>9, <2>1, <3>2
    <3> QED
      BY <1>1, <3>3 DEF Reaches, NotesAreTrue
  <2>2. CASE ~Known(reply[t].for)
    BY <1>1, <1>2, <2>2 DEF Known, Reaches, NotesAreTrue
  <2> QED
    BY <2>1, <2>2
<1> QED
  BY <1>2, <1>4, <1>6, <1>7, <1>9, <1>10

LEMMA AnsweredKeeps ==
    ASSUME RepliesInv, NEW t \in Threads, Answered(t)
    PROVE  RepliesInv'
<1>1. RepliesShape /\ OneReplies /\ DayIsCounted /\ NotesAreTrue
  BY DEF RepliesInv
<1> DEFINE r == [reply[t] EXCEPT !.at = "noting"]
<1>2. /\ reply[t].at = "started" /\ reply' = [reply EXCEPT ![t] = r]
      /\ UNCHANGED <<tick, cooldown, budget, circuit, loose, begun, slips>>
  BY DEF Answered
<1>3. /\ r \in [at : {"idle", "started", "noting"}, for : Users]
      /\ r.at = "noting" /\ r.for = reply[t].for
  BY <1>1 DEF RepliesShape
<1> HIDE DEF r
<1>4. /\ reply' \in [Threads -> [at : {"idle", "started", "noting"}, for : Users]]
      /\ OneReplies' /\ reply'[t] = r
      /\ \A s \in Threads \ {t} : reply'[s] = reply[s] /\ reply[s].at = "idle"
  BY <1>1, <1>2, <1>3, ThreadMoves
<1>5. /\ reply[t].for \in Users /\ given' = [given EXCEPT ![reply[t].for] = tick]
      /\ given' \in [Users -> Int] /\ \A u \in Users : given'[u] <= tick
      /\ again' \subseteq loose \cup {Nobody}
      /\ \A u \in Users : Known(u) => given[u] <= cooldown.last[u]
  BY <1>2, ReachIsFair DEF Answered
<1>6. RepliesShape'
  BY <1>1, <1>2, <1>4, <1>5 DEF RepliesShape
<1>7. DayIsCounted'
  BY <1>1, <1>2, DayStays
<1>8. NotesAreTrue'
  <2>1. ASSUME NEW u \in Users, Known(u)' PROVE (given[u] <= cooldown.last[u] \/ Noting(u))'
    <3>1. Known(u)
      BY <1>2, <2>1 DEF Known
    <3>2. CASE u = reply[t].for
      BY <1>3, <1>4, <3>2 DEF Noting
    <3>3. CASE u # reply[t].for
      <4>1. given'[u] = given[u]
        BY <1>1, <1>5, <3>3 DEF RepliesShape
      <4> QED
        BY <1>2, <1>5, <3>1, <4>1
    <3> QED
      BY <3>2, <3>3
  <2>2. \A s \in Threads : reply'[s].at # "started"
    BY <1>3, <1>4
  <2>3. again' \subseteq loose' \cup {Nobody}
    BY <1>2, <1>5
  <2> QED
    BY <2>1, <2>2, <2>3 DEF NotesAreTrue
<1> QED
  BY <1>4, <1>6, <1>7, <1>8 DEF RepliesInv

LEMMA FailedKeeps ==
    ASSUME RepliesInv, NEW t \in Threads, Failed(t)
    PROVE  RepliesInv'
<1>1. RepliesShape /\ OneReplies /\ DayIsCounted /\ NotesAreTrue
  BY DEF RepliesInv
<1>2. /\ reply[t].at = "started" /\ reply' = [reply EXCEPT ![t] = NoReply]
      /\ UNCHANGED <<tick, cooldown, budget, begun, slips>>
      /\ \/ UNCHANGED <<given, again, loose>>
         \/ Reaches(reply[t].for) /\ loose' = loose \cup {reply[t].for}
  BY DEF Failed
<1>3. /\ NoReply \in [at : {"idle", "started", "noting"}, for : Users] /\ NoReply.at = "idle"
  BY <1>1, RepliesTypes
<1>4. /\ reply' \in [Threads -> [at : {"idle", "started", "noting"}, for : Users]]
      /\ OneReplies' /\ reply'[t] = NoReply
      /\ \A s \in Threads \ {t} : reply'[s] = reply[s] /\ reply[s].at = "idle"
  BY <1>1, <1>2, <1>3, ThreadMoves
<1>5. \A s \in Threads : reply'[s].at = "idle"
  BY <1>3, <1>4
<1>6. DayIsCounted'
  BY <1>1, <1>2, DayStays
<1>7. \A u \in Users : Known(u) => given[u] <= cooldown.last[u]
  BY <1>1, <1>2, <1>4 DEF NotesAreTrue, Noting
<1>8. CASE UNCHANGED <<given, again, loose>>
  <2>1. RepliesShape'
    BY <1>1, <1>2, <1>4, <1>8 DEF RepliesShape
  <2>2. NotesAreTrue'
    BY <1>1, <1>2, <1>5, <1>7, <1>8 DEF NotesAreTrue, Known
  <2> QED
    BY <1>4, <1>6, <2>1, <2>2 DEF RepliesInv
<1>9. CASE Reaches(reply[t].for) /\ loose' = loose \cup {reply[t].for}
  <2>1. /\ reply[t].for \in Users /\ given' = [given EXCEPT ![reply[t].for] = tick]
        /\ given' \in [Users -> Int] /\ \A u \in Users : given'[u] <= tick
        /\ again' \subseteq loose \cup {Nobody}
    BY <1>2, <1>9, ReachIsFair
  <2>2. RepliesShape'
    BY <1>1, <1>2, <1>4, <2>1 DEF RepliesShape
  <2>3. ASSUME NEW u \in Users, Known(u)' PROVE given'[u] <= cooldown'.last[u]
    <3>1. Known(u) /\ u # reply[t].for
      BY <1>9, <2>3 DEF Known
    <3>2. given'[u] = given[u]
      BY <1>1, <2>1, <3>1 DEF RepliesShape
    <3> QED
      BY <1>2, <1>7, <3>1, <3>2
  <2>4. NotesAreTrue'
    BY <1>5, <1>9, <2>1, <2>3 DEF NotesAreTrue
  <2> QED
    BY <1>4, <1>6, <2>2, <2>4 DEF RepliesInv
<1> QED
  BY <1>2, <1>8, <1>9

\* The note of a reply; a file that cannot be read is started anew, and those it knew of
\* are loose.
LEMMA NotesKeeps ==
    ASSUME RepliesInv, NEW t \in Threads, Notes(t)
    PROVE  RepliesInv'
<1>1. RepliesShape /\ OneReplies /\ DayIsCounted /\ NotesAreTrue
  BY DEF RepliesInv
<1> DEFINE u == reply[t].for
<1>2. /\ reply[t].at = "noting" /\ reply' = [reply EXCEPT ![t] = NoReply]
      /\ cooldown' = IF u = Nobody THEN cooldown
                     ELSE IF cooldown.whole THEN [cooldown EXCEPT !.last[u] = tick]
                     ELSE [EmptyNotes EXCEPT !.last[u] = tick]
      /\ loose' = IF cooldown.whole \/ u = Nobody THEN loose ELSE loose \cup (Users \ {u})
      /\ UNCHANGED <<tick, budget, given, again, begun, slips>>
  BY DEF Notes
<1>3. /\ NoReply \in [at : {"idle", "started", "noting"}, for : Users] /\ NoReply.at = "idle"
      /\ tick \in Nat /\ Cooldown \in Nat /\ u \in Users
  BY <1>1, RepliesTypes DEF RepliesShape
<1>4. /\ reply' \in [Threads -> [at : {"idle", "started", "noting"}, for : Users]]
      /\ OneReplies' /\ reply'[t] = NoReply
      /\ \A s \in Threads \ {t} : reply'[s] = reply[s] /\ reply[s].at = "idle"
  BY <1>1, <1>2, <1>3, ThreadMoves
<1>5. \A s \in Threads : reply'[s].at = "idle"
  BY <1>3, <1>4
<1>6. EmptyNotes \in [whole : BOOLEAN, last : [Users -> Int]]
  BY <1>3 DEF EmptyNotes, Never
<1>7. /\ cooldown' \in [whole : BOOLEAN, last : [Users -> Int]]
      /\ u # Nobody => cooldown'.last[u] = tick
      /\ \A v \in Users : u = Nobody \/ (cooldown.whole /\ v # u)
                             => cooldown'.last[v] = cooldown.last[v]
  <2>1. CASE u = Nobody
    BY <1>1, <1>2, <2>1 DEF RepliesShape
  <2>2. CASE u # Nobody /\ cooldown.whole
    BY <1>1, <1>2, <1>3, <2>2 DEF RepliesShape
  <2>3. CASE u # Nobody /\ ~cooldown.whole
    BY <1>1, <1>2, <1>3, <1>6, <2>3 DEF RepliesShape
  <2> QED
    BY <2>1, <2>2, <2>3
<1>8. RepliesShape'
  BY <1>1, <1>2, <1>4, <1>7 DEF RepliesShape
<1>9. DayIsCounted'
  BY <1>1, <1>2, DayStays
<1>10. ASSUME NEW v \in Users, Known(v)' PROVE given'[v] <= cooldown'.last[v]
  <2>1. Known(v) /\ v # Nobody
    BY <1>2, <1>10 DEF Known
  <2>2. CASE v = u
    BY <1>1, <1>2, <1>7, <2>1, <2>2 DEF RepliesShape
  <2>3. CASE v # u
    <3>1. u = Nobody \/ (cooldown.whole /\ v # u)
      BY <1>2, <1>3, <1>10, <2>3 DEF Known
    <3>2. ~Noting(v)
      BY <1>4, <2>3 DEF Noting
    <3> QED
      BY <1>1, <1>2, <1>7, <2>1, <3>1, <3>2 DEF NotesAreTrue
  <2> QED
    BY <2>2, <2>3
<1>11. again' \subseteq loose' \cup {Nobody}
  BY <1>1, <1>2 DEF NotesAreTrue
<1> QED
  BY <1>4, <1>5, <1>8, <1>9, <1>10, <1>11 DEF RepliesInv, NotesAreTrue

\* The note that fails, and the death of the process: who was to be noted is loose.
LEMMA LossKeeps ==
    ASSUME RepliesInv, Reborn \/ \E t \in Threads : NoteFails(t)
    PROVE  RepliesInv'
<1>1. RepliesShape /\ OneReplies /\ DayIsCounted /\ NotesAreTrue
  BY DEF RepliesInv
<1>2. NoReply \in [at : {"idle", "started", "noting"}, for : Users] /\ NoReply.at = "idle"
  BY <1>1, RepliesTypes
<1>3. slips' \in 0..MaxSlips
  <2>1. slips < MaxSlips /\ slips' = slips + 1
    BY DEF Reborn, NoteFails, Slip
  <2> QED
    BY <1>1, <2>1, RepliesAssumption DEF RepliesShape
<1>4. /\ reply' \in [Threads -> [at : {"idle", "started", "noting"}, for : Users]]
      /\ \A s \in Threads : reply'[s].at = "idle"
      /\ \A u \in Users : Noting(u) => u \in loose'
      /\ loose \subseteq loose'
      /\ UNCHANGED <<tick, cooldown, budget, given, again, begun>>
  <2>1. CASE Reborn
    BY <1>2, <2>1 DEF Reborn, Noting
  <2>2. ASSUME NEW t \in Threads, NoteFails(t)
        PROVE  /\ reply' \in [Threads -> [at : {"idle", "started", "noting"}, for : Users]]
               /\ \A s \in Threads : reply'[s].at = "idle"
               /\ \A u \in Users : Noting(u) => u \in loose'
               /\ loose \subseteq loose'
               /\ UNCHANGED <<tick, cooldown, budget, given, again, begun>>
    <3>1. /\ reply[t].at = "noting" /\ loose' = loose \cup {reply[t].for}
          /\ reply' = [reply EXCEPT ![t] = NoReply]
          /\ UNCHANGED <<tick, cooldown, budget, given, again, begun>>
      BY <2>2 DEF NoteFails
    <3>2. /\ reply' \in [Threads -> [at : {"idle", "started", "noting"}, for : Users]]
          /\ reply'[t] = NoReply
          /\ \A s \in Threads \ {t} : reply'[s] = reply[s] /\ reply[s].at = "idle"
      BY <1>1, <1>2, <3>1, ThreadMoves
    <3> QED
      BY <1>2, <3>1, <3>2 DEF Noting
  <2> QED
    BY <2>1, <2>2
<1>5. RepliesShape' /\ OneReplies'
  BY <1>1, <1>3, <1>4 DEF RepliesShape, OneReplies
<1>6. DayIsCounted'
  BY <1>1, <1>4, DayStays
<1>7. NotesAreTrue'
  <2>1. ASSUME NEW u \in Users, Known(u)' PROVE given'[u] <= cooldown'.last[u]
    BY <1>1, <1>4, <2>1 DEF NotesAreTrue, Known
  <2> QED
    BY <1>1, <1>4, <2>1 DEF NotesAreTrue
<1> QED
  BY <1>5, <1>6, <1>7 DEF RepliesInv

LEMMA DamageKeeps ==
    ASSUME RepliesInv, Damaged
    PROVE  RepliesInv'
<1>1. RepliesShape /\ OneReplies /\ DayIsCounted /\ NotesAreTrue
  BY DEF RepliesInv
<1>2. /\ slips < MaxSlips /\ slips' = slips + 1
      /\ \/ cooldown' = [cooldown EXCEPT !.whole = FALSE] /\ UNCHANGED budget
         \/ budget' = [budget EXCEPT !.whole = FALSE] /\ UNCHANGED cooldown
      /\ UNCHANGED <<tick, reply, circuit, given, again, loose, begun>>
  BY DEF Damaged, Slip
<1>3. /\ cooldown' \in [whole : BOOLEAN, last : [Users -> Int]] /\ cooldown'.last = cooldown.last
      /\ budget' \in [whole : BOOLEAN, day : Nat, n : Nat]
      /\ budget'.day = budget.day /\ budget'.n = budget.n
  BY <1>1, <1>2 DEF RepliesShape
<1>4. slips' \in 0..MaxSlips
  BY <1>1, <1>2, RepliesAssumption DEF RepliesShape
<1>5. RepliesShape' /\ OneReplies'
  BY <1>1, <1>2, <1>3, <1>4 DEF RepliesShape, OneReplies
<1>6. DayIsCounted'
  BY <1>1, <1>2, <1>3 DEF DayIsCounted, Today, Used
<1>7. NotesAreTrue'
  BY <1>1, <1>2, <1>3 DEF NotesAreTrue, Known, Noting
<1> QED
  BY <1>5, <1>6, <1>7 DEF RepliesInv

LEMMA TodayIsADay == RepliesShape => Today \in Days /\ Used \in Nat
BY RepliesTypes

\* Time goes by; a day that begins has begun no reply.
LEMMA LaterKeeps ==
    ASSUME RepliesInv, Later
    PROVE  RepliesInv'
<1>1. RepliesShape /\ OneReplies /\ DayIsCounted /\ NotesAreTrue
  BY DEF RepliesInv
<1>2. /\ tick < LastTick /\ tick' = tick + 1
      /\ UNCHANGED <<reply, cooldown, budget, circuit, given, again, loose, begun, slips>>
  BY DEF Later
<1>3. /\ tick \in Nat /\ LastTick \in Nat /\ Cooldown \in Nat /\ Used \in Nat
      /\ Today \in Nat /\ Days \subseteq Nat
  BY <1>1, RepliesTypes
<1>4. RepliesShape'
  <2>1. tick' \in 0..LastTick
    BY <1>2, <1>3
  <2>2. \A u \in Users : given[u] <= tick'
    BY <1>1, <1>2, <1>3 DEF RepliesShape
  <2> QED
    BY <1>1, <1>2, <2>1, <2>2 DEF RepliesShape
<1>5. Today' \in Days /\ Today <= Today' /\ Used' \in Nat
  <2>1. Today' \in Days /\ Used' \in Nat
    <3>1. (RepliesShape => Today \in Days /\ Used \in Nat)'
      BY TodayIsADay, PTL
    <3> QED
      BY <1>4, <3>1
  <2>2. Today <= Today'
    BY <1>2, <1>3, DivGrows, RepliesAssumption DEF Today
  <2> QED
    BY <2>1, <2>2
<1>6. DayIsCounted'
  <2>1. \A d \in Days : begun'[d] <= Budget /\ (d > Today' => begun'[d] = 0)
    BY <1>1, <1>2, <1>3, <1>5 DEF DayIsCounted
  <2>2. begun'[Today'] <= Used'
    <3>1. CASE Today' = Today
      BY <1>1, <1>2, <3>1 DEF DayIsCounted, Used
    <3>2. CASE Today' # Today
      <4>1. Today' > Today
        BY <1>3, <1>5, <3>2
      <4>2. begun'[Today'] = 0
        BY <1>1, <1>2, <1>5, <4>1 DEF DayIsCounted
      <4> QED
        BY <1>5, <4>2
    <3> QED
      BY <3>1, <3>2
  <2> QED
    BY <2>1, <2>2 DEF DayIsCounted
<1>7. NotesAreTrue'
  <2>1. ASSUME NEW t \in Threads, reply'[t].at = "started", reply'[t].for # Nobody
        PROVE  tick' - cooldown'.last[reply'[t].for] >= Cooldown
    <3>1. cooldown.last[reply[t].for] \in Int
      BY <1>1 DEF RepliesShape
    <3>2. tick - cooldown.last[reply[t].for] >= Cooldown
      BY <1>1, <1>2, <2>1 DEF NotesAreTrue
    <3> QED
      BY <1>2, <1>3, <3>1, <3>2
  <2> QED
    BY <1>1, <1>2, <2>1 DEF NotesAreTrue, Known, Noting
<1> QED
  BY <1>1, <1>2, <1>4, <1>6, <1>7 DEF RepliesInv, OneReplies

LEMMA RepliesStart == RepliesInit => RepliesInv
<1> SUFFICES ASSUME RepliesInit PROVE RepliesInv
  OBVIOUS
<1>1. /\ tick = 0 /\ reply = [t \in Threads |-> NoReply]
      /\ cooldown = EmptyNotes /\ budget = EmptyBudget
      /\ given = [u \in Users |-> Never] /\ again = {} /\ loose = {}
      /\ begun = [d \in Days |-> 0] /\ slips = 0
  BY DEF RepliesInit
<1>2. /\ LastTick \in Nat /\ MaxSlips \in Nat /\ Cooldown \in Nat /\ Budget \in Nat
      /\ Never \in Int /\ Never <= 0
  BY RepliesAssumption DEF Never
<1>3. RepliesShape
  BY <1>1, <1>2, RepliesAssumption DEF RepliesShape, NoReply, EmptyNotes, EmptyBudget
<1>4. Today \in Days /\ Used \in Nat /\ Days \subseteq Nat
  BY <1>3, RepliesTypes
<1>5. DayIsCounted
  BY <1>1, <1>2, <1>4 DEF DayIsCounted
<1>6. OneReplies
  BY <1>1 DEF OneReplies, NoReply
<1>7. NotesAreTrue
  <2>1. \A u \in Users : given[u] <= cooldown.last[u]
    BY <1>1, <1>2 DEF EmptyNotes
  <2> QED
    BY <1>1, <2>1 DEF NotesAreTrue, NoReply
<1> QED
  BY <1>3, <1>5, <1>6, <1>7 DEF RepliesInv

LEMMA RepliesGoOn ==
    ASSUME RepliesInv, [RepliesNext]_repliesVars
    PROVE  RepliesInv'
<1>1. ASSUME NEW t \in Threads, NEW u \in Users, Passes(t, u) PROVE RepliesInv'
  BY <1>1, PassesKeeps
<1>2. ASSUME NEW t \in Threads, Fenced(t) \/ Answered(t) \/ Failed(t) \/ Notes(t) \/ NoteFails(t)
      PROVE  RepliesInv'
  BY <1>2, FencedKeeps, AnsweredKeeps, FailedKeeps, NotesKeeps, LossKeeps
<1>3. CASE Damaged \/ Reborn \/ Later
  BY <1>3, DamageKeeps, LossKeeps, LaterKeeps
<1>4. CASE CircuitCloses \/ UNCHANGED repliesVars
  BY <1>4 DEF CircuitCloses, repliesVars, RepliesInv, RepliesShape, OneReplies, DayIsCounted,
     Today, Used, NotesAreTrue, Known, Noting
<1> QED
  BY <1>1, <1>2, <1>3, <1>4 DEF RepliesNext

\* Whatever threads, crashes and damaged files do: a day begins no more private replies
\* than its budget, and a commenter gets two within a cooldown only where the first was
\* not noted (comment_safety_guard under REPLY_LOCK).
THEOREM RepliesAreRareHolds == RepliesSpec => []RepliesAreRare
<1>1. RepliesInv => RepliesAreRare
  BY DEF RepliesInv, RepliesShape, DayIsCounted, NotesAreTrue, RepliesAreRare, BudgetHolds,
     NobodyIsPestered
<1> QED
  BY <1>1, RepliesStart, RepliesGoOn, PTL DEF RepliesSpec

-----------------------------------------------------------------------------
(* The two watchers.  What the AdsPower job believes is what it is about to *)
(* write, or else its file; a message that would repeat the last one takes  *)
(* a belief that a mishap has made wrong.                                   *)

Notes0 == [fails : 0..FailThreshold, alerted : BOOLEAN]

Belief == IF job.on THEN job.write ELSE state

\* An outage that has lasted as long as the threshold is one that was told.
Alerts(s) == s.fails >= FailThreshold => s.alerted

Wrong(b, t) == IF (b.alerted /\ t = "up") \/ (~b.alerted /\ t = "down") THEN 1 ELSE 0

JobInv ==
    /\ ads \in BOOLEAN /\ state \in Notes0 /\ job \in [on : BOOLEAN, write : Notes0]
    /\ told \in {"nothing", "up", "down"} /\ repeats \in Nat /\ streak \in 0..FailThreshold
    /\ Alerts(state) /\ Alerts(job.write)
    /\ streak <= Belief.fails
    /\ state.alerted => told # "nothing"
    /\ Belief.alerted => told = "down" \/ (told = "up" /\ state.alerted)
    /\ repeats + Wrong(Belief, told) <= mishaps

\* A silence is as long as the log is old, until it is stale, and as long as the last
\* alarm, until that is forgotten.
DogInv ==
    /\ watchdog \in BOOLEAN /\ line \in 0..(Stale + 1) /\ stamp \in 0..Suppress
    /\ silence \in Nat /\ missed \in Nat
    /\ watchdog => silence = 0 /\ line = 0
    /\ silence <= line \/ line = Stale + 1
    /\ silence <= stamp \/ stamp = Suppress
    /\ DeadDogIsTold

HealthInv == JobInv /\ DogInv /\ mishaps \in 0..MaxMishaps

LEMMA FreshNote ==
    /\ Fresh \in Notes0 /\ Fresh.fails = 0 /\ Fresh.alerted = FALSE /\ Alerts(Fresh)
    /\ FailThreshold \in Nat /\ FailThreshold >= 1
    /\ NoJob.on = FALSE /\ NoJob.write = Fresh /\ NoJob \in [on : BOOLEAN, write : Notes0]
<1>1. FailThreshold \in Nat /\ FailThreshold >= 1
  BY HealthAssumption
<1>2. Fresh \in Notes0 /\ Fresh.fails = 0 /\ Fresh.alerted = FALSE
  BY <1>1 DEF Fresh, Notes0
<1>3. Alerts(Fresh)
  BY <1>1, <1>2 DEF Alerts
<1>4. NoJob.on = FALSE /\ NoJob.write = Fresh /\ NoJob \in [on : BOOLEAN, write : Notes0]
  BY <1>2 DEF NoJob
<1> QED
  BY <1>1, <1>2, <1>3, <1>4

\* One run of the job, whatever it has read: what it believes then, what it has told.
LEMMA JobRunIs ==
    ASSUME NEW read \in Notes0, NEW before \in 0..FailThreshold, Alerts(read),
           told \in {"nothing", "up", "down"}, repeats \in Nat, before <= read.fails,
           JobRuns(read, before)
    PROVE  /\ ~job.on /\ job'.on = TRUE /\ job' \in [on : BOOLEAN, write : Notes0]
           /\ Alerts(job'.write) /\ streak' \in 0..FailThreshold /\ streak' <= job'.write.fails
           /\ told' \in {"nothing", "up", "down"} /\ repeats' \in Nat
           /\ told # "nothing" => told' # "nothing"
           /\ job'.write.alerted => \/ told' = "down"
                                    \/ told' = told /\ read.alerted
           /\ repeats' + Wrong(job'.write, told') <= repeats + Wrong(read, told)
<1>1. /\ FailThreshold \in Nat /\ FailThreshold >= 1 /\ Fresh \in Notes0 /\ Fresh.fails = 0
      /\ Fresh.alerted = FALSE /\ Alerts(Fresh)
  BY FreshNote
<1>2. read.fails \in 0..FailThreshold /\ read.alerted \in BOOLEAN
  BY DEF Notes0
<1>3. CASE ads
  <2>1. /\ ~job.on /\ streak' = 0 /\ job' = [on |-> TRUE, write |-> Fresh]
        /\ IF read.alerted THEN Says("up") ELSE Quiet
    BY <1>3 DEF JobRuns
  <2>2. job'.on = TRUE /\ job'.write = Fresh /\ job' \in [on : BOOLEAN, write : Notes0]
    BY <1>1, <2>1
  <2>3. CASE read.alerted
    <3>1. told' = "up" /\ repeats' = IF told = "up" THEN repeats + 1 ELSE repeats
      BY <2>1, <2>3 DEF Says
    <3>2. repeats' + Wrong(job'.write, told') <= repeats + Wrong(read, told)
      BY <1>1, <2>2, <2>3, <3>1 DEF Wrong
    <3> QED
      BY <1>1, <2>1, <2>2, <3>1, <3>2
  <2>4. CASE ~read.alerted
    <3>1. told' = told /\ repeats' = repeats
      BY <2>1, <2>4 DEF Quiet
    <3>2. repeats' + Wrong(job'.write, told') <= repeats + Wrong(read, told)
      BY <1>1, <2>2, <2>4, <3>1 DEF Wrong
    <3> QED
      BY <1>1, <2>1, <2>2, <3>1, <3>2
  <2> QED
    BY <2>3, <2>4
<1>4. CASE ~ads
  <2> DEFINE over == OverThreshold(read.fails + 1, read.alerted)
             w == [fails |-> IF read.fails + 1 > FailThreshold THEN FailThreshold
                             ELSE read.fails + 1,
                   alerted |-> read.alerted \/ over]
  <2>1. /\ ~job.on /\ streak' = Older(before, FailThreshold)
        /\ job' = [on |-> TRUE, write |-> w]
        /\ IF over THEN Says("down") ELSE Quiet
    BY <1>4 DEF JobRuns
  <2>2. over \in BOOLEAN /\ (over <=> read.fails + 1 >= FailThreshold /\ ~read.alerted)
    BY DEF OverThreshold
  <2>3. (read.alerted \/ over) \in BOOLEAN
    OBVIOUS
  <2>4. (IF read.fails + 1 > FailThreshold THEN FailThreshold ELSE read.fails + 1)
            \in 0..FailThreshold
    BY <1>1, <1>2
  <2>5. /\ w \in Notes0 /\ (w.alerted <=> read.alerted \/ over)
        /\ w.fails = IF read.fails + 1 > FailThreshold THEN FailThreshold ELSE read.fails + 1
    BY <2>3, <2>4 DEF Notes0
  <2> HIDE DEF w, over
  <2>6. job'.on = TRUE /\ job'.write = w /\ job' \in [on : BOOLEAN, write : Notes0]
    BY <2>1, <2>5
  <2>7. Alerts(w)
    BY <1>1, <1>2, <2>2, <2>5 DEF Alerts
  <2>8. streak' \in 0..FailThreshold /\ streak' <= w.fails
    BY <1>1, <1>2, <2>1, <2>5 DEF Older
  <2>9. CASE over
    <3>1. told' = "down" /\ repeats' = IF told = "down" THEN repeats + 1 ELSE repeats
      BY <2>1, <2>9 DEF Says
    <3>2. w.alerted /\ ~read.alerted
      BY <2>2, <2>5, <2>9
    <3>3. repeats' + Wrong(job'.write, told') <= repeats + Wrong(read, told)
      BY <2>6, <3>1, <3>2 DEF Wrong
    <3> QED
      BY <2>1, <2>6, <2>7, <2>8, <3>1, <3>3
  <2>10. CASE ~over
    <3>1. told' = told /\ repeats' = repeats
      BY <2>1, <2>10 DEF Quiet
    <3>2. w.alerted <=> read.alerted
      BY <2>5, <2>10
    <3>3. repeats' + Wrong(job'.write, told') <= repeats + Wrong(read, told)
      BY <2>6, <3>1, <3>2 DEF Wrong
    <3> QED
      BY <2>1, <2>6, <2>7, <2>8, <3>1, <3>2, <3>3
  <2> QED
    BY <2>9, <2>10
<1> QED
  BY <1>3, <1>4 DEF JobRuns

LEMMA RunsKeep ==
    ASSUME HealthInv, RunsWithState \/ RunsWithout
    PROVE  HealthInv'
<1>1. JobInv /\ DogInv /\ mishaps \in Nat /\ MaxMishaps \in Nat /\ mishaps <= MaxMishaps
  BY HealthAssumption DEF HealthInv
<1>2. /\ Fresh \in Notes0 /\ Fresh.fails = 0 /\ Fresh.alerted = FALSE /\ Alerts(Fresh)
      /\ FailThreshold \in Nat
  BY FreshNote
<1>3. PICK read \in Notes0, before \in 0..FailThreshold :
         /\ Alerts(read) /\ JobRuns(read, before) /\ before <= read.fails
         /\ UNCHANGED <<ads, state, dogVars>>
         /\ \/ read = state /\ mishaps' = mishaps
            \/ read = Fresh /\ mishaps' = mishaps + 1 /\ mishaps < MaxMishaps
         /\ read.alerted => state.alerted /\ read = state
  <2>1. CASE RunsWithState
    <3>1. /\ JobRuns(state, streak) /\ UNCHANGED <<ads, state, mishaps, dogVars>>
      BY <2>1 DEF RunsWithState
    <3>2. Belief = state
      BY <3>1 DEF JobRuns, Belief
    <3> QED
      BY <1>1, <3>1, <3>2 DEF JobInv
  <2>2. CASE RunsWithout
    <3>1. /\ JobRuns(Fresh, 0) /\ UNCHANGED <<ads, state, dogVars>>
          /\ mishaps' = mishaps + 1 /\ mishaps < MaxMishaps
      BY <2>2 DEF RunsWithout, Mishap
    <3>2. 0 \in 0..FailThreshold
      BY <1>2
    <3> QED
      BY <1>2, <3>1, <3>2
  <2> QED
    BY <2>1, <2>2
<1>4. /\ ~job.on /\ job'.on = TRUE /\ job' \in [on : BOOLEAN, write : Notes0]
      /\ Alerts(job'.write) /\ streak' \in 0..FailThreshold /\ streak' <= job'.write.fails
      /\ told' \in {"nothing", "up", "down"} /\ repeats' \in Nat
      /\ told # "nothing" => told' # "nothing"
      /\ job'.write.alerted => \/ told' = "down"
                               \/ told' = told /\ read.alerted
      /\ repeats' + Wrong(job'.write, told') <= repeats + Wrong(read, told)
  BY <1>1, <1>3, JobRunIs DEF JobInv
<1>5. Belief = state /\ Belief' = job'.write
  BY <1>4 DEF Belief
<1>6. repeats + Wrong(read, told) <= mishaps'
  <2>1. repeats + Wrong(state, told) <= mishaps
    BY <1>1, <1>5 DEF JobInv
  <2>2. Wrong(read, told) \in 0..1 /\ Wrong(state, told) \in 0..1 /\ repeats \in Nat
    BY <1>1 DEF Wrong, JobInv
  <2> QED
    BY <1>1, <1>3, <2>1, <2>2
<1>7. job'.write.alerted => told' = "down" \/ (told' = "up" /\ state'.alerted)
  BY <1>1, <1>3, <1>4, <1>5 DEF JobInv
<1>8. repeats' + Wrong(Belief', told') <= mishaps'
  <2>1. Wrong(Belief', told') = Wrong(job'.write, told')
    BY <1>5 DEF Wrong
  <2>2. Wrong(read, told) \in Nat /\ Wrong(Belief', told') \in Nat /\ repeats \in Nat /\ mishaps' \in Nat
    BY <1>1, <1>3 DEF Wrong, JobInv
  <2> QED
    BY <1>4, <1>6, <2>1, <2>2
<1>9. JobInv'
  BY <1>1, <1>3, <1>4, <1>5, <1>7, <1>8 DEF JobInv, Alerts
<1>10. DogInv'
  BY <1>1, <1>3 DEF DogInv, DeadDogIsTold, dogVars
<1>11. mishaps' \in 0..MaxMishaps
  BY <1>1, <1>3
<1> QED
  BY <1>9, <1>10, <1>11 DEF HealthInv

LEMMA JobEndKeeps ==
    ASSUME HealthInv, JobWrites \/ JobBreaks \/ AdsChanges
    PROVE  HealthInv'
<1>1. JobInv /\ DogInv /\ mishaps \in Nat /\ MaxMishaps \in Nat /\ mishaps <= MaxMishaps
  BY HealthAssumption DEF HealthInv
<1>2. /\ FailThreshold \in Nat /\ NoJob.on = FALSE /\ NoJob.write = Fresh /\ Alerts(Fresh)
      /\ NoJob \in [on : BOOLEAN, write : Notes0]
  BY FreshNote
<1>3. DogInv'
  <2>1. UNCHANGED dogVars
    BY DEF JobWrites, JobBreaks, AdsChanges
  <2> QED
    BY <1>1, <2>1 DEF DogInv, DeadDogIsTold, dogVars
<1>4. CASE JobWrites
  <2>1. /\ job.on /\ state' = job.write /\ job' = NoJob
        /\ UNCHANGED <<ads, told, repeats, streak, mishaps>>
    BY <1>4 DEF JobWrites
  <2>2. Belief = job.write /\ Belief' = job.write
    BY <1>2, <2>1 DEF Belief
  <2>3. Alerts(state') /\ Alerts(job'.write) /\ state' \in Notes0
    BY <1>1, <1>2, <2>1 DEF JobInv
  <2>4. /\ state'.alerted => told # "nothing"
        /\ Belief'.alerted => told = "down" \/ (told = "up" /\ state'.alerted)
    BY <1>1, <2>1, <2>2 DEF JobInv
  <2>5. JobInv'
    BY <1>1, <1>2, <2>1, <2>2, <2>3, <2>4 DEF JobInv, Alerts
  <2> QED
    BY <1>1, <1>3, <2>1, <2>5 DEF HealthInv
<1>5. CASE JobBreaks
  <2>1. /\ mishaps < MaxMishaps /\ mishaps' = mishaps + 1
        /\ job.on /\ job' = NoJob /\ streak' = 0
        /\ UNCHANGED <<ads, state, told, repeats>>
    BY <1>5 DEF JobBreaks, Mishap
  <2>2. Belief' = state
    BY <1>2, <2>1 DEF Belief
  <2>3. state.fails \in 0..FailThreshold
    BY <1>1 DEF JobInv, Notes0
  <2>4. repeats + Wrong(state, told) <= mishaps'
    <3>1. repeats <= mishaps /\ repeats \in Nat
      BY <1>1 DEF JobInv, Wrong
    <3> QED
      BY <1>1, <2>1, <3>1 DEF Wrong
  <2>5. state.alerted => told = "down" \/ (told = "up" /\ state.alerted)
    BY <1>1 DEF JobInv
  <2>6. JobInv'
    BY <1>1, <1>2, <2>1, <2>2, <2>3, <2>4, <2>5 DEF JobInv, Alerts
  <2>7. mishaps' \in 0..MaxMishaps
    BY <1>1, <2>1
  <2> QED
    BY <1>3, <2>6, <2>7 DEF HealthInv
<1>6. CASE AdsChanges
  <2>1. ads' \in BOOLEAN /\ UNCHANGED <<state, job, told, repeats, streak, mishaps>>
    BY <1>1, <1>6 DEF AdsChanges
  <2>2. Belief' = Belief
    BY <2>1 DEF Belief
  <2>3. JobInv'
    BY <1>1, <2>1, <2>2 DEF JobInv, Alerts
  <2> QED
    BY <1>1, <1>3, <2>1, <2>3 DEF HealthInv
<1> QED
  BY <1>4, <1>5, <1>6

LEMMA TicksKeep ==
    ASSUME HealthInv, Ticks
    PROVE  HealthInv'
<1> DEFINE age   == IF watchdog THEN 0 ELSE Older(line, Stale + 1)
           since == Older(stamp, Suppress)
<1>1. JobInv /\ DogInv /\ mishaps \in Nat /\ MaxMishaps \in Nat /\ mishaps <= MaxMishaps
      /\ Stale \in Nat /\ Suppress \in Nat
  BY HealthAssumption DEF HealthInv
<1>2. /\ line' = age
      /\ \/ /\ stamp' \in Noted(age, since)
            /\ silence' = IF watchdog \/ Alarm(age, since) THEN 0 ELSE silence + 1
            /\ UNCHANGED <<missed, mishaps>>
         \/ /\ mishaps < MaxMishaps /\ mishaps' = mishaps + 1 /\ stamp' = since
            /\ silence' = IF watchdog THEN 0 ELSE silence + 1
            /\ missed' = missed + 1
      /\ UNCHANGED <<watchdog, adsVars>>
  BY DEF Ticks, Mishap
<1>3. /\ watchdog \in BOOLEAN /\ line \in 0..(Stale + 1) /\ stamp \in 0..Suppress
      /\ silence \in Nat /\ missed \in Nat
  BY <1>1 DEF DogInv
<1>4. /\ age \in 0..(Stale + 1) /\ since \in 0..Suppress
      /\ age = IF watchdog THEN 0 ELSE IF line < Stale + 1 THEN line + 1 ELSE Stale + 1
      /\ since = IF stamp < Suppress THEN stamp + 1 ELSE Suppress
  BY <1>1, <1>3 DEF Older
<1> HIDE DEF age, since
<1>5. JobInv'
  <2>1. mishaps' >= mishaps /\ mishaps' \in Nat
    BY <1>1, <1>2
  <2>2. Wrong(Belief, told) \in Nat /\ repeats \in Nat /\ repeats + Wrong(Belief, told) <= mishaps
    BY <1>1 DEF JobInv, Wrong
  <2>3. repeats + Wrong(Belief, told) <= mishaps'
    BY <1>1, <2>1, <2>2
  <2>4. Belief' = Belief /\ UNCHANGED <<ads, state, job, told, repeats, streak>>
    BY <1>2 DEF Belief, adsVars
  <2> QED
    BY <1>1, <2>3, <2>4 DEF JobInv, Alerts
<1>6. mishaps' \in 0..MaxMishaps
  BY <1>1, <1>2
<1>7. stamp' \in {0, since} /\ (stamp' = since \/ Alarm(age, since))
  BY <1>2 DEF Noted
<1>8. /\ silence <= line \/ line = Stale + 1
      /\ silence <= stamp \/ stamp = Suppress
      /\ silence <= missed + (IF Stale < Suppress THEN Suppress ELSE Stale)
      /\ watchdog => silence = 0 /\ line = 0
  BY <1>1 DEF DogInv, DeadDogIsTold
<1>9. /\ stamp' \in 0..Suppress /\ silence' \in Nat /\ missed' \in Nat
      /\ line' \in 0..(Stale + 1)
  BY <1>1, <1>2, <1>3, <1>4, <1>7
<1>10. CASE silence' = 0
  <2>0. (IF Stale < Suppress THEN Suppress ELSE Stale) \in Nat
    BY <1>1
  <2>1. DeadDogIsTold'
    <3>1. silence' <= missed' + (IF Stale < Suppress THEN Suppress ELSE Stale)
      BY <1>9, <1>10, <2>0
    <3> QED
      BY <3>1 DEF DeadDogIsTold
  <2>2. DogInv'
    BY <1>1, <1>2, <1>3, <1>4, <1>9, <1>10, <2>1 DEF DogInv
  <2> QED
    BY <1>5, <1>6, <2>2 DEF HealthInv
<1>11. CASE silence' # 0
  <2>1. ~watchdog /\ silence' = silence + 1
    BY <1>2, <1>11
  <2>2. stamp' = since
    BY <1>2, <1>7, <1>11
  <2>3. silence' <= line' \/ line' = Stale + 1
    BY <1>1, <1>2, <1>3, <1>4, <1>8, <2>1
  <2>4. silence' <= stamp' \/ stamp' = Suppress
    BY <1>1, <1>3, <1>4, <1>8, <2>1, <2>2
  <2>5. DeadDogIsTold'
    <3>1. CASE missed' = missed + 1
      BY <1>1, <1>3, <1>8, <2>1, <3>1 DEF DeadDogIsTold
    <3>2. CASE missed' # missed + 1
      <4>1. ~Alarm(age, since) /\ missed' = missed
        BY <1>2, <1>11, <3>2
      <4>2. age <= Stale \/ since < Suppress
        BY <1>1, <1>4, <4>1 DEF Alarm
      <4>3. silence' <= Stale \/ silence' <= Suppress
        BY <1>1, <1>2, <1>4, <1>9, <2>2, <2>3, <2>4, <4>2
      <4> QED
        BY <1>1, <1>3, <1>9, <4>1, <4>3 DEF DeadDogIsTold
    <3> QED
      BY <3>1, <3>2
  <2>6. DogInv'
    BY <1>2, <1>3, <1>9, <2>1, <2>3, <2>4, <2>5 DEF DogInv
  <2> QED
    BY <1>5, <1>6, <2>6 DEF HealthInv
<1> QED
  BY <1>10, <1>11

LEMMA DogChangeKeeps ==
    ASSUME HealthInv, WatchdogChanges
    PROVE  HealthInv'
<1>1. JobInv /\ DogInv /\ mishaps \in Nat /\ MaxMishaps \in Nat /\ mishaps <= MaxMishaps
      /\ Stale \in Nat /\ Suppress \in Nat
  BY HealthAssumption DEF HealthInv
<1>2. /\ mishaps < MaxMishaps /\ mishaps' = mishaps + 1
      /\ watchdog' = ~watchdog /\ silence' = 0
      /\ line' = IF watchdog' THEN 0 ELSE line
      /\ UNCHANGED <<stamp, missed, adsVars>>
  BY DEF WatchdogChanges, Mishap
<1>3. /\ watchdog' \in BOOLEAN /\ line' \in 0..(Stale + 1) /\ stamp' \in 0..Suppress
      /\ missed' \in Nat /\ (watchdog' => line' = 0)
  BY <1>1, <1>2 DEF DogInv
<1>4. DogInv'
  BY <1>1, <1>2, <1>3 DEF DogInv, DeadDogIsTold
<1>5. JobInv'
  <2>1. Wrong(Belief, told) \in Nat /\ repeats \in Nat /\ repeats + Wrong(Belief, told) <= mishaps
    BY <1>1 DEF JobInv, Wrong
  <2>2. repeats + Wrong(Belief, told) <= mishaps'
    BY <1>1, <1>2, <2>1
  <2>3. Belief' = Belief /\ UNCHANGED <<ads, state, job, told, repeats, streak>>
    BY <1>2 DEF Belief, adsVars
  <2> QED
    BY <1>1, <2>2, <2>3 DEF JobInv, Alerts
<1>6. mishaps' \in 0..MaxMishaps
  BY <1>1, <1>2
<1> QED
  BY <1>4, <1>5, <1>6 DEF HealthInv

LEMMA HealthStarts == HealthInit => HealthInv
<1> SUFFICES ASSUME HealthInit PROVE HealthInv
  OBVIOUS
<1>1. /\ Fresh \in Notes0 /\ Fresh.fails = 0 /\ Fresh.alerted = FALSE /\ Alerts(Fresh)
      /\ FailThreshold \in Nat /\ NoJob.on = FALSE /\ NoJob.write = Fresh
      /\ NoJob \in [on : BOOLEAN, write : Notes0]
  BY FreshNote
<1>2. /\ ads = TRUE /\ state = Fresh /\ job = NoJob
      /\ told = "nothing" /\ repeats = 0 /\ streak = 0
      /\ watchdog = TRUE /\ line = 0 /\ stamp = Suppress /\ silence = 0 /\ missed = 0
      /\ mishaps = 0
  BY DEF HealthInit
<1>3. Stale \in Nat /\ Suppress \in Nat /\ MaxMishaps \in Nat
  BY HealthAssumption
<1>4. Belief = Fresh
  BY <1>1, <1>2 DEF Belief
<1>5. JobInv
  BY <1>1, <1>2, <1>4 DEF JobInv, Wrong
<1>6. DogInv
  BY <1>2, <1>3 DEF DogInv, DeadDogIsTold
<1> QED
  BY <1>2, <1>3, <1>5, <1>6 DEF HealthInv

\* However often runs are cut short, files are lost and the two watched systems go and
\* come back: a message that repeats the last one costs a mishap, an outage as long as
\* the threshold was told or is kept quiet by a lost note, and a dead watchdog is told in
\* time but for the monitor's own failed runs (_job_adspower_health, heartbeat_monitor).
THEOREM AlertsAreKeptHolds == HealthSpec => []AlertsAreKept
<1>1. ASSUME HealthInv, [HealthNext]_healthVars PROVE HealthInv'
  <2>1. CASE RunsWithState \/ RunsWithout
    BY <1>1, <2>1, RunsKeep
  <2>2. CASE JobWrites \/ JobBreaks \/ AdsChanges
    BY <1>1, <2>2, JobEndKeeps
  <2>3. CASE Ticks
    BY <1>1, <2>3, TicksKeep
  <2>4. CASE WatchdogChanges
    BY <1>1, <2>4, DogChangeKeeps
  <2>5. CASE UNCHANGED healthVars
    BY <1>1, <2>5 DEF healthVars, HealthInv, JobInv, DogInv, DeadDogIsTold, Belief, Alerts
  <2> QED
    BY <1>1, <2>1, <2>2, <2>3, <2>4, <2>5 DEF HealthNext
<1>2. ASSUME HealthInv PROVE AlertsAreKept
  <2>1. JobInv /\ DogInv /\ FailThreshold \in Nat
    BY <1>2, FreshNote DEF HealthInv
  <2>2. state.fails \in 0..FailThreshold /\ line \in 0..Stale + 1 /\ stamp \in 0..Suppress
    BY <2>1 DEF JobInv, DogInv, Notes0
  <2>3. OnlyChangesAreTold
    <3>1. Wrong(Belief, told) \in Nat /\ repeats \in Nat /\ mishaps \in Nat
      BY <1>2, <2>1, HealthAssumption DEF JobInv, Wrong, HealthInv
    <3> QED
      BY <2>1, <3>1 DEF JobInv, OnlyChangesAreTold
  <2>4. OutageIsTold
    <3>1. Belief \in Notes0 /\ Alerts(Belief)
      BY <2>1 DEF JobInv, Belief
    <3>2. streak >= FailThreshold => Belief.alerted
      BY <2>1, <3>1 DEF JobInv, Notes0, Alerts
    <3> QED
      BY <2>1, <3>2 DEF JobInv, OutageIsTold
  <2>5. DeadDogIsTold
    BY <2>1 DEF DogInv
  <2> QED
    BY <2>2, <2>3, <2>4, <2>5 DEF AlertsAreKept
<1> QED
  BY <1>1, <1>2, HealthStarts, PTL DEF HealthSpec

-----------------------------------------------------------------------------
(* The text of a carousel.  A skilled writer takes one kind of error away   *)
(* with every rewriting, so the kinds that are left and the rewritings so   *)
(* far never exceed the kinds that the first answer had.                    *)

Codes == {"SLIDES_INVALID", "COVER_TITLE", "SLIDE_TEXT_EMPTY", "BODY_TOO_LONG",
          "CARD_FACT_MISSING", "CARD_FACT_EXTRA", "CTA_NOT_LAST", "LAST_CTA_COUNT", "IMPERATIVE",
          "CAPTION_LENGTH", "HASHTAG_COUNT", "CAPTION_CTA_COUNT", "CAPTION_CTA_PLACE"}

CodesOf(D) == {Order[i].code : i \in D}

\* The hypothesis of HiddenDefectIsMended, but for the number of rounds.
AllMendable == skilled /\ first # {} /\ \A i \in first : Mendable(i)

AfterText == {"repair", "scenes", "facts", "done", "IMAGE_SCENE_INVALID",
              "IMAGE_SCENE_REPAIR_FAILED", "POSSIBLE_FABRICATION", "SAFETY_BLOCKED",
              "DUPLICATE_FINGERPRINT"}

TextPath ==
    /\ result = "none" => tries = 0 /\ first = {}
    /\ result = "repair" => tries < MaxRounds /\ defects # {}
    /\ result \in {"scenes", "facts", "done"} => defects = {}
    /\ result = "scenes" => scenes # "none"
    /\ result \in {"facts", "done"} => scenes \in {"none", "fine"}

Mends ==
    AllMendable =>
        /\ defects \subseteq first
        /\ result = "repair" => Cardinality(CodesOf(defects)) + tries <= Cardinality(CodesOf(first))
        /\ Cardinality(CodesOf(first)) <= MaxRounds => result \in AfterText

TextInv == TextTypeOK /\ defects \subseteq Possible /\ first \subseteq Possible /\ TextPath /\ Mends

LEMMA OrderIs ==
    /\ DOMAIN Order = 1..15
    /\ \A i \in 1..15 : Order[i].code \in Codes
<1>1. DOMAIN Order = 1..15
  BY DEF Order
<1>2. ASSUME NEW i \in 1..15 PROVE Order[i].code \in Codes
  <2>1. \/ i = 1 \/ i = 2 \/ i = 3 \/ i = 4 \/ i = 5 \/ i = 6 \/ i = 7 \/ i = 8 \/ i = 9
        \/ i = 10 \/ i = 11 \/ i = 12 \/ i = 13 \/ i = 14 \/ i = 15
    OBVIOUS
  <2> QED
    BY <2>1 DEF Order, Codes
<1> QED
  BY <1>1, <1>2

\* A set of numbers up to fifteen has a least one.
LEMMA LeastIs ==
    ASSUME NEW D \in SUBSET (1..15), D # {}
    PROVE  \E i \in D : \A j \in D : i <= j
<1> DEFINE Up(k) == (\E i \in D : i <= k) => \E i \in D : \A j \in D : i <= j
<1>1. Up(0)
  OBVIOUS
<1>2. ASSUME NEW k \in Nat, Up(k) PROVE Up(k + 1)
  <2>1. CASE \E i \in D : i <= k
    BY <1>2, <2>1
  <2>2. CASE ~(\E i \in D : i <= k) /\ k + 1 \in D
    <3>1. \A j \in D : k + 1 <= j
      BY <2>2
    <3> QED
      BY <2>2, <3>1
  <2>3. CASE ~(\E i \in D : i <= k) /\ k + 1 \notin D
    BY <2>3
  <2> QED
    BY <2>1, <2>2, <2>3
<1> HIDE DEF Up
<1>3. Up(1) /\ Up(2) /\ Up(3) /\ Up(4) /\ Up(5)
  <2>1. Up(1)
    BY <1>1, <1>2, 0 + 1 = 1
  <2>2. Up(2)
    BY <2>1, <1>2, 1 + 1 = 2
  <2>3. Up(3)
    BY <2>2, <1>2, 2 + 1 = 3
  <2>4. Up(4)
    BY <2>3, <1>2, 3 + 1 = 4
  <2>5. Up(5)
    BY <2>4, <1>2, 4 + 1 = 5
  <2> QED
    BY <2>1, <2>2, <2>3, <2>4, <2>5
<1>4. Up(6) /\ Up(7) /\ Up(8) /\ Up(9) /\ Up(10)
  <2>1. Up(6)
    BY <1>3, <1>2, 5 + 1 = 6
  <2>2. Up(7)
    BY <2>1, <1>2, 6 + 1 = 7
  <2>3. Up(8)
    BY <2>2, <1>2, 7 + 1 = 8
  <2>4. Up(9)
    BY <2>3, <1>2, 8 + 1 = 9
  <2>5. Up(10)
    BY <2>4, <1>2, 9 + 1 = 10
  <2> QED
    BY <2>1, <2>2, <2>3, <2>4, <2>5
<1>5. Up(15)
  <2>1. Up(11)
    BY <1>4, <1>2, 10 + 1 = 11
  <2>2. Up(12)
    BY <2>1, <1>2, 11 + 1 = 12
  <2>3. Up(13)
    BY <2>2, <1>2, 12 + 1 = 13
  <2>4. Up(14)
    BY <2>3, <1>2, 13 + 1 = 14
  <2> QED
    BY <2>4, <1>2, 14 + 1 = 15
<1>6. \E i \in D : i <= 15
  <2>1. PICK i \in D : TRUE
    OBVIOUS
  <2>2. i \in 1..15
    OBVIOUS
  <2> QED
    BY <2>2
<1> QED
  BY <1>5, <1>6 DEF Up

\* The error that is reported is the error of one of the defects.
LEMMA ErrorIs ==
    ASSUME NEW D \in SUBSET Possible
    PROVE  /\ D \in SUBSET (1..15)
           /\ D # {} => /\ Met(D) \in D /\ ErrorOf(D) = Order[Met(D)].code
                        /\ ErrorOf(D) \in Codes
           /\ D = {} => ErrorOf(D) = ""
<1>1. D \in SUBSET (1..15)
  BY OrderIs DEF Possible
<1>2. ASSUME D # {} PROVE Met(D) \in D
  <2>1. \E i \in D : \A j \in D : i <= j
    BY <1>1, <1>2, LeastIs
  <2> QED
    BY <2>1 DEF Met
<1>3. D # {} => ErrorOf(D) = Order[Met(D)].code
  BY DEF ErrorOf
<1>4. D # {} => Order[Met(D)].code \in Codes
  BY <1>1, <1>2, OrderIs
<1>5. D = {} => ErrorOf(D) = ""
  BY DEF ErrorOf
<1> QED
  BY <1>1, <1>2, <1>3, <1>4, <1>5

LEMMA CodesAreFinite ==
    ASSUME NEW D \in SUBSET Possible
    PROVE  /\ IsFiniteSet(D) /\ IsFiniteSet(CodesOf(D)) /\ Cardinality(CodesOf(D)) \in Nat
           /\ D # {} => Cardinality(CodesOf(D)) >= 1
<1>1. IsFiniteSet(D)
  <2>1. D \in SUBSET (1..15)
    BY ErrorIs
  <2>2. IsFiniteSet(1..15)
    BY FS_Interval, 1 \in Int, 15 \in Int
  <2> QED
    BY <2>1, <2>2, FS_Subset
<1>2. IsFiniteSet(CodesOf(D))
  <2> DEFINE f == [i \in D |-> Order[i].code]
  <2>1. CodesOf(D) = {f[i] : i \in D}
    BY DEF CodesOf
  <2>2. IsFiniteSet({f[i] : i \in D})
    <3>1. f \in Surjection(D, {f[i] : i \in D})
      BY DEF Surjection
    <3> QED
      BY <1>1, <3>1, FS_Surjection
  <2> QED
    BY <2>1, <2>2
<1>3. Cardinality(CodesOf(D)) \in Nat
  BY <1>2, FS_CardinalityType
<1>4. D # {} => Cardinality(CodesOf(D)) >= 1
  <2>1. D # {} => CodesOf(D) # {}
    BY DEF CodesOf
  <2> QED
    BY <1>2, <1>3, <2>1, FS_EmptySet
<1> QED
  BY <1>1, <1>2, <1>3, <1>4

\* What a skilled writer makes of defects that can be mended: all but those of the kind
\* that was reported.
LEMMA SkilledMends ==
    ASSUME NEW D \in SUBSET Possible, D # {}, \A i \in D : Mendable(i), skilled,
           NEW E \in Rewritings(D)
    PROVE  /\ E \subseteq D /\ E \in SUBSET Possible
           /\ Cardinality(CodesOf(E)) + 1 = Cardinality(CodesOf(D))
           /\ E # {} => Eligible(ErrorOf(E)) /\ ErrorOf(E) # ErrorOf(D)
<1> DEFINE c == ErrorOf(D)
<1>1. Met(D) \in D /\ c = Order[Met(D)].code /\ c \in Codes
  BY ErrorIs
<1>2. E = D \ {i \in Rewritten(D) : Order[i].code = c}
  BY DEF Rewritings
<1>3. \A i \in D : Order[i].code = c => i \in Rewritten(D)
  <2> SUFFICES ASSUME NEW i \in D, Order[i].code = c PROVE i \in Rewritten(D)
    OBVIOUS
  <2>1. i \in Possible /\ Order[i].field = FieldOf(c)
    BY DEF Mendable
  <2>2. c = "CTA_NOT_LAST" => c # "LAST_CTA_COUNT"
    OBVIOUS
  <2> QED
    BY <2>1, <2>2 DEF Rewritten
<1>4. E = {i \in D : Order[i].code # c}
  BY <1>2, <1>3
<1> HIDE DEF c
<1>5. CodesOf(E) = CodesOf(D) \ {c} /\ c \in CodesOf(D)
  BY <1>1, <1>4 DEF CodesOf
<1>6. Cardinality(CodesOf(E)) + 1 = Cardinality(CodesOf(D))
  <2>1. IsFiniteSet(CodesOf(D)) /\ Cardinality(CodesOf(D)) \in Nat
    BY CodesAreFinite
  <2>2. Cardinality(CodesOf(D) \ {c}) = Cardinality(CodesOf(D)) - 1
    BY <1>5, <2>1, FS_RemoveElement
  <2> QED
    BY <1>5, <2>1, <2>2
<1>7. E \in SUBSET Possible
  BY <1>4
<1>8. ASSUME E # {} PROVE Eligible(ErrorOf(E)) /\ ErrorOf(E) # c
  <2>1. Met(E) \in E /\ ErrorOf(E) = Order[Met(E)].code
    BY <1>7, <1>8, ErrorIs
  <2> QED
    BY <1>4, <2>1 DEF Mendable
<1> QED
  BY <1>4, <1>6, <1>7, <1>8 DEF c

\* Where the text goes once its contract holds or cannot be mended.
LEMMA ContractEnds ==
    ASSUME NEW D \in SUBSET Possible, scenes \in {"none", "fine", "invalid", "forbidden"}
    PROVE  /\ AfterContract(D) \notin {"none", "repair", "done"}
           /\ AfterContract(D) = "scenes" => D = {} /\ scenes # "none"
           /\ AfterContract(D) = "facts" => D = {} /\ scenes = "none"
           /\ D = {} => AfterContract(D) \in {"scenes", "facts"}
<1>1. D # {} => AfterContract(D) \in Codes
  BY ErrorIs DEF AfterContract
<1>2. Codes \cap {"none", "repair", "done", "scenes", "facts"} = {}
  BY DEF Codes
<1>3. D = {} => AfterContract(D) = IF scenes = "none" THEN "facts" ELSE "scenes"
  BY DEF AfterContract
<1> QED
  BY <1>1, <1>2, <1>3

LEMMA WriteKeeps ==
    ASSUME TextInv, Write
    PROVE  TextInv'
<1>1. /\ TextTypeOK /\ TextPath /\ result = "none" /\ tries = 0 /\ first = {}
      /\ MaxRounds \in Nat /\ MaxRounds >= 1 /\ UNCHANGED <<kind, scenes, skilled, tries>>
      /\ defects \subseteq Possible
  BY TextAssumption DEF TextInv, TextPath, Write
<1>2. Possible' = Possible
  BY <1>1 DEF Possible
<1>3. CASE result' = "GENERATION_FAILED" /\ UNCHANGED <<first, defects>>
  <2>1. TextTypeOK' /\ TextPath'
    BY <1>1, <1>3 DEF TextTypeOK, TextPath
  <2>2. Mends'
    BY <1>1, <1>3 DEF Mends, AllMendable
  <2> QED
    BY <1>1, <1>2, <1>3, <2>1, <2>2 DEF TextInv
<1>4. ASSUME NEW D \in Texts, first' = D, defects' = D,
             result' = IF Eligible(ErrorOf(D)) THEN "repair" ELSE AfterContract(D)
      PROVE  TextInv'
  <2>1. D \in SUBSET Possible /\ D \in SUBSET (DOMAIN Order)
    BY DEF Texts, Possible
  <2>2. D = {} => ~Eligible(ErrorOf(D))
    BY <2>1, ErrorIs DEF Eligible
  <2>3. TextTypeOK'
    BY <1>1, <1>4, <2>1 DEF TextTypeOK
  <2>4. TextPath'
    <3>1. CASE Eligible(ErrorOf(D))
      BY <1>1, <1>4, <2>2, <3>1 DEF TextPath
    <3>2. CASE ~Eligible(ErrorOf(D))
      BY <1>1, <1>4, <2>1, <3>2, ContractEnds DEF TextPath, TextTypeOK
    <3> QED
      BY <3>1, <3>2
  <2>5. Mends'
    <3> SUFFICES ASSUME AllMendable' PROVE Mends'
      BY DEF Mends
    <3>1. D # {} /\ \A i \in D : Mendable(i)'
      BY <1>4 DEF AllMendable
    <3>2. \A i \in D : Mendable(i)
      BY <1>1, <3>1 DEF Mendable, Eligible
    <3>3. Eligible(ErrorOf(D))
      BY <2>1, <3>1, <3>2, ErrorIs DEF Mendable
    <3>4. result' = "repair"
      BY <1>4, <3>3
    <3>5. Cardinality(CodesOf(D)) \in Nat
      BY <2>1, CodesAreFinite
    <3>6. Cardinality(CodesOf(D)) + tries' <= Cardinality(CodesOf(D))
      BY <1>1, <3>5
    <3>7. CodesOf(defects') = CodesOf(D) /\ CodesOf(first') = CodesOf(D)
      BY <1>4
    <3> QED
      BY <1>4, <3>4, <3>6, <3>7 DEF Mends, AfterText, CodesOf
  <2> QED
    BY <1>2, <1>4, <2>1, <2>3, <2>4, <2>5 DEF TextInv
<1> QED
  BY <1>3, <1>4 DEF Write

LEMMA RepairKeeps ==
    ASSUME TextInv, Repair
    PROVE  TextInv'
<1>1. /\ TextTypeOK /\ TextPath /\ result = "repair" /\ tries < MaxRounds /\ tries \in Nat
      /\ MaxRounds \in Nat /\ tries' = tries + 1 /\ UNCHANGED <<kind, scenes, skilled, first>>
      /\ defects \subseteq Possible /\ defects # {} /\ first \subseteq Possible /\ Mends
      /\ scenes \in {"none", "fine", "invalid", "forbidden"}
  BY TextAssumption DEF TextInv, TextTypeOK, TextPath, Repair
<1>2. Possible' = Possible
  BY <1>1 DEF Possible
<1>3. AllMendable' <=> AllMendable
  BY <1>1 DEF AllMendable, Mendable, Eligible
<1>4. CASE ~skilled /\ result' = "CONTRACT_REPAIR_FAILED" /\ UNCHANGED defects
  <2>1. TextTypeOK' /\ TextPath'
    BY <1>1, <1>4 DEF TextTypeOK, TextPath
  <2>2. Mends'
    BY <1>3, <1>4 DEF Mends, AllMendable
  <2> QED
    BY <1>1, <1>2, <1>4, <2>1, <2>2 DEF TextInv
<1>5. ASSUME NEW E \in Rewritings(defects), defects' = E, result' = Outcome(defects, E)
      PROVE  TextInv'
  <2>1. E \in SUBSET Possible
    BY <1>1 DEF Rewritings, Texts
  <2>2. E \in SUBSET (DOMAIN Order)
    BY <2>1 DEF Possible
  <2>3. Goes(defects, E) => E # {} /\ tries + 1 < MaxRounds
    BY <2>1, ErrorIs DEF Goes, Eligible
  <2>4. result' = IF Goes(defects, E) THEN "repair" ELSE AfterContract(E)
    BY <1>5 DEF Outcome
  <2>5. TextTypeOK'
    BY <1>1, <1>5, <2>2 DEF TextTypeOK
  <2>6. TextPath'
    <3>1. CASE Goes(defects, E)
      BY <1>1, <1>5, <2>3, <2>4, <3>1 DEF TextPath
    <3>2. CASE ~Goes(defects, E)
      BY <1>1, <1>5, <2>1, <2>4, <3>2, ContractEnds DEF TextPath
    <3> QED
      BY <3>1, <3>2
  <2>7. Mends'
    <3> SUFFICES ASSUME AllMendable PROVE Mends'
      BY <1>3 DEF Mends
    <3>1. /\ defects \subseteq first /\ skilled /\ \A i \in defects : Mendable(i)
          /\ Cardinality(CodesOf(defects)) + tries <= Cardinality(CodesOf(first))
      BY <1>1 DEF Mends, AllMendable
    <3>2. /\ E \subseteq defects
          /\ Cardinality(CodesOf(E)) + 1 = Cardinality(CodesOf(defects))
          /\ E # {} => Eligible(ErrorOf(E)) /\ ErrorOf(E) # ErrorOf(defects)
      BY <1>1, <3>1, SkilledMends
    <3>3. /\ Cardinality(CodesOf(E)) \in Nat /\ Cardinality(CodesOf(first)) \in Nat
          /\ Cardinality(CodesOf(defects)) \in Nat
          /\ E # {} => Cardinality(CodesOf(E)) >= 1
      BY <1>1, <2>1, CodesAreFinite
    <3>4. Cardinality(CodesOf(E)) + tries' <= Cardinality(CodesOf(first))
      BY <1>1, <3>1, <3>2, <3>3
    <3>5. ASSUME Cardinality(CodesOf(first)) <= MaxRounds PROVE result' \in AfterText
      <4>1. CASE E = {}
        <5>1. result' \in {"repair", "scenes", "facts"}
          BY <1>1, <2>1, <2>4, <4>1, ContractEnds
        <5> QED
          BY <5>1 DEF AfterText
      <4>2. CASE E # {}
        <5>1. tries + 1 < MaxRounds
          BY <1>1, <3>3, <3>4, <3>5, <4>2
        <5>2. Goes(defects, E)
          BY <3>2, <4>2, <5>1 DEF Goes
        <5> QED
          BY <2>4, <5>2 DEF AfterText
      <4> QED
        BY <4>1, <4>2
    <3>6. CodesOf(defects') = CodesOf(E) /\ CodesOf(first') = CodesOf(first)
      BY <1>1, <1>5
    <3> QED
      BY <1>1, <1>5, <3>1, <3>2, <3>4, <3>5, <3>6 DEF Mends, CodesOf
  <2> QED
    BY <1>1, <1>2, <1>5, <2>1, <2>5, <2>6, <2>7 DEF TextInv
<1> QED
  BY <1>4, <1>5 DEF Repair

LEMMA ScenesKeep ==
    ASSUME TextInv, Scenes \/ Review
    PROVE  TextInv'
<1>1. /\ TextTypeOK /\ TextPath /\ Mends /\ defects \subseteq Possible /\ first \subseteq Possible
      /\ UNCHANGED <<kind, skilled, first, defects, tries>>
  BY DEF TextInv, Scenes, Review
<1>2. Possible' = Possible /\ (AllMendable' <=> AllMendable)
  BY <1>1 DEF Possible, AllMendable, Mendable, Eligible
<1>3. /\ result \in {"scenes", "facts"}
      /\ result' \in {"facts", "IMAGE_SCENE_INVALID", "IMAGE_SCENE_REPAIR_FAILED", "done",
                      "POSSIBLE_FABRICATION", "SAFETY_BLOCKED", "DUPLICATE_FINGERPRINT"}
      /\ scenes' \in {"none", "fine", "invalid", "forbidden"}
      /\ result' \in {"facts", "done"} => scenes' \in {"none", "fine"}
  BY <1>1 DEF Scenes, Review, TextPath, TextTypeOK
<1>4. TextTypeOK'
  BY <1>1, <1>3 DEF TextTypeOK
<1>5. TextPath'
  BY <1>1, <1>3 DEF TextPath
<1>6. Mends'
  BY <1>1, <1>2, <1>3 DEF Mends, AfterText, CodesOf
<1> QED
  BY <1>1, <1>2, <1>4, <1>5, <1>6 DEF TextInv

LEMMA TextStarts == TextInit => TextInv
BY TextAssumption DEF TextInit, TextInv, TextTypeOK, TextPath, Mends, AllMendable

\* Whatever comes back from Gemini: a package is made of a text without a defect only,
\* and a writer that mends what it is asked to mend is never given up while the kinds of
\* error are no more than the rounds (generate_carousel_content).
THEOREM TextIsSoundHolds == TextSpec => []TextIsSound
<1>1. ASSUME TextInv, [TextNext]_textVars PROVE TextInv'
  <2>1. CASE UNCHANGED textVars
    BY <1>1, <2>1 DEF textVars, TextInv, TextTypeOK, TextPath, Mends, AllMendable, Mendable,
                      Eligible, Possible, CodesOf
  <2> QED
    BY <1>1, <2>1, WriteKeeps, RepairKeeps, ScenesKeep DEF TextNext
<1>2. ASSUME TextInv PROVE TextIsSound
  <2>1. DoneIsClean
    BY <1>2 DEF TextInv, TextPath, DoneIsClean
  <2>2. HiddenDefectIsMended
    BY <1>2 DEF TextInv, Mends, AllMendable, HiddenDefectIsMended, AfterText, CodesOf
  <2> QED
    BY <1>2, <2>1, <2>2 DEF TextIsSound, TextInv
<1> QED
  BY <1>1, <1>2, TextStarts, PTL DEF TextSpec

-----------------------------------------------------------------------------
(* The start of the launchers.  One launcher at a time is inside the lock,  *)
(* so a policy that is armed and has been read there is not active yet, and *)
(* whoever has chosen a mode meanwhile has done so under the same policy.   *)

BootModes == {"none", "production", "safe"}
Policies  == [mode : BootModes, state : {"none", "armed", "active", "expired"}, id : 0..MaxWrites]
Runs      == [at : Steps, parent : 0..MaxDogs, code : 0..MaxCommits, read : Policies,
              mode : BootModes, dm : BootModes]

BootTypes ==
    /\ policy \in Policies /\ lock \in Launchers \cup {"free", "left"}
    /\ head \in 0..MaxCommits
    /\ noted \in [commit : 0..MaxCommits, by : Launchers \cup {NoLauncher}]
    /\ run \in [Launchers -> Runs]
    /\ dog \in 0..MaxDogs /\ dogs \in 0..MaxDogs
    /\ raced \subseteq Launchers /\ rewritten \subseteq Launchers
    /\ activated \in [0..MaxWrites -> Nat] /\ writes \in 0..MaxWrites

Inside(l) == run[l].at \in {"holds", "replaced"}

LockInv == \A l \in Launchers : Inside(l) <=> lock = l

Armed(p, i) == p.state = "armed" /\ p.id = i

ActiveInv ==
    /\ policy.id <= writes
    /\ \A l \in Launchers : run[l].at = "holds" => run[l].read.id <= writes
    /\ \A i \in 0..MaxWrites :
          /\ activated[i] <= 1
          /\ activated[i] = 1 =>
                /\ i <= writes /\ ~Armed(policy, i)
                /\ \A l \in Launchers : run[l].at = "holds" => ~Armed(run[l].read, i)

NoteInv ==
    /\ noted.commit <= head
    /\ \A l \in Launchers :
          /\ run[l].code <= head
          /\ run[l].at # "none" /\ l \notin raced =>
                /\ noted.by = l => noted.commit <= run[l].code
                /\ run[l].at = "loaded" => run[l].code = head

StrayInv ==
    /\ strays \subseteq Launchers /\ \A l \in strays : run[l].at # "none"
    /\ \A l \in Launchers \ strays : run[l].at # "none" =>
          /\ run[l].parent = dog /\ dog > 0
          /\ \A k \in Launchers \ strays : run[k].at # "none" => k = l

Settled(l) ==
    /\ run[l].at = "holds" => Mode(run[l].read) = Mode(policy)
    /\ run[l].at = "chosen" => run[l].mode = Mode(policy)
    /\ run[l].at = "working" => run[l].dm = run[l].mode

ModeInv ==
    /\ \A l \in rewritten :
          /\ run[l].at \in {"holds", "replaced", "chosen", "working"}
          /\ run[l].at = "holds" => \A k \in Launchers : run[k].at = "chosen" => k \in rewritten
    /\ \A l \in Launchers \ rewritten : Settled(l)

BootInv == BootTypes /\ LockInv /\ ActiveInv /\ NoteInv /\ StrayInv /\ ModeInv

LEMMA BootFacts ==
    /\ MaxWrites \in Nat /\ MaxCommits \in Nat /\ MaxDogs \in Nat /\ MaxDogs >= 1
    /\ "free" \notin Launchers /\ "left" \notin Launchers
    /\ NoPolicy \in Policies /\ NoPolicy.id = 0 /\ NoPolicy.state = "none" /\ NoPolicy.mode = "none"
    /\ NoRun \in Runs /\ NoRun.at = "none" /\ NoRun.code = 0 /\ NoRun.parent = 0
<1>1. /\ MaxWrites \in Nat /\ MaxCommits \in Nat /\ MaxDogs \in Nat /\ MaxDogs >= 1
      /\ "free" \notin Launchers /\ "left" \notin Launchers
  BY BootAssumption
<1>2. NoPolicy \in Policies /\ NoPolicy.id = 0 /\ NoPolicy.state = "none" /\ NoPolicy.mode = "none"
  BY <1>1 DEF NoPolicy, Policies, BootModes
<1>3. NoRun \in Runs /\ NoRun.at = "none" /\ NoRun.code = 0 /\ NoRun.parent = 0
  BY <1>1, <1>2 DEF NoRun, Runs, Steps, BootModes
<1> QED
  BY <1>1, <1>2, <1>3

\* A mode is one of the two, whatever the policy.
LEMMA ModeIs ==
    ASSUME NEW p PROVE Mode(p) \in BootModes
BY DEF Mode, BootModes

LEMMA BootStarts == BootInit => BootInv
<1> SUFFICES ASSUME BootInit PROVE BootInv
  OBVIOUS
<1>1. \A l \in Launchers : run[l] = NoRun
  BY DEF BootInit
<1>2. BootTypes
  <2>1. policy \in Policies
    BY BootFacts DEF BootInit, Policies, BootModes
  <2>2. run \in [Launchers -> Runs]
    BY BootFacts DEF BootInit
  <2>3. activated \in [0..MaxWrites -> Nat] /\ writes \in 0..MaxWrites
    BY BootFacts DEF BootInit
  <2> QED
    BY <2>1, <2>2, <2>3, BootFacts DEF BootInit, BootTypes
<1>3. LockInv
  BY <1>1, BootFacts DEF BootInit, LockInv, Inside
<1>4. ActiveInv
  BY <1>1, BootFacts DEF BootInit, ActiveInv
<1>5. NoteInv
  BY <1>1, BootFacts DEF BootInit, NoteInv
<1>6. StrayInv
  BY <1>1, BootFacts DEF BootInit, StrayInv
<1>7. ModeInv
  BY <1>1, BootFacts DEF BootInit, ModeInv, Settled
<1> QED
  BY <1>2, <1>3, <1>4, <1>5, <1>6, <1>7 DEF BootInv

\* A launcher that ends, wherever it is, and whatever becomes of a lock it held.
LEMMA ExitKeeps ==
    ASSUME BootInv, NEW l \in Launchers, Exits(l),
           UNCHANGED <<policy, head, noted, dog, dogs, activated, writes>>,
           \/ lock # l /\ lock' = lock
           \/ lock = l /\ lock' \in {"free", "left"}
    PROVE  BootInv'
<1>1. /\ run' = [run EXCEPT ![l] = NoRun] /\ strays' = strays \ {l}
      /\ raced' = raced \ {l} /\ rewritten' = rewritten \ {l}
  BY DEF Exits
<1>2. \A k \in Launchers : run'[k] = IF k = l THEN NoRun ELSE run[k]
  BY <1>1 DEF BootInv, BootTypes
<1>3. BootTypes'
  BY <1>1, BootFacts DEF BootInv, BootTypes
<1>4. LockInv'
  BY <1>2, BootFacts DEF BootInv, LockInv, Inside
<1>5. ActiveInv'
  BY <1>2, BootFacts DEF BootInv, ActiveInv, Armed
<1>6. NoteInv'
  BY <1>1, <1>2, BootFacts DEF BootInv, NoteInv, BootTypes
<1>7. StrayInv'
  BY <1>1, <1>2, BootFacts DEF BootInv, StrayInv
<1>8. ModeInv'
  <2>1. \A k \in Launchers \ rewritten' : Settled(k)'
    BY <1>1, <1>2, BootFacts DEF BootInv, ModeInv, Settled, Mode
  <2>2. \A k \in rewritten' : k \in rewritten /\ run'[k] = run[k]
    BY <1>1, <1>2 DEF BootInv, BootTypes
  <2>3. \A k \in Launchers : run'[k].at = "chosen" => run[k].at = "chosen" /\ k # l
    BY <1>2, BootFacts
  <2> QED
    BY <1>1, <2>1, <2>2, <2>3 DEF BootInv, ModeInv
<1> QED
  BY <1>3, <1>4, <1>5, <1>6, <1>7, <1>8 DEF BootInv

\* A launcher that comes up: one that the watchdog starts has no sibling.
LEMMA StartKeeps ==
    ASSUME BootInv, NEW l \in Launchers, DogStarts(l) \/ StartsByHand(l)
    PROVE  BootInv'
<1>1. PICK r \in Runs, parent \in {0, dog} :
         /\ run[l].at = "none" /\ run' = [run EXCEPT ![l] = r]
         /\ r.at = "loaded" /\ r.parent = parent /\ r.code = head
         /\ UNCHANGED <<policy, lock, head, noted, dog, dogs, raced, rewritten, activated, writes>>
         /\ \/ parent = dog /\ dog > 0 /\ ~HasChild /\ strays' = strays
            \/ strays' = strays \cup {l}
  <2> DEFINE r(parent) == [NoRun EXCEPT !.at = "loaded", !.parent = parent, !.code = head]
  <2>1. ASSUME NEW parent \in {0, dog}
        PROVE  /\ r(parent) \in Runs /\ r(parent).at = "loaded"
               /\ r(parent).parent = parent /\ r(parent).code = head
    BY BootFacts DEF NoRun, Runs, Steps, BootModes, BootInv, BootTypes
  <2> HIDE DEF r
  <2>2. CASE DogStarts(l)
    <3>1. run' = [run EXCEPT ![l] = r(dog)]
      BY <2>2 DEF DogStarts, Loads, r
    <3> QED
      BY <2>1, <2>2, <3>1 DEF DogStarts, Loads, ghosts
  <2>3. CASE StartsByHand(l)
    <3>1. run' = [run EXCEPT ![l] = r(0)]
      BY <2>3 DEF StartsByHand, Loads, r
    <3> QED
      BY <2>1, <2>3, <3>1 DEF StartsByHand, Loads
  <2> QED
    BY <2>2, <2>3
<1>2. \A k \in Launchers : run'[k] = IF k = l THEN r ELSE run[k]
  BY <1>1 DEF BootInv, BootTypes
<1>3. BootTypes'
  BY <1>1 DEF BootInv, BootTypes
<1>4. LockInv'
  BY <1>1, <1>2 DEF BootInv, LockInv, Inside
<1>5. ActiveInv'
  BY <1>1, <1>2 DEF BootInv, ActiveInv, Armed
<1>6. NoteInv'
  BY <1>1, <1>2 DEF BootInv, NoteInv, BootTypes
<1>7. StrayInv'
  <2>1. CASE strays' = strays \cup {l}
    BY <1>1, <1>2, <2>1 DEF BootInv, StrayInv
  <2>2. CASE parent = dog /\ dog > 0 /\ ~HasChild /\ strays' = strays
    <3>1. l \notin strays
      BY <1>1 DEF BootInv, StrayInv
    <3>2. \A k \in Launchers \ strays : run[k].at = "none"
      BY <2>2 DEF BootInv, StrayInv, HasChild, Alive
    <3> QED
      BY <1>1, <1>2, <2>2, <3>1, <3>2 DEF BootInv, StrayInv
  <2> QED
    BY <1>1, <2>1, <2>2
<1>8. ModeInv'
  <2>1. l \notin rewritten
    BY <1>1 DEF BootInv, ModeInv
  <2>2. \A k \in Launchers \ rewritten' : Settled(k)'
    BY <1>1, <1>2 DEF BootInv, ModeInv, Settled, Mode
  <2> QED
    BY <1>1, <1>2, <2>1, <2>2 DEF BootInv, BootTypes, ModeInv
<1> QED
  BY <1>3, <1>4, <1>5, <1>6, <1>7, <1>8 DEF BootInv

\* A step of a launcher changes what it says and nothing else of it.
LEMMA RunChanges ==
    ASSUME NEW q \in Runs, NEW s \in Steps, NEW r, r = [q EXCEPT !.at = s]
    PROVE  r \in Runs /\ r.at = s /\ r.parent = q.parent /\ r.code = q.code
BY DEF Runs

\* A launcher that goes on: it stays the child it is and runs the code it runs.
Moves(l, r) ==
    /\ run[l].at # "none" /\ run' = [run EXCEPT ![l] = r]
    /\ r \in Runs /\ r.at \notin {"none", "loaded"}
    /\ r.parent = run[l].parent /\ r.code = run[l].code
    /\ UNCHANGED <<head, dog, dogs, writes, strays, raced, rewritten>>

LEMMA MovesKeep ==
    ASSUME BootInv, NEW l \in Launchers, NEW r, Moves(l, r),
           \/ noted' = noted
           \/ run[l].at = "loaded" /\ noted' = [commit |-> head, by |-> l]
    PROVE  /\ \A k \in Launchers : run'[k] = IF k = l THEN r ELSE run[k]
           /\ run' \in [Launchers -> Runs]
           /\ NoteInv' /\ StrayInv'
<1>1. /\ \A k \in Launchers : run'[k] = IF k = l THEN r ELSE run[k]
      /\ run' \in [Launchers -> Runs]
  BY DEF BootInv, BootTypes, Moves
<1>2. StrayInv'
  BY <1>1 DEF BootInv, StrayInv, Moves
<1>3. NoteInv'
  <2>1. CASE noted' = noted
    BY <1>1, <2>1 DEF BootInv, NoteInv, Moves
  <2>2. CASE run[l].at = "loaded" /\ noted' = [commit |-> head, by |-> l]
    <3>1. noted'.commit = head /\ noted'.by = l
      BY <2>2
    <3>2. head \in Nat
      BY BootFacts DEF BootInv, BootTypes
    <3> QED
      BY <1>1, <2>2, <3>1, <3>2 DEF BootInv, NoteInv, Moves
  <2> QED
    BY <2>1, <2>2
<1> QED
  BY <1>1, <1>2, <1>3

LEMMA RecordsKeep ==
    ASSUME BootInv, NEW l \in Launchers, Records(l)
    PROVE  BootInv'
<1>0. PICK r : r = [run[l] EXCEPT !.at = "recorded"]
  OBVIOUS
<1>1. r \in Runs /\ r.at = "recorded" /\ r.parent = run[l].parent /\ r.code = run[l].code
  <2>1. run[l] \in Runs /\ "recorded" \in Steps
    BY DEF BootInv, BootTypes, Steps
  <2> QED
    BY <1>0, <2>1, RunChanges
<1>2. /\ run[l].at = "loaded" /\ run' = [run EXCEPT ![l] = r]
      /\ noted' \in {noted, [commit |-> head, by |-> l]}
      /\ UNCHANGED <<policy, lock, head, dog, dogs, strays, raced, rewritten, activated, writes>>
  BY <1>0 DEF Records, Go, ghosts
<1>3. Moves(l, r)
  BY <1>1, <1>2 DEF Moves
<1>4. /\ \A k \in Launchers : run'[k] = IF k = l THEN r ELSE run[k]
      /\ run' \in [Launchers -> Runs]
      /\ NoteInv' /\ StrayInv'
  BY <1>2, <1>3, MovesKeep
<1>5. BootTypes'
  BY <1>2, <1>4 DEF BootInv, BootTypes
<1>6. LockInv'
  BY <1>1, <1>2, <1>4 DEF BootInv, LockInv, Inside
<1>7. ActiveInv'
  BY <1>1, <1>2, <1>4 DEF BootInv, ActiveInv, Armed
<1>8. ModeInv'
  <2>1. l \notin rewritten
    BY <1>2 DEF BootInv, ModeInv
  <2>2. \A k \in Launchers \ rewritten' : Settled(k)'
    BY <1>1, <1>2, <1>4 DEF BootInv, ModeInv, Settled, Mode
  <2> QED
    BY <1>1, <1>2, <1>4, <2>1, <2>2 DEF BootInv, BootTypes, ModeInv
<1> QED
  BY <1>4, <1>5, <1>6, <1>7, <1>8 DEF BootInv

LEMMA LocksKeep ==
    ASSUME BootInv, NEW l \in Launchers, Locks(l)
    PROVE  BootInv'
<1>1. run[l].at = "recorded" /\ lock # l /\ ~Inside(l)
  BY DEF Locks, BootInv, LockInv, Inside
<1>2. CASE ~LockIsFree
  BY <1>1, <1>2, ExitKeeps DEF Locks
<1>3. CASE LockIsFree
  <2>0. PICK r : r = [run[l] EXCEPT !.at = "holds", !.read = policy]
    OBVIOUS
  <2>1. /\ r \in Runs /\ r.at = "holds" /\ r.read = policy
        /\ r.parent = run[l].parent /\ r.code = run[l].code
    <3>1. run[l] \in Runs /\ policy \in Policies
      BY DEF BootInv, BootTypes
    <3> QED
      BY <2>0, <3>1 DEF Runs, Steps
  <2>2. /\ run' = [run EXCEPT ![l] = r] /\ lock = "free" /\ lock' = l
        /\ UNCHANGED <<policy, head, noted, dog, dogs, strays, raced, rewritten, activated, writes>>
    BY <1>3, <2>0 DEF Locks, LockIsFree, ghosts
  <2>3. Moves(l, r)
    BY <1>1, <2>1, <2>2 DEF Moves
  <2>4. /\ \A k \in Launchers : run'[k] = IF k = l THEN r ELSE run[k]
        /\ run' \in [Launchers -> Runs]
        /\ NoteInv' /\ StrayInv'
    BY <2>2, <2>3, MovesKeep
  <2>5. BootTypes'
    BY <2>2, <2>4 DEF BootInv, BootTypes
  <2>6. LockInv'
    BY <2>1, <2>2, <2>4, BootFacts DEF BootInv, LockInv, Inside
  <2>7. ActiveInv'
    BY <2>1, <2>2, <2>4 DEF BootInv, ActiveInv, Armed
  <2>8. ModeInv'
    <3>1. l \notin rewritten
      BY <1>1 DEF BootInv, ModeInv
    <3>2. \A k \in Launchers \ rewritten' : Settled(k)'
      BY <2>1, <2>2, <2>4 DEF BootInv, ModeInv, Settled, Mode
    <3> QED
      BY <2>1, <2>2, <2>4, <3>1, <3>2 DEF BootInv, BootTypes, ModeInv
  <2> QED
    BY <2>4, <2>5, <2>6, <2>7, <2>8 DEF BootInv
<1> QED
  BY <1>2, <1>3

\* A launcher that leaves the lock with the mode of the policy it has read.
LEMMA ChoosesKeep ==
    ASSUME BootInv, NEW l \in Launchers, NEW p, Chooses(l, p), lock = l,
           l \in rewritten \/ Mode(p) = Mode(policy),
           UNCHANGED <<policy, head, noted, dog, dogs, activated, writes>>
    PROVE  BootInv'
<1>1. CASE ~Valid(p)
  BY <1>1, ExitKeeps DEF Chooses
<1>2. CASE Valid(p)
  <2>0. Inside(l)
    BY DEF BootInv, LockInv
  <2>1a. PICK r : r = [run[l] EXCEPT !.at = "chosen", !.mode = Mode(p)]
    OBVIOUS
  <2>1. /\ r \in Runs /\ r.at = "chosen" /\ r.mode = Mode(p)
        /\ r.parent = run[l].parent /\ r.code = run[l].code
    <3>1. run[l] \in Runs /\ Mode(p) \in BootModes
      BY ModeIs DEF BootInv, BootTypes
    <3> QED
      BY <2>1a, <3>1 DEF Runs, Steps
  <2>2. /\ run' = [run EXCEPT ![l] = r] /\ lock' = "free"
        /\ UNCHANGED <<strays, raced, rewritten>>
    BY <1>2, <2>1a DEF Chooses, ghosts
  <2>3. Moves(l, r)
    BY <2>0, <2>1, <2>2 DEF Moves, Inside
  <2>4. /\ \A k \in Launchers : run'[k] = IF k = l THEN r ELSE run[k]
        /\ run' \in [Launchers -> Runs]
        /\ NoteInv' /\ StrayInv'
    BY <2>2, <2>3, MovesKeep
  <2>5. BootTypes'
    BY <2>2, <2>4 DEF BootInv, BootTypes
  <2>6. LockInv'
    BY <2>1, <2>2, <2>4, BootFacts DEF BootInv, LockInv, Inside
  <2>7. ActiveInv'
    BY <2>1, <2>2, <2>4 DEF BootInv, ActiveInv, Armed
  <2>8. ModeInv'
    <3>1. \A k \in Launchers : run'[k].at # "holds"
      BY <2>1, <2>4 DEF BootInv, LockInv, Inside
    <3>2. \A k \in Launchers \ rewritten' : Settled(k)'
      <4>1. \A k \in Launchers \ rewritten : k # l => Settled(k)'
        BY <2>2, <2>4 DEF BootInv, ModeInv, Settled, Mode
      <4>2. l \notin rewritten => Settled(l)'
        BY <2>1, <2>4 DEF Settled, Mode
      <4> QED
        BY <2>2, <4>1, <4>2
    <3> QED
      BY <2>1, <2>2, <2>4, <3>1, <3>2 DEF BootInv, BootTypes, ModeInv
  <2> QED
    BY <2>4, <2>5, <2>6, <2>7, <2>8 DEF BootInv
<1> QED
  BY <1>1, <1>2

LEMMA UnlocksKeep ==
    ASSUME BootInv, NEW l \in Launchers, Keeps(l) \/ Unlocks(l)
    PROVE  BootInv'
<1>1. Inside(l) /\ lock = l
  BY DEF BootInv, LockInv, Inside, Keeps, Unlocks
<1>2. CASE Keeps(l)
  <2>1. l \in rewritten \/ Mode(run[l].read) = Mode(policy)
    BY <1>2 DEF Keeps, BootInv, ModeInv, Settled
  <2> QED
    BY <1>1, <1>2, <2>1, ChoosesKeep DEF Keeps
<1>3. CASE Unlocks(l)
  BY <1>1, <1>3, ChoosesKeep DEF Unlocks
<1> QED
  BY <1>2, <1>3

LEMMA ReplacesKeep ==
    ASSUME BootInv, NEW l \in Launchers, Replaces(l)
    PROVE  BootInv'
<1>1. /\ run[l].at = "holds" /\ run[l].read.state = "armed" /\ lock = l
      /\ UNCHANGED <<head, noted, dog, dogs, writes>>
  BY DEF BootInv, LockInv, Inside, Replaces
<1>2. CASE Exits(l) /\ lock' = "free" /\ UNCHANGED <<policy, activated>>
  BY <1>1, <1>2, ExitKeeps
<1>3. CASE /\ policy' = [run[l].read EXCEPT !.state = "active"]
           /\ activated' = [activated EXCEPT ![run[l].read.id] = @ + 1]
           /\ Go(l, "replaced") /\ UNCHANGED <<lock, ghosts>>
  <2>0. PICK r : r = [run[l] EXCEPT !.at = "replaced"]
    OBVIOUS
  <2>1. /\ r \in Runs /\ r.at = "replaced"
        /\ r.parent = run[l].parent /\ r.code = run[l].code
    <3>1. run[l] \in Runs /\ "replaced" \in Steps
      BY DEF BootInv, BootTypes, Steps
    <3> QED
      BY <2>0, <3>1, RunChanges
  <2>2. PICK p \in Policies : p = run[l].read
    BY DEF BootInv, BootTypes, Runs
  <2>3. /\ p.id \in 0..MaxWrites /\ p.id <= writes /\ p.state = "armed"
        /\ policy' \in Policies /\ policy'.id = p.id /\ policy'.state = "active"
        /\ policy'.mode = p.mode
    BY <1>1, <1>3, <2>2 DEF Policies, BootInv, ActiveInv
  <2>4. /\ run' = [run EXCEPT ![l] = r] /\ UNCHANGED <<lock, strays, raced, rewritten>>
    BY <1>3, <2>0 DEF Go, ghosts
  <2>5. Moves(l, r)
    BY <1>1, <2>1, <2>4 DEF Moves
  <2>6. /\ \A k \in Launchers : run'[k] = IF k = l THEN r ELSE run[k]
        /\ run' \in [Launchers -> Runs]
        /\ NoteInv' /\ StrayInv'
    BY <1>1, <2>5, MovesKeep
  <2>7. \A k \in Launchers : run'[k].at # "holds"
    BY <1>1, <2>1, <2>6 DEF BootInv, LockInv, Inside
  <2>8. activated[p.id] = 0 /\ activated' = [activated EXCEPT ![p.id] = 1]
    <3>1. activated[p.id] \in Nat /\ activated[p.id] <= 1 /\ activated[p.id] # 1
      BY <1>1, <2>2, <2>3 DEF BootInv, BootTypes, ActiveInv, Armed
    <3>2. activated[p.id] = 0
      BY <3>1
    <3> QED
      BY <1>3, <2>2, <3>2
  <2>9. BootTypes'
    <3>1. activated' \in [0..MaxWrites -> Nat]
      BY <2>3, <2>8 DEF BootInv, BootTypes
    <3> QED
      BY <1>1, <2>3, <2>4, <2>6, <3>1 DEF BootInv, BootTypes
  <2>10. LockInv'
    BY <1>1, <2>1, <2>4, <2>6 DEF BootInv, LockInv, Inside
  <2>11. ActiveInv'
    <3>1. \A i \in 0..MaxWrites : activated'[i] = IF i = p.id THEN 1 ELSE activated[i]
      BY <2>8 DEF BootInv, BootTypes
    <3>2. \A i \in 0..MaxWrites : ~Armed(policy', i)
      BY <2>3 DEF Armed
    <3>3. writes' = writes
      BY <1>1
    <3> QED
      BY <2>3, <2>7, <3>1, <3>2, <3>3 DEF BootInv, ActiveInv
  <2>12. ModeInv'
    <3>1. \A k \in Launchers \ rewritten : Settled(k)'
      <4>1. CASE l \in rewritten
        <5>1. \A k \in Launchers \ rewritten : run'[k].at # "chosen" /\ run'[k] = run[k]
          BY <1>1, <2>6, <4>1 DEF BootInv, ModeInv
        <5> QED
          BY <2>7, <5>1 DEF BootInv, ModeInv, Settled
      <4>2. CASE l \notin rewritten
        <5>1. Mode(policy') = Mode(policy)
          BY <1>1, <2>2, <2>3, <4>2 DEF BootInv, ModeInv, Settled, Mode
        <5>2. \A k \in Launchers \ rewritten : k # l => Settled(k)'
          BY <2>6, <5>1 DEF BootInv, ModeInv, Settled
        <5>3. Settled(l)'
          BY <2>1, <2>6 DEF Settled
        <5> QED
          BY <5>2, <5>3
      <4> QED
        BY <4>1, <4>2
    <3>2. \A k \in rewritten : run'[k].at \in {"holds", "replaced", "chosen", "working"}
      BY <2>1, <2>6 DEF BootInv, BootTypes, ModeInv
    <3> QED
      BY <2>4, <2>7, <3>1, <3>2 DEF BootInv, BootTypes, ModeInv
  <2> QED
    BY <2>6, <2>9, <2>10, <2>11, <2>12 DEF BootInv
<1> QED
  BY <1>1, <1>2, <1>3 DEF Replaces

LEMMA ImportsKeep ==
    ASSUME BootInv, NEW l \in Launchers, Imports(l) \/ Dies(l)
    PROVE  BootInv'
<1>1. CASE Dies(l)
  <2>1. \/ lock # l /\ lock' = lock
        \/ lock = l /\ lock' \in {"free", "left"}
    BY <1>1 DEF Dies
  <2> QED
    BY <1>1, <2>1, ExitKeeps DEF Dies
<1>2. CASE Imports(l)
  <2>0. run[l].at = "chosen" /\ lock # l
    BY <1>2 DEF Imports, BootInv, LockInv, Inside
  <2>1. CASE policy.mode # "none" /\ ~Valid(policy)
    BY <1>2, <2>0, <2>1, ExitKeeps DEF Imports
  <2>2. CASE ~(policy.mode # "none" /\ ~Valid(policy))
    <3>0. PICK r : r = [run[l] EXCEPT !.at = "working", !.dm = Mode(policy)]
      OBVIOUS
    <3>1. /\ r \in Runs /\ r.at = "working" /\ r.dm = Mode(policy) /\ r.mode = run[l].mode
          /\ r.parent = run[l].parent /\ r.code = run[l].code
      <4>1. run[l] \in Runs /\ Mode(policy) \in BootModes
        BY ModeIs DEF BootInv, BootTypes
      <4> QED
        BY <3>0, <4>1 DEF Runs, Steps
    <3>2. /\ run' = [run EXCEPT ![l] = r]
          /\ UNCHANGED <<policy, lock, head, noted, dog, dogs, strays, raced, rewritten, activated,
                         writes>>
      BY <1>2, <2>2, <3>0 DEF Imports, ghosts
    <3>3. Moves(l, r)
      BY <2>0, <3>1, <3>2 DEF Moves
    <3>4. /\ \A k \in Launchers : run'[k] = IF k = l THEN r ELSE run[k]
          /\ run' \in [Launchers -> Runs]
          /\ NoteInv' /\ StrayInv'
      BY <3>2, <3>3, MovesKeep
    <3>5. BootTypes'
      BY <3>2, <3>4 DEF BootInv, BootTypes
    <3>6. LockInv'
      BY <2>0, <3>1, <3>2, <3>4 DEF BootInv, LockInv, Inside
    <3>7. ActiveInv'
      BY <3>1, <3>2, <3>4 DEF BootInv, ActiveInv, Armed
    <3>8. ModeInv'
      <4>1. \A k \in Launchers \ rewritten : k # l => Settled(k)'
        BY <3>2, <3>4 DEF BootInv, ModeInv, Settled, Mode
      <4>2. l \notin rewritten => Settled(l)'
        BY <2>0, <3>1, <3>4 DEF BootInv, ModeInv, Settled
      <4> QED
        BY <3>1, <3>2, <3>4, <4>1, <4>2 DEF BootInv, BootTypes, ModeInv
    <3> QED
      BY <3>4, <3>5, <3>6, <3>7, <3>8 DEF BootInv
  <2> QED
    BY <2>1, <2>2
<1> QED
  BY <1>1, <1>2

\* What happens outside the launchers.
LEMMA WorldKeeps ==
    ASSUME BootInv, DogChanges \/ WritesPolicy \/ Expires \/ RemovesLock \/ Commits
    PROVE  BootInv'
<1>1. CASE DogChanges
  <2>0. /\ UNCHANGED <<policy, lock, head, noted, run, raced, rewritten, activated, writes>>
    BY <1>1 DEF DogChanges
  <2>1. dog' \in 0..MaxDogs /\ dogs' \in 0..MaxDogs
    BY <1>1, BootFacts DEF DogChanges, BootInv, BootTypes
  <2>2. BootTypes'
    BY <2>0, <2>1 DEF BootInv, BootTypes
  <2>3. StrayInv'
    <3>1. CASE dog > 0 /\ strays' = strays \cup {l \in Alive : run[l].parent = dog}
      BY <2>0, <3>1 DEF BootInv, StrayInv, Alive
    <3>2. CASE dog = 0 /\ strays' = strays
      BY <2>0, <3>2 DEF BootInv, StrayInv
    <3> QED
      BY <1>1, <3>1, <3>2 DEF DogChanges
  <2>4. LockInv' /\ ActiveInv' /\ NoteInv'
    BY <2>0 DEF BootInv, LockInv, Inside, ActiveInv, Armed, NoteInv
  <2>5. ModeInv'
    BY <2>0 DEF BootInv, ModeInv, Settled, Mode
  <2> QED
    BY <2>2, <2>3, <2>4, <2>5 DEF BootInv
<1>2. CASE WritesPolicy
  <2>0. /\ writes < MaxWrites /\ writes' = writes + 1 /\ writes \in Nat
        /\ rewritten' = rewritten
              \cup {l \in Launchers : run[l].at \in {"holds", "replaced", "chosen"}}
        /\ UNCHANGED <<lock, head, noted, run, dog, dogs, strays, raced, activated>>
    BY <1>2, BootFacts DEF WritesPolicy, BootInv, BootTypes
  <2>1. /\ policy' \in Policies /\ policy'.id <= writes'
        /\ policy'.state = "armed" => policy'.id = writes + 1
    <3>1. writes + 1 \in 0..MaxWrites
      BY <2>0, BootFacts
    <3>2. CASE policy' = NoPolicy
      BY <2>0, <3>2, BootFacts
    <3>3. CASE policy' = [mode |-> "production", state |-> "active", id |-> writes + 1]
      BY <2>0, <3>1, <3>3 DEF Policies, BootModes
    <3>4. CASE policy' = [mode |-> "safe", state |-> "armed", id |-> writes + 1]
      BY <2>0, <3>1, <3>4 DEF Policies, BootModes
    <3> QED
      BY <1>2, <3>2, <3>3, <3>4 DEF WritesPolicy
  <2>2. BootTypes'
    BY <2>0, <2>1, BootFacts DEF BootInv, BootTypes
  <2>3. LockInv' /\ NoteInv' /\ StrayInv'
    BY <2>0 DEF BootInv, LockInv, Inside, NoteInv, StrayInv
  <2>4. ActiveInv'
    <3>1. \A i \in 0..MaxWrites : i <= writes => ~Armed(policy', i)
      BY <2>0, <2>1 DEF Armed
    <3>2. \A l \in Launchers : run[l].at = "holds" => run[l].read.id <= writes'
      <4>1. \A l \in Launchers : run[l].read.id \in Nat
        BY DEF BootInv, BootTypes, Runs, Policies
      <4> QED
        BY <2>0, <4>1 DEF BootInv, ActiveInv
    <3>3. \A i \in 0..MaxWrites : i <= writes => i <= writes'
      BY <2>0
    <3> QED
      BY <2>0, <2>1, <3>1, <3>2, <3>3 DEF BootInv, ActiveInv
  <2>5. ModeInv'
    <3>1. \A l \in Launchers \ rewritten' :
             l \notin rewritten /\ run[l].at \notin {"holds", "replaced", "chosen"}
      BY <2>0
    <3>2. \A l \in Launchers \ rewritten' : Settled(l)'
      BY <2>0, <3>1 DEF BootInv, ModeInv, Settled
    <3> QED
      BY <2>0, <3>2 DEF BootInv, BootTypes, ModeInv
  <2> QED
    BY <2>2, <2>3, <2>4, <2>5 DEF BootInv
<1>3. CASE Expires
  <2>0. /\ UNCHANGED <<lock, head, noted, run, dog, dogs, strays, raced, rewritten, activated, writes>>
        /\ policy' \in Policies /\ policy'.id = policy.id /\ policy'.state = "expired"
        /\ policy'.mode = policy.mode
    BY <1>3 DEF Expires, BootInv, BootTypes, Policies, ghosts
  <2>1. BootTypes'
    BY <2>0 DEF BootInv, BootTypes
  <2>2. LockInv' /\ NoteInv' /\ StrayInv'
    BY <2>0 DEF BootInv, LockInv, Inside, NoteInv, StrayInv
  <2>3. ActiveInv'
    BY <2>0 DEF BootInv, ActiveInv, Armed
  <2>4. ModeInv'
    BY <2>0 DEF BootInv, ModeInv, Settled, Mode
  <2> QED
    BY <2>1, <2>2, <2>3, <2>4 DEF BootInv
<1>4. CASE RemovesLock
  <2>0. /\ lock = "left" /\ lock' = "free"
        /\ UNCHANGED <<policy, head, noted, run, dog, dogs, strays, raced, rewritten, activated, writes>>
    BY <1>4 DEF RemovesLock, ghosts
  <2>1. BootTypes' /\ LockInv'
    BY <2>0, BootFacts DEF BootInv, BootTypes, LockInv, Inside
  <2>2. ActiveInv' /\ NoteInv' /\ StrayInv'
    BY <2>0 DEF BootInv, ActiveInv, Armed, NoteInv, StrayInv
  <2>3. ModeInv'
    BY <2>0 DEF BootInv, ModeInv, Settled, Mode
  <2> QED
    BY <2>1, <2>2, <2>3 DEF BootInv
<1>5. CASE Commits
  <2>0. /\ head < MaxCommits /\ head' = head + 1 /\ head \in Nat
        /\ raced' = raced \cup {l \in Launchers : run[l].at = "loaded"}
        /\ UNCHANGED <<policy, lock, noted, run, dog, dogs, strays, rewritten, activated, writes>>
    BY <1>5 DEF Commits, BootInv, BootTypes
  <2>1. BootTypes'
    BY <2>0, BootFacts DEF BootInv, BootTypes
  <2>2. LockInv' /\ ActiveInv' /\ StrayInv'
    BY <2>0 DEF BootInv, LockInv, Inside, ActiveInv, Armed, StrayInv
  <2>3. NoteInv'
    <3>1. \A l \in Launchers : run[l].code \in Nat
      BY DEF BootInv, BootTypes, Runs
    <3>2. noted.commit \in Nat
      BY DEF BootInv, BootTypes
    <3> QED
      BY <2>0, <3>1, <3>2 DEF BootInv, NoteInv
  <2>4. ModeInv'
    BY <2>0 DEF BootInv, ModeInv, Settled, Mode
  <2> QED
    BY <2>1, <2>2, <2>3, <2>4 DEF BootInv
<1> QED
  BY <1>1, <1>2, <1>3, <1>4, <1>5

\* However launchers are started, killed and restarted, and whatever is written and
\* committed meanwhile: a policy is activated once, a second launcher is one that no
\* watchdog knows, the note tells the code of the launcher that wrote it, and the two
\* readers of the policy agree but for a policy written in between
\* (_atomic_activate_safe_policy, Test-Launcher, record_boot_commit).
THEOREM BootIsSoundHolds == BootSpec => []BootIsSound
<1>1. ASSUME BootInv, [BootNext]_bootVars PROVE BootInv'
  <2>1. CASE UNCHANGED bootVars
    BY <1>1, <2>1 DEF bootVars, BootInv, BootTypes, LockInv, Inside, ActiveInv, Armed, NoteInv,
                      StrayInv, ModeInv, Settled, Mode
  <2>2. ASSUME NEW l \in Launchers,
               \/ DogStarts(l) \/ StartsByHand(l) \/ Records(l) \/ Locks(l) \/ Keeps(l)
               \/ Replaces(l) \/ Unlocks(l) \/ Imports(l) \/ Dies(l)
        PROVE  BootInv'
    BY <1>1, <2>2, StartKeeps, RecordsKeep, LocksKeep, UnlocksKeep, ReplacesKeep, ImportsKeep
  <2> QED
    BY <1>1, <2>1, <2>2, WorldKeeps DEF BootNext
<1>2. ASSUME BootInv PROVE BootIsSound
  <2>1. \A l \in Launchers : run[l].at \in Steps /\ run[l].parent \in 0..MaxDogs
    BY <1>2 DEF BootInv, BootTypes, Runs
  <2>2. ActivatedOnce
    BY <1>2 DEF BootInv, ActiveInv, ActivatedOnce
  <2>3. NoteIsTrue
    <3>1. \A l \in Launchers : run[l].code \in Nat
      BY <1>2 DEF BootInv, BootTypes, Runs
    <3> QED
      BY <1>2, <3>1 DEF BootInv, BootTypes, NoteInv, NoteIsTrue, SaysFresh, Alive
  <2>4. SecondIsAStray
    <3>1. CASE Alive \ strays = {}
      BY <3>1, FS_EmptySet DEF SecondIsAStray
    <3>2. CASE Alive \ strays # {}
      <4>1. PICK l \in Alive \ strays : TRUE
        BY <3>2
      <4>2. Alive \ strays = {l}
        BY <1>2, <4>1 DEF BootInv, StrayInv, Alive
      <4>3. Cardinality({l}) = 1
        BY FS_Singleton
      <4> QED
        BY <4>2, <4>3 DEF SecondIsAStray
    <3> QED
      BY <3>1, <3>2
  <2>5. ModesAgree
    BY <1>2 DEF BootInv, ModeInv, Settled, ModesAgree
  <2> QED
    BY <1>2, <2>1, <2>2, <2>3, <2>4, <2>5 DEF BootInv, BootTypes, BootIsSound
<1> QED
  BY <1>1, <1>2, BootStarts, PTL DEF BootSpec

-----------------------------------------------------------------------------
(* The posts that are used again.  The run has counted once: what is ready  *)
(* now is at most what it counted and what it made since, account by        *)
(* account and in all.  What may still fail is therefore bounded by the     *)
(* places the run has gone past, one for each post an account may have      *)
(* waiting.                                                                 *)

Turns == [pc : {"idle", "breaker", "account", "asset"}, at : 0..(Targets + 1), total : Nat,
          ready : [Account -> Nat], need : Nat, src : Nat, have : SUBSET Asset]

\* The places of the accounts before one, and those that were taken at the count.
Places == Account \X (1..ReadyTarget)
Passed(at, ready) == {p \in Places : p[1] < at \/ p[2] <= ready[p[1]]}

\* An account the run has yet to come to.
Ahead(a) == \/ turn.pc = "breaker"
            \/ turn.pc = "account" /\ turn.at <= a
            \/ turn.pc = "asset" /\ turn.at < a

ReuseTypes ==
    /\ row \in [Cells -> States] /\ twice = FALSE
    /\ other \in 0..1 /\ lost \in 0..MaxLost /\ turn \in Turns
    /\ turn.pc = "account" => turn.at >= 1
    /\ turn.pc = "asset" => turn.at \in Account

AssetInv ==
    turn.pc = "asset" =>
        \A s \in Asset \ turn.have : turn.src <= s => row[<<turn.at, s>>] = "none"

BacklogInv ==
    /\ OwnReady <= ReadyCap /\ \A a \in Account : Ready(a) <= ReadyTarget
    /\ turn.pc # "idle" => OwnReady <= turn.total /\ turn.total <= ReadyCap
    /\ \A a \in Account : Ahead(a) => Ready(a) <= turn.ready[a]
    /\ turn.pc = "asset" => /\ turn.total + turn.need <= ReadyCap
                            /\ Ready(turn.at) + turn.need <= ReadyTarget

FailInv ==
    /\ RecentFailed + OwnReady <= Breaker - 1 + ReadyCap
    /\ RecentFailed + OwnReady <= Breaker - 1 + Targets * ReadyTarget
    /\ turn.pc = "breaker" => OwnReady <= Cardinality(Passed(1, turn.ready))
    /\ turn.pc \in {"account", "asset"} =>
          RecentFailed + OwnReady <= Breaker - 1 + turn.total
    /\ turn.pc = "account" =>
          RecentFailed + OwnReady <= Breaker - 1 + Cardinality(Passed(turn.at, turn.ready))
    /\ turn.pc = "asset" =>
          RecentFailed + OwnReady + turn.need
              <= Breaker - 1 + Cardinality(Passed(turn.at + 1, turn.ready))

ReuseInv == ReuseTypes /\ AssetInv /\ BacklogInv /\ FailInv

LEMMA ReuseFacts ==
    /\ Targets \in Nat /\ Assets \in Nat /\ ReadyTarget \in Nat /\ ReadyCap \in Nat
    /\ Breaker \in Nat /\ Breaker >= 1 /\ MaxLost \in Nat
    /\ IsFiniteSet(Account) /\ IsFiniteSet(Asset) /\ IsFiniteSet(Cells) /\ IsFiniteSet(Places)
    /\ Cardinality(Places) = Targets * ReadyTarget /\ Targets * ReadyTarget \in Nat
<1>1. /\ Targets \in Nat /\ Assets \in Nat /\ ReadyTarget \in Nat /\ ReadyCap \in Nat
      /\ Breaker \in Nat /\ Breaker >= 1 /\ MaxLost \in Nat
  BY ReuseAssumption
<1>2. /\ IsFiniteSet(Account) /\ IsFiniteSet(Asset) /\ IsFiniteSet(1..ReadyTarget)
      /\ Cardinality(Account) = Targets /\ Cardinality(1..ReadyTarget) = ReadyTarget
  <2>1. 1 \in Int /\ Targets \in Int /\ Assets \in Int /\ ReadyTarget \in Int
    BY <1>1
  <2>2. /\ IsFiniteSet(1..Targets) /\ IsFiniteSet(1..Assets) /\ IsFiniteSet(1..ReadyTarget)
        /\ Cardinality(1..Targets) = IF 1 > Targets THEN 0 ELSE Targets - 1 + 1
        /\ Cardinality(1..ReadyTarget) = IF 1 > ReadyTarget THEN 0 ELSE ReadyTarget - 1 + 1
    BY <2>1, FS_Interval
  <2> QED
    BY <1>1, <2>2 DEF Account, Asset
<1>3. IsFiniteSet(Cells) /\ IsFiniteSet(Places) /\ Cardinality(Places) = Targets * ReadyTarget
  BY <1>2, FS_Product DEF Cells, Places
<1>4. Targets * ReadyTarget \in Nat
  BY <1>1
<1> QED
  BY <1>1, <1>2, <1>3, <1>4

CountTypes ==
    /\ \A k : Count(k) \in Nat
    /\ OwnReady \in Nat /\ RecentFailed \in Nat /\ \A a : Ready(a) \in Nat

LEMMA CountsAre == CountTypes
<1>1. ASSUME NEW k PROVE Count(k) \in Nat
  <2>1. IsFiniteSet({c \in Cells : row[c] = k})
    BY ReuseFacts, FS_Subset
  <2> QED
    BY <2>1, FS_CardinalityType DEF Count
<1>2. ASSUME NEW a PROVE Ready(a) \in Nat
  <2>1. IsFiniteSet({s \in Asset : row[<<a, s>>] = "ready"})
    BY ReuseFacts, FS_Subset
  <2> QED
    BY <2>1, FS_CardinalityType DEF Ready
<1> QED
  BY <1>1, <1>2 DEF CountTypes, OwnReady, RecentFailed

LEMMA PassedIs ==
    ASSUME NEW at, NEW ready
    PROVE  /\ IsFiniteSet(Passed(at, ready)) /\ Cardinality(Passed(at, ready)) \in Nat
           /\ Cardinality(Passed(at, ready)) <= Targets * ReadyTarget
<1>1. Passed(at, ready) \in SUBSET Places
  BY DEF Passed
<1> QED
  BY <1>1, ReuseFacts, FS_Subset, FS_CardinalityType

\* One cell changes: what that does to the cells in a state.
InState(S, f, j) == {x \in S : f[x] = j}

LEMMA CellCounts ==
    ASSUME NEW S, IsFiniteSet(S), NEW f, NEW g, NEW c \in S, NEW k, NEW j,
           \A x \in S : g[x] = IF x = c THEN k ELSE f[x]
    PROVE  Cardinality(InState(S, g, j)) + (IF f[c] = j THEN 1 ELSE 0)
             = Cardinality(InState(S, f, j)) + (IF k = j THEN 1 ELSE 0)
<1> DEFINE R == {x \in S : f[x] = j /\ x # c}
<1>1. IsFiniteSet(R) /\ c \notin R /\ Cardinality(R) \in Nat
  BY FS_Subset, FS_CardinalityType
<1>2. Cardinality(R \cup {c}) = Cardinality(R) + 1
  BY <1>1, FS_AddElement
<1>3. /\ f[c] = j => InState(S, f, j) = R \cup {c}
      /\ f[c] # j => InState(S, f, j) = R
      /\ k = j => InState(S, g, j) = R \cup {c}
      /\ k # j => InState(S, g, j) = R
  BY DEF InState
<1> HIDE DEF R
<1>4. PICK n \in Nat : n = Cardinality(R)
  BY <1>1
<1>5. /\ Cardinality(InState(S, f, j)) = IF f[c] = j THEN n + 1 ELSE n
      /\ Cardinality(InState(S, g, j)) = IF k = j THEN n + 1 ELSE n
  BY <1>2, <1>3, <1>4
<1> QED
  BY <1>5

LEMMA CountChanges ==
    ASSUME NEW c \in Cells, NEW k, NEW j,
           \A x \in Cells : row'[x] = IF x = c THEN k ELSE row[x]
    PROVE  Count(j)' + (IF row[c] = j THEN 1 ELSE 0) = Count(j) + (IF k = j THEN 1 ELSE 0)
<1>1. ASSUME NEW f, NEW g, \A x \in Cells : g[x] = IF x = c THEN k ELSE f[x]
      PROVE  Cardinality(InState(Cells, g, j)) + (IF f[c] = j THEN 1 ELSE 0)
               = Cardinality(InState(Cells, f, j)) + (IF k = j THEN 1 ELSE 0)
  <2>1. IsFiniteSet(Cells)
    BY ReuseFacts
  <2> QED
    BY <1>1, <2>1, CellCounts
<1>2. Cardinality(InState(Cells, row', j)) + (IF row[c] = j THEN 1 ELSE 0)
        = Cardinality(InState(Cells, row, j)) + (IF k = j THEN 1 ELSE 0)
  BY <1>1
<1> QED
  BY <1>2 DEF Count, InState

LEMMA RowChanges ==
    ASSUME row \in [Cells -> States], NEW a \in Account, NEW s \in Asset, NEW k \in States,
           row' = [row EXCEPT ![<<a, s>>] = k]
    PROVE  /\ row' \in [Cells -> States]
           /\ \A j : Count(j)' + (IF row[<<a, s>>] = j THEN 1 ELSE 0)
                       = Count(j) + (IF k = j THEN 1 ELSE 0)
           /\ Ready(a)' + (IF row[<<a, s>>] = "ready" THEN 1 ELSE 0)
                = Ready(a) + (IF k = "ready" THEN 1 ELSE 0)
           /\ \A b \in Account \ {a} : Ready(b)' = Ready(b)
<1>1. <<a, s>> \in Cells /\ row' \in [Cells -> States]
  BY DEF Cells
<1>2. \A x \in Cells : row'[x] = IF x = <<a, s>> THEN k ELSE row[x]
  BY <1>1
<1>3. ASSUME NEW j
      PROVE  Count(j)' + (IF row[<<a, s>>] = j THEN 1 ELSE 0)
               = Count(j) + (IF k = j THEN 1 ELSE 0)
  <2>1. PICK c \in Cells : c = <<a, s>>
    BY <1>1
  <2>2. \A x \in Cells : row'[x] = IF x = c THEN k ELSE row[x]
    BY <1>2, <2>1
  <2>3. Count(j)' + (IF row[c] = j THEN 1 ELSE 0) = Count(j) + (IF k = j THEN 1 ELSE 0)
    BY <2>2, CountChanges, Zenon
  <2> QED
    BY <2>1, <2>3
<1>4. Ready(a)' + (IF row[<<a, s>>] = "ready" THEN 1 ELSE 0)
        = Ready(a) + (IF k = "ready" THEN 1 ELSE 0)
  <2> DEFINE f == [x \in Asset |-> row[<<a, x>>]]
             g == [x \in Asset |-> row'[<<a, x>>]]
  <2>1. \A x \in Asset : g[x] = IF x = s THEN k ELSE f[x]
    BY <1>2 DEF Cells
  <2>2. /\ Ready(a)' = Cardinality(InState(Asset, g, "ready"))
        /\ Ready(a) = Cardinality(InState(Asset, f, "ready"))
        /\ f[s] = row[<<a, s>>]
    <3>1. /\ InState(Asset, g, "ready") = {x \in Asset : row'[<<a, x>>] = "ready"}
          /\ InState(Asset, f, "ready") = {x \in Asset : row[<<a, x>>] = "ready"}
      BY DEF InState
    <3> QED
      BY <3>1 DEF Ready
  <2> HIDE DEF f, g
  <2>3. Cardinality(InState(Asset, g, "ready")) + (IF f[s] = "ready" THEN 1 ELSE 0)
          = Cardinality(InState(Asset, f, "ready")) + (IF k = "ready" THEN 1 ELSE 0)
    BY <2>1, ReuseFacts, CellCounts
  <2> QED
    BY <2>2, <2>3
<1>5. ASSUME NEW b \in Account \ {a} PROVE Ready(b)' = Ready(b)
  <2>1. \A x \in Asset : row'[<<b, x>>] = row[<<b, x>>]
    BY <1>2 DEF Cells
  <2> QED
    BY <2>1 DEF Ready
<1> QED
  BY <1>1, <1>3, <1>4, <1>5

\* The places that the run goes past when it leaves an account behind.
LEMMA PassedGrows ==
    ASSUME NEW at \in Account, NEW ready \in [Account -> Nat], NEW n \in Nat,
           n = 0 \/ ready[at] + n <= ReadyTarget
    PROVE  Cardinality(Passed(at, ready)) + n <= Cardinality(Passed(at + 1, ready))
<1> DEFINE P == Passed(at, ready)
           N == {p \in Places : p[1] = at /\ ready[at] < p[2] /\ p[2] <= ready[at] + n}
<1>1. at \in Nat /\ ReadyTarget \in Nat
  BY ReuseFacts DEF Account
<1>2. \A p \in Places : p[1] \in Nat /\ p[2] \in Nat /\ p = <<p[1], p[2]>>
  BY DEF Places, Account
<1>3. P \cup N \subseteq Passed(at + 1, ready) /\ P \cap N = {}
  BY <1>1, <1>2 DEF Passed
<1>4. IsFiniteSet(P) /\ IsFiniteSet(N) /\ Cardinality(P) \in Nat /\ Cardinality(N) \in Nat
  <2>1. P \subseteq Places /\ N \subseteq Places
    BY DEF Passed
  <2> QED
    BY <2>1, ReuseFacts, FS_Subset, FS_CardinalityType
<1>5. n <= Cardinality(N)
  <2> DEFINE g == [p \in N |-> p[2] - ready[at]]
  <2>1. ready[at] \in Nat
    OBVIOUS
  <2>2. g \in [N -> 1..n]
    BY <1>2, <2>1
  <2>3. ASSUME NEW i \in 1..n PROVE \E p \in N : g[p] = i
    <3>1. <<at, ready[at] + i>> \in Places
      BY <1>1, <2>1, <2>3 DEF Places
    <3>2. <<at, ready[at] + i>> \in N
      BY <2>1, <2>3, <3>1
    <3>3. g[<<at, ready[at] + i>>] = i
      BY <2>1, <2>3, <3>2
    <3> QED
      BY <3>2, <3>3
  <2> HIDE DEF g, N
  <2>4. g \in Surjection(N, 1..n)
    BY <2>2, <2>3 DEF Surjection
  <2>5. Cardinality(1..n) <= Cardinality(N)
    BY <1>4, <2>4, FS_Surjection
  <2>6. Cardinality(1..n) = n
    <3>1. 1 \in Int /\ n \in Int
      OBVIOUS
    <3>2. Cardinality(1..n) = IF 1 > n THEN 0 ELSE n - 1 + 1
      BY <3>1, FS_Interval
    <3> QED
      BY <3>2
  <2> QED
    BY <2>5, <2>6
<1> HIDE DEF P, N
<1>6. Cardinality(P \cup N) = Cardinality(P) + Cardinality(N)
  <2>1. Cardinality(P \cup N) = Cardinality(P) + Cardinality(N) - Cardinality(P \cap N)
    BY <1>4, FS_Union
  <2>2. Cardinality(P \cap N) = 0
    BY <1>3, FS_EmptySet
  <2> QED
    BY <1>4, <2>1, <2>2
<1>7. Cardinality(P \cup N) <= Cardinality(Passed(at + 1, ready))
  BY <1>3, PassedIs, FS_Subset
<1>8. Cardinality(Passed(at + 1, ready)) \in Nat
  BY PassedIs
<1> QED
  BY <1>4, <1>5, <1>6, <1>7, <1>8 DEF P

\* What is ready at the count takes as many places as it has posts.
LEMMA ReadyIsPassed ==
    ASSUME NEW ready, ready = [a \in Account |-> Ready(a)],
           \A a \in Account : Ready(a) <= ReadyTarget
    PROVE  OwnReady <= Cardinality(Passed(1, ready))
<1> DEFINE W(a) == {s \in Asset : row[<<a, s>>] = "ready"}
           R    == {c \in Cells : row[c] = "ready"}
           b    == [a \in Account |-> CHOOSE f \in Bijection(1..Ready(a), W(a)) : TRUE]
<1>1. ASSUME NEW a \in Account PROVE b[a] \in Bijection(1..Ready(a), W(a)) /\ Ready(a) \in Nat
  <2>1. IsFiniteSet(W(a))
    BY ReuseFacts, FS_Subset
  <2>2. Cardinality(W(a)) \in Nat /\ ExistsBijection(1..Cardinality(W(a)), W(a))
    BY <2>1, FS_CardinalityType
  <2>3. Cardinality(W(a)) = Ready(a)
    BY DEF Ready
  <2>4. Bijection(1..Ready(a), W(a)) # {}
    BY <2>2, <2>3 DEF ExistsBijection
  <2> QED
    BY <2>2, <2>3, <2>4
<1>2. ASSUME NEW a \in Account
      PROVE  /\ \A i \in 1..Ready(a) : b[a][i] \in W(a)
             /\ \A s \in W(a) : \E i \in 1..Ready(a) : b[a][i] = s
  BY <1>1 DEF Bijection, Injection, Surjection
<1> HIDE DEF b
<1> DEFINE T == Passed(1, ready)
           g == [p \in T |-> <<p[1], b[p[1]][p[2]]>>]
<1>3. ASSUME NEW p \in T
      PROVE  p[1] \in Account /\ p[2] \in 1..Ready(p[1]) /\ p = <<p[1], p[2]>>
  <2>1. p \in Places /\ (p[1] < 1 \/ p[2] <= ready[p[1]])
    BY DEF Passed
  <2>2. p[1] \in Account /\ p[2] \in 1..ReadyTarget /\ p = <<p[1], p[2]>>
    BY <2>1 DEF Places
  <2> QED
    BY <1>1, <2>1, <2>2 DEF Account
<1>4. g \in [T -> R]
  <2>1. ASSUME NEW p \in T PROVE <<p[1], b[p[1]][p[2]]>> \in R
    <3>1. p[1] \in Account /\ b[p[1]][p[2]] \in W(p[1])
      BY <1>2, <1>3
    <3> QED
      BY <3>1 DEF Cells
  <2> QED
    BY <2>1
<1>5. ASSUME NEW c \in R PROVE \E p \in T : g[p] = c
  <2>1. c[1] \in Account /\ c[2] \in W(c[1]) /\ c = <<c[1], c[2]>>
    BY DEF Cells
  <2>2. PICK i \in 1..Ready(c[1]) : b[c[1]][i] = c[2]
    BY <1>2, <2>1
  <2>3. <<c[1], i>> \in T
    <3>1. i \in 1..ReadyTarget
      <4>1. PICK n \in Nat : n = Ready(c[1])
        BY <1>1, <2>1
      <4>2. n <= ReadyTarget /\ ReadyTarget \in Nat
        BY <2>1, <4>1, ReuseFacts
      <4> QED
        BY <2>2, <4>1, <4>2
    <3>2. ready[c[1]] = Ready(c[1])
      BY <2>1
    <3> QED
      BY <2>1, <2>2, <3>1, <3>2 DEF Passed, Places
  <2>4. g[<<c[1], i>>] = c
    BY <2>1, <2>2, <2>3
  <2> QED
    BY <2>3, <2>4
<1>6. IsFiniteSet(T)
  BY PassedIs
<1> HIDE DEF g, T
<1>7. g \in Surjection(T, R)
  BY <1>4, <1>5 DEF Surjection
<1>8. Cardinality(R) <= Cardinality(T)
  BY <1>6, <1>7, FS_Surjection
<1> QED
  BY <1>8 DEF OwnReady, Count, T

\* Places taken never outnumber the posts that may wait: what that says of a round that ends.
LEMMA EndKeeps ==
    ASSUME turn' = NoRound, row' \in [Cells -> States], twice' = FALSE,
           other' \in 0..1, lost' \in 0..MaxLost,
           OwnReady' <= ReadyCap, \A a \in Account : Ready(a)' <= ReadyTarget,
           (RecentFailed + OwnReady)' <= Breaker - 1 + ReadyCap,
           (RecentFailed + OwnReady)' <= Breaker - 1 + Targets * ReadyTarget
    PROVE  ReuseInv'
<1>1. /\ NoRound \in Turns /\ NoRound.pc = "idle"
  BY ReuseFacts DEF NoRound, Turns
<1>2. ReuseTypes' /\ AssetInv'
  BY <1>1 DEF ReuseTypes, AssetInv
<1>3. BacklogInv' /\ FailInv'
  BY <1>1 DEF BacklogInv, FailInv, Ahead
<1> QED
  BY <1>2, <1>3 DEF ReuseInv

LEMMA RowStays ==
    ASSUME UNCHANGED row
    PROVE  /\ OwnReady' = OwnReady /\ RecentFailed' = RecentFailed
           /\ \A a : Ready(a)' = Ready(a)
BY DEF OwnReady, RecentFailed, Count, Ready

\* A round that ends where nothing was made.
LEMMA StopKeeps ==
    ASSUME ReuseInv, turn' = NoRound, UNCHANGED <<row, twice, other>>, lost' \in 0..MaxLost
    PROVE  ReuseInv'
<1>1. /\ row \in [Cells -> States] /\ twice = FALSE /\ other \in 0..1
  BY DEF ReuseInv, ReuseTypes
<1>2. /\ OwnReady <= ReadyCap /\ \A a \in Account : Ready(a) <= ReadyTarget
      /\ RecentFailed + OwnReady <= Breaker - 1 + ReadyCap
      /\ RecentFailed + OwnReady <= Breaker - 1 + Targets * ReadyTarget
  BY DEF ReuseInv, BacklogInv, FailInv
<1>3. OwnReady' = OwnReady /\ RecentFailed' = RecentFailed /\ \A a : Ready(a)' = Ready(a)
  BY RowStays
<1> QED
  BY <1>1, <1>2, <1>3, EndKeeps

LEMMA TurnIs ==
    ASSUME ReuseTypes
    PROVE  /\ turn.pc \in {"idle", "breaker", "account", "asset"} /\ turn.at \in 0..(Targets + 1)
           /\ turn.total \in Nat /\ turn.ready \in [Account -> Nat] /\ turn.need \in Nat
           /\ turn.src \in Nat /\ turn.have \in SUBSET Asset
           /\ \A a \in Account : turn.ready[a] \in Nat
BY DEF ReuseTypes, Turns

LEMMA CountReadyKeeps ==
    ASSUME ReuseInv, CountReady
    PROVE  ReuseInv'
<1>1. turn.pc = "idle" /\ UNCHANGED <<row, twice, other, lost>> /\ lost \in 0..MaxLost
  BY DEF CountReady, ReuseInv, ReuseTypes
<1>2. CASE OwnReady + other >= ReadyCap
  BY <1>1, <1>2, StopKeeps DEF CountReady, End
<1>3. CASE ~(OwnReady + other >= ReadyCap)
  <2>1. PICK r, n : /\ r = [a \in Account |-> Ready(a)] /\ n = OwnReady + other
                    /\ turn' = [NoRound EXCEPT !.pc = "breaker", !.total = n, !.ready = r]
    BY <1>3 DEF CountReady
  <2>2. r \in [Account -> Nat] /\ n \in Nat /\ OwnReady <= n /\ n <= ReadyCap /\ OwnReady \in Nat
    BY <1>3, <2>1, CountsAre, ReuseFacts DEF ReuseInv, ReuseTypes, CountTypes
  <2>3. turn' \in Turns /\ turn'.pc = "breaker" /\ turn'.total = n /\ turn'.ready = r
    <3>1. PICK q : q = NoRound
      OBVIOUS
    <3>2. q \in Turns
      BY <3>1, ReuseFacts DEF NoRound, Turns
    <3>3. turn' = [q EXCEPT !.pc = "breaker", !.total = n, !.ready = r]
      BY <2>1, <3>1
    <3> QED
      BY <2>2, <3>2, <3>3 DEF Turns
  <2>4. /\ OwnReady' = OwnReady /\ RecentFailed' = RecentFailed
        /\ \A a \in Account : Ready(a)' = Ready(a)
    BY <1>1, RowStays
  <2>5. OwnReady <= Cardinality(Passed(1, r))
    BY <2>1, ReadyIsPassed DEF ReuseInv, BacklogInv
  <2>6. ReuseTypes' /\ AssetInv'
    BY <1>1, <2>3 DEF ReuseInv, ReuseTypes, AssetInv
  <2>7. BacklogInv'
    BY <2>1, <2>2, <2>3, <2>4 DEF ReuseInv, BacklogInv
  <2>8. FailInv'
    BY <2>3, <2>4, <2>5 DEF ReuseInv, FailInv
  <2> QED
    BY <2>6, <2>7, <2>8 DEF ReuseInv
<1> QED
  BY <1>2, <1>3

LEMMA CheckKeeps ==
    ASSUME ReuseInv, Check
    PROVE  ReuseInv'
<1>1. /\ turn.pc = "breaker" /\ UNCHANGED <<row, twice, other, lost>> /\ lost \in 0..MaxLost
      /\ ReuseTypes
  BY DEF Check, ReuseInv, ReuseTypes
<1>2. CASE ~MayAdd
  BY <1>1, <1>2, StopKeeps DEF Check, End
<1>3. CASE MayAdd
  <2>1. /\ turn' = [turn EXCEPT !.pc = "account", !.at = 1] /\ RecentFailed < Breaker
    BY <1>3 DEF Check, MayAdd
  <2>2. 1 \in 0..(Targets + 1)
    BY ReuseFacts
  <2>3. /\ turn' \in Turns /\ turn'.pc = "account" /\ turn'.at = 1 /\ turn'.total = turn.total
        /\ turn'.ready = turn.ready
    BY <1>1, <2>1, <2>2 DEF ReuseTypes, Turns
  <2>4. /\ OwnReady' = OwnReady /\ RecentFailed' = RecentFailed
        /\ \A a \in Account : Ready(a)' = Ready(a)
    BY <1>1, RowStays
  <2>5. /\ OwnReady \in Nat /\ RecentFailed \in Nat /\ Breaker \in Nat
        /\ turn.total \in Nat /\ Cardinality(Passed(1, turn.ready)) \in Nat
    BY <1>1, CountsAre, ReuseFacts, TurnIs, PassedIs DEF CountTypes
  <2>6. ReuseTypes' /\ AssetInv'
    BY <1>1, <2>3 DEF ReuseTypes, AssetInv
  <2>7. BacklogInv'
    BY <1>1, <2>3, <2>4 DEF ReuseInv, BacklogInv, Ahead, Account
  <2>8. FailInv'
    <3>1. /\ OwnReady <= turn.total /\ OwnReady <= Cardinality(Passed(1, turn.ready))
      BY <1>1 DEF ReuseInv, BacklogInv, FailInv
    <3>2. /\ RecentFailed + OwnReady <= Breaker - 1 + turn.total
          /\ RecentFailed + OwnReady <= Breaker - 1 + Cardinality(Passed(1, turn.ready))
      BY <2>1, <2>5, <3>1
    <3> QED
      BY <2>3, <2>4, <3>2 DEF ReuseInv, FailInv
  <2> QED
    BY <2>6, <2>7, <2>8 DEF ReuseInv
<1> QED
  BY <1>2, <1>3

\* The run goes past an account, whatever it still needed.
LEMMA PassKeeps ==
    ASSUME ReuseInv, turn.pc \in {"account", "asset"}, turn.at \in Account, turn' = NextAccount,
           UNCHANGED <<row, twice, other, lost>>
    PROVE  ReuseInv'
<1>1. /\ ReuseTypes /\ turn.at \in Nat /\ turn.at + 1 \in 0..(Targets + 1) /\ turn.at + 1 >= 1
      /\ turn.at <= Targets
  BY ReuseFacts DEF ReuseInv, Account
<1>2. /\ turn' \in Turns /\ turn'.pc = "account" /\ turn'.at = turn.at + 1
      /\ turn'.total = turn.total /\ turn'.ready = turn.ready
  BY <1>1 DEF NextAccount, ReuseTypes, Turns
<1>3. /\ OwnReady' = OwnReady /\ RecentFailed' = RecentFailed
      /\ \A a \in Account : Ready(a)' = Ready(a)
  BY RowStays
<1>4. ReuseTypes' /\ AssetInv'
  BY <1>1, <1>2 DEF ReuseTypes, AssetInv
<1>5. BacklogInv'
  <2>1. \A a \in Account : Ahead(a)' => Ahead(a)
    BY <1>1, <1>2 DEF Ahead, Account
  <2> QED
    BY <1>2, <1>3, <2>1 DEF ReuseInv, BacklogInv
<1>6. FailInv'
  <2>1. PICK m \in Nat, n \in Nat : /\ m = Cardinality(Passed(turn.at, turn.ready))
                                    /\ n = Cardinality(Passed(turn.at + 1, turn.ready))
    BY PassedIs
  <2>2. m <= n
    <3>1. m + 0 <= n
      BY <1>1, <2>1, PassedGrows, TurnIs
    <3> QED
      BY <2>1, <3>1
  <2>3. /\ OwnReady \in Nat /\ RecentFailed \in Nat /\ Breaker \in Nat /\ turn.need \in Nat
    BY <1>1, CountsAre, ReuseFacts, TurnIs DEF CountTypes
  <2>4. RecentFailed + OwnReady <= Breaker - 1 + n
    BY <2>1, <2>2, <2>3 DEF ReuseInv, FailInv
  <2>5. Cardinality(Passed(turn'.at, turn'.ready)) = n
    BY <1>2, <2>1
  <2> QED
    BY <1>2, <1>3, <2>4, <2>5 DEF ReuseInv, FailInv
<1> QED
  BY <1>4, <1>5, <1>6 DEF ReuseInv

LEMMA EnterKeeps ==
    ASSUME ReuseInv, Enter
    PROVE  ReuseInv'
<1>1. /\ turn.pc = "account" /\ UNCHANGED <<row, twice, other, lost>> /\ lost \in 0..MaxLost
      /\ ReuseTypes
  BY DEF Enter, ReuseInv, ReuseTypes
<1>2. CASE turn.at \notin Account
  BY <1>1, <1>2, StopKeeps DEF Enter, End
<1>3. CASE turn.at \in Account /\ turn' = NextAccount
  BY <1>1, <1>3, PassKeeps
<1>4. CASE /\ turn.at \in Account /\ Need(turn.at) > 0
           /\ turn' = [turn EXCEPT !.pc = "asset", !.need = Need(turn.at), !.src = 1,
                                   !.have = Have(turn.at)]
  <2>1. PICK n, h, k, m : /\ n = Need(turn.at) /\ h = Have(turn.at)
                          /\ k = Cardinality(Passed(turn.at, turn.ready))
                          /\ m = Cardinality(Passed(turn.at + 1, turn.ready))
    OBVIOUS
  <2>2. /\ turn.total \in Nat /\ turn.ready[turn.at] \in Nat /\ turn.at \in Nat
        /\ ReadyTarget \in Nat /\ ReadyCap \in Nat /\ k \in Nat /\ m \in Nat
        /\ turn.ready \in [Account -> Nat]
    BY <1>1, <1>4, <2>1, TurnIs, ReuseFacts, PassedIs DEF Account
  <2>3. /\ n \in Nat /\ n > 0 /\ turn.ready[turn.at] + n <= ReadyTarget
        /\ turn.total + n <= ReadyCap
    BY <1>4, <2>1, <2>2 DEF Need, Min2
  <2>4. k + n <= m
    BY <1>4, <2>1, <2>2, <2>3, PassedGrows
  <2>5. /\ h \in SUBSET Asset /\ \A s \in Asset \ h : row[<<turn.at, s>>] = "none"
    BY <2>1 DEF Have
  <2>6. /\ turn' \in Turns /\ turn'.pc = "asset" /\ turn'.at = turn.at /\ turn'.need = n
        /\ turn'.src = 1 /\ turn'.have = h /\ turn'.total = turn.total /\ turn'.ready = turn.ready
    <3>1. turn' = [turn EXCEPT !.pc = "asset", !.need = n, !.src = 1, !.have = h]
      BY <1>4, <2>1
    <3> QED
      BY <1>1, <2>3, <2>5, <3>1 DEF ReuseTypes, Turns
  <2>7. /\ OwnReady' = OwnReady /\ RecentFailed' = RecentFailed
        /\ \A a \in Account : Ready(a)' = Ready(a)
    BY <1>1, RowStays
  <2>8. ReuseTypes'
    BY <1>1, <1>4, <2>6 DEF ReuseTypes
  <2>9. AssetInv'
    BY <1>1, <2>5, <2>6 DEF AssetInv
  <2>10. BacklogInv'
    <3>1. Ready(turn.at) <= turn.ready[turn.at] /\ Ready(turn.at) \in Nat
      BY <1>1, <1>4, <2>2, CountsAre DEF ReuseInv, BacklogInv, Ahead, CountTypes
    <3>2. Ready(turn.at) + n <= ReadyTarget
      BY <2>2, <2>3, <3>1
    <3>3. \A a \in Account : Ahead(a)' => Ahead(a)
      BY <1>1, <2>2, <2>6 DEF Ahead, Account
    <3>4. Ready(turn.at)' = Ready(turn.at)
      BY <1>1, <2>6 DEF Ready
    <3> QED
      BY <1>1, <2>3, <2>6, <2>7, <3>2, <3>3, <3>4 DEF ReuseInv, BacklogInv
  <2>11. FailInv'
    <3>1. OwnReady \in Nat /\ RecentFailed \in Nat /\ Breaker \in Nat
      BY CountsAre, ReuseFacts DEF CountTypes
    <3>2. /\ RecentFailed + OwnReady <= Breaker - 1 + k
          /\ RecentFailed + OwnReady <= Breaker - 1 + turn.total
      BY <1>1, <2>1 DEF ReuseInv, FailInv
    <3>3. RecentFailed + OwnReady + n <= Breaker - 1 + m
      BY <2>2, <2>3, <2>4, <3>1, <3>2
    <3>4. Cardinality(Passed(turn'.at + 1, turn'.ready)) = m
      BY <2>1, <2>6
    <3> QED
      BY <1>1, <2>6, <2>7, <3>2, <3>3, <3>4 DEF ReuseInv, FailInv
  <2> QED
    BY <2>8, <2>9, <2>10, <2>11 DEF ReuseInv
<1> QED
  BY <1>1, <1>2, <1>3, <1>4 DEF Enter

\* The next asset is passed over.
LEMMA SkipKeeps ==
    ASSUME ReuseInv, turn.pc = "asset", turn' = [turn EXCEPT !.src = @ + 1],
           UNCHANGED <<row, twice, other, lost>>
    PROVE  ReuseInv'
<1>1. /\ ReuseTypes /\ turn.src \in Nat
  BY TurnIs DEF ReuseInv
<1>2. /\ turn' \in Turns /\ turn'.pc = "asset" /\ turn'.at = turn.at /\ turn'.need = turn.need
      /\ turn'.src = turn.src + 1 /\ turn'.have = turn.have /\ turn'.total = turn.total
      /\ turn'.ready = turn.ready
  BY <1>1 DEF ReuseTypes, Turns
<1>3. /\ OwnReady' = OwnReady /\ RecentFailed' = RecentFailed
      /\ \A a : Ready(a)' = Ready(a)
  BY RowStays
<1>4. ReuseTypes'
  BY <1>1, <1>2 DEF ReuseTypes
<1>5. AssetInv'
  BY <1>1, <1>2 DEF ReuseInv, AssetInv, Asset
<1>6. BacklogInv'
  <2>1. \A a \in Account : Ahead(a)' => Ahead(a)
    BY <1>2 DEF Ahead
  <2>2. Ready(turn.at)' = Ready(turn.at)
    BY <1>2 DEF Ready
  <2> QED
    BY <1>2, <1>3, <2>1, <2>2 DEF ReuseInv, BacklogInv
<1>7. FailInv'
  BY <1>2, <1>3 DEF ReuseInv, FailInv
<1> QED
  BY <1>4, <1>5, <1>6, <1>7 DEF ReuseInv

\* What making a post does to the counts, whether the run hears of it or not.
LEMMA SaveCounts ==
    ASSUME ReuseInv, turn.pc = "asset", turn.need > 0, turn.src \in Asset \ turn.have,
           Save(<<turn.at, turn.src>>)
    PROVE  /\ row' \in [Cells -> States] /\ twice' = FALSE
           /\ OwnReady' = OwnReady + 1 /\ RecentFailed' = RecentFailed
           /\ \A a \in Account : a = turn.at => Ready(a)' = Ready(a) + 1
           /\ \A a \in Account \ {turn.at} : Ready(a)' = Ready(a)
           /\ \A s \in Asset : s # turn.src => row'[<<turn.at, s>>] = row[<<turn.at, s>>]
<1>1. /\ row \in [Cells -> States] /\ twice = FALSE /\ turn.at \in Account /\ turn.src \in Nat
      /\ row[<<turn.at, turn.src>>] = "none"
  <2>1. turn.src <= turn.src
    BY DEF Asset
  <2>2. row[<<turn.at, turn.src>>] = "none"
    BY <2>1 DEF ReuseInv, AssetInv
  <2> QED
    BY <2>2, TurnIs DEF ReuseInv, ReuseTypes
<1>2. PICK a \in Account, s \in Asset : a = turn.at /\ s = turn.src
  BY <1>1
<1>3. row' = [row EXCEPT ![<<a, s>>] = "ready"] /\ twice' = FALSE /\ row[<<a, s>>] = "none"
  BY <1>1, <1>2 DEF Save
<1>4. "ready" \in States
  BY DEF States
<1>5. /\ row' \in [Cells -> States]
      /\ \A j : Count(j)' + (IF row[<<a, s>>] = j THEN 1 ELSE 0)
                  = Count(j) + (IF "ready" = j THEN 1 ELSE 0)
      /\ Ready(a)' + (IF row[<<a, s>>] = "ready" THEN 1 ELSE 0)
           = Ready(a) + (IF "ready" = "ready" THEN 1 ELSE 0)
      /\ \A b \in Account \ {a} : Ready(b)' = Ready(b)
  BY <1>1, <1>3, <1>4, RowChanges
<1>6. /\ (\A k : Count(k) \in Nat) /\ (\A b : Ready(b) \in Nat)
      /\ (\A k : Count(k) \in Nat)' /\ (\A b : Ready(b) \in Nat)'
  <2>1. CountTypes /\ CountTypes'
    BY CountsAre, PTL
  <2> QED
    BY <2>1 DEF CountTypes
<1>7. OwnReady' = OwnReady + 1 /\ RecentFailed' = RecentFailed
  <2>1. Count("ready")' + 0 = Count("ready") + 1
    BY <1>3, <1>5
  <2>2. Count("failed")' + 0 = Count("failed") + 0
    BY <1>3, <1>5
  <2>3. /\ Count("ready") \in Nat /\ Count("ready")' \in Nat
        /\ Count("failed") \in Nat /\ Count("failed")' \in Nat
    BY <1>6
  <2> QED
    BY <2>1, <2>2, <2>3 DEF OwnReady, RecentFailed
<1>8. Ready(a)' = Ready(a) + 1
  <2>1. Ready(a)' + 0 = Ready(a) + 1
    BY <1>3, <1>5
  <2>2. Ready(a) \in Nat /\ Ready(a)' \in Nat
    BY <1>6
  <2> QED
    BY <2>1, <2>2
<1>9. \A x \in Asset : x # s => row'[<<a, x>>] = row[<<a, x>>]
  BY <1>1, <1>3 DEF Cells
<1> QED
  BY <1>2, <1>3, <1>5, <1>7, <1>8, <1>9

\* A post is made, and the run hears of it or ends without an answer.
LEMMA MadeKeeps ==
    ASSUME ReuseInv, turn.pc = "asset", turn.need > 0, turn.src \in Asset \ turn.have,
           Save(<<turn.at, turn.src>>), UNCHANGED other, lost' \in 0..MaxLost,
           \/ turn' = NoRound
           \/ turn' = [turn EXCEPT !.src = @ + 1, !.need = @ - 1, !.total = @ + 1]
    PROVE  ReuseInv'
<1>1. /\ ReuseTypes /\ turn.src \in Nat /\ turn.need \in Nat /\ turn.total \in Nat
      /\ turn.at \in Account /\ other \in 0..1 /\ lost \in 0..MaxLost
      /\ turn.src + 1 \in Nat /\ turn.need - 1 \in Nat /\ turn.total + 1 \in Nat
  <2>1. ReuseTypes /\ turn.src \in Nat /\ turn.need \in Nat /\ turn.total \in Nat
    BY TurnIs DEF ReuseInv
  <2> QED
    BY <2>1 DEF ReuseTypes
<1>2. /\ row' \in [Cells -> States] /\ twice' = FALSE
      /\ OwnReady' = OwnReady + 1 /\ RecentFailed' = RecentFailed
      /\ \A a \in Account : a = turn.at => Ready(a)' = Ready(a) + 1
      /\ \A a \in Account \ {turn.at} : Ready(a)' = Ready(a)
      /\ \A s \in Asset : s # turn.src => row'[<<turn.at, s>>] = row[<<turn.at, s>>]
  BY SaveCounts
<1>3. PICK m \in Nat : m = Cardinality(Passed(turn.at + 1, turn.ready))
  BY PassedIs
<1>4. /\ OwnReady <= turn.total /\ turn.total + turn.need <= ReadyCap
      /\ \A a \in Account : Ready(a) <= ReadyTarget
      /\ Ready(turn.at) + turn.need <= ReadyTarget
      /\ RecentFailed + OwnReady <= Breaker - 1 + turn.total
      /\ RecentFailed + OwnReady + turn.need <= Breaker - 1 + m
      /\ m <= Targets * ReadyTarget
  BY <1>3, PassedIs DEF ReuseInv, BacklogInv, FailInv
<1>5. /\ OwnReady \in Nat /\ RecentFailed \in Nat /\ \A a : Ready(a) \in Nat
      /\ Breaker \in Nat /\ ReadyCap \in Nat /\ ReadyTarget \in Nat
      /\ Targets * ReadyTarget \in Nat
  BY CountsAre, ReuseFacts DEF CountTypes
<1>6. /\ OwnReady' <= turn.total + 1 /\ turn.total + 1 <= ReadyCap
      /\ RecentFailed + OwnReady' <= Breaker - 1 + (turn.total + 1)
      /\ RecentFailed + OwnReady' + (turn.need - 1) <= Breaker - 1 + m
      /\ RecentFailed + OwnReady' <= Breaker - 1 + m
  BY <1>1, <1>2, <1>4, <1>5
<1>7. \A a \in Account : Ready(a)' <= ReadyTarget
  <2>1. ASSUME NEW a \in Account, a = turn.at
        PROVE  Ready(a)' <= ReadyTarget /\ Ready(a)' + (turn.need - 1) <= ReadyTarget
    BY <1>1, <1>2, <1>4, <1>5, <2>1
  <2> QED
    BY <1>2, <1>4, <2>1
<1>8. CASE turn' = NoRound
  <2>1. OwnReady' \in Nat /\ (RecentFailed + OwnReady)' = RecentFailed + OwnReady'
    BY <1>2, <1>5
  <2>2. /\ OwnReady' <= ReadyCap
        /\ (RecentFailed + OwnReady)' <= Breaker - 1 + ReadyCap
        /\ (RecentFailed + OwnReady)' <= Breaker - 1 + Targets * ReadyTarget
    BY <1>1, <1>4, <1>5, <1>6, <2>1
  <2> QED
    BY <1>1, <1>2, <1>7, <1>8, <2>2, EndKeeps
<1>9. CASE turn' = [turn EXCEPT !.src = @ + 1, !.need = @ - 1, !.total = @ + 1]
  <2>1. /\ turn' \in Turns /\ turn'.pc = "asset" /\ turn'.at = turn.at
        /\ turn'.need = turn.need - 1 /\ turn'.src = turn.src + 1 /\ turn'.have = turn.have
        /\ turn'.total = turn.total + 1 /\ turn'.ready = turn.ready
    BY <1>1, <1>9 DEF ReuseTypes, Turns
  <2>2. ReuseTypes'
    BY <1>1, <1>2, <2>1 DEF ReuseTypes
  <2>3. AssetInv'
    <3>1. ASSUME NEW s \in Asset \ turn.have, turn.src + 1 <= s
          PROVE  row'[<<turn.at, s>>] = "none"
      <4>1. turn.src <= s /\ s # turn.src
        BY <1>1, <3>1 DEF Asset
      <4> QED
        BY <1>2, <3>1, <4>1 DEF ReuseInv, AssetInv
    <3> QED
      BY <2>1, <3>1 DEF AssetInv
  <2>4. BacklogInv'
    <3>1. \A a \in Account : Ahead(a)' => Ahead(a) /\ a # turn.at
      BY <2>1 DEF Ahead, Account
    <3>2. \A a \in Account : Ahead(a)' => Ready(a)' <= turn'.ready[a]
      BY <1>2, <2>1, <3>1 DEF ReuseInv, BacklogInv
    <3>3. Ready(turn.at)' + turn'.need <= ReadyTarget
      <4>1. PICK a \in Account : a = turn.at
        BY <1>1
      <4>2. Ready(a)' + (turn.need - 1) <= ReadyTarget
        BY <1>1, <1>2, <1>4, <1>5, <4>1
      <4>3. Ready(turn.at)' = Ready(a)'
        BY <2>1, <4>1 DEF Ready
      <4> QED
        BY <2>1, <4>2, <4>3
    <3>4. turn'.total + turn'.need <= ReadyCap
      BY <1>1, <1>4, <2>1
    <3>5. OwnReady' <= ReadyCap
      BY <1>1, <1>2, <1>5, <1>6
    <3> QED
      BY <1>6, <1>7, <2>1, <3>2, <3>3, <3>4, <3>5 DEF BacklogInv
  <2>5. FailInv'
    <3>1. Cardinality(Passed(turn'.at + 1, turn'.ready)) = m
      BY <1>3, <2>1
    <3>2. /\ RecentFailed + OwnReady' <= Breaker - 1 + ReadyCap
          /\ RecentFailed + OwnReady' <= Breaker - 1 + Targets * ReadyTarget
      BY <1>1, <1>2, <1>4, <1>5, <1>6
    <3> QED
      BY <1>2, <1>6, <2>1, <3>1, <3>2 DEF FailInv
  <2> QED
    BY <2>2, <2>3, <2>4, <2>5 DEF ReuseInv
<1> QED
  BY <1>8, <1>9

LEMMA TryKeeps ==
    ASSUME ReuseInv, Try
    PROVE  ReuseInv'
<1>1. /\ turn.pc = "asset" /\ UNCHANGED other /\ lost \in 0..MaxLost /\ MaxLost \in Nat
      /\ turn.at \in Account
  BY ReuseFacts DEF Try, ReuseInv, ReuseTypes
<1>2. CASE turn' = NextAccount /\ UNCHANGED <<row, twice, lost>>
  BY <1>1, <1>2, PassKeeps
<1>3. CASE turn' = [turn EXCEPT !.src = @ + 1] /\ UNCHANGED <<row, twice, lost>>
  BY <1>1, <1>3, SkipKeeps
<1>4. CASE /\ turn.need > 0 /\ turn.src \in Asset \ turn.have
           /\ \/ /\ Save(<<turn.at, turn.src>>)
                 /\ turn' = [turn EXCEPT !.src = @ + 1, !.need = @ - 1, !.total = @ + 1]
                 /\ UNCHANGED lost
              \/ /\ Lost /\ End
                 /\ Save(<<turn.at, turn.src>>) \/ UNCHANGED <<row, twice>>
  <2>1. lost' \in 0..MaxLost
    BY <1>1, <1>4 DEF Lost
  <2>2. CASE Save(<<turn.at, turn.src>>)
    BY <1>1, <1>4, <2>1, <2>2, MadeKeeps DEF End
  <2>3. CASE ~Save(<<turn.at, turn.src>>)
    BY <1>1, <1>4, <2>1, <2>3, StopKeeps DEF End
  <2> QED
    BY <2>2, <2>3
<1> QED
  BY <1>2, <1>3, <1>4 DEF Try

\* A post is published, fails, or failed long ago: less waits, and no more has failed than
\* was waiting.
LEMMA MoveKeeps ==
    ASSUME ReuseInv, NEW c \in Cells, Poll(c) \/ Age(c)
    PROVE  ReuseInv'
<1>1. PICK a \in Account, s \in Asset : c = <<a, s>>
  BY DEF Cells
<1>2. PICK from \in {"ready", "failed"}, to \in {"over", "failed"} :
         /\ row[<<a, s>>] = from /\ row' = [row EXCEPT ![<<a, s>>] = to]
         /\ from = "failed" => to = "over"
         /\ UNCHANGED <<twice, other, turn, lost>>
  BY <1>1 DEF Poll, Age, Move
<1>3. row \in [Cells -> States] /\ to \in States
  BY DEF ReuseInv, ReuseTypes, States
<1>4. /\ row' \in [Cells -> States]
      /\ \A j : Count(j)' + (IF row[<<a, s>>] = j THEN 1 ELSE 0)
                  = Count(j) + (IF to = j THEN 1 ELSE 0)
      /\ Ready(a)' + (IF row[<<a, s>>] = "ready" THEN 1 ELSE 0)
           = Ready(a) + (IF to = "ready" THEN 1 ELSE 0)
      /\ \A b \in Account \ {a} : Ready(b)' = Ready(b)
  BY <1>2, <1>3, RowChanges
<1>5. CountTypes /\ CountTypes'
  BY CountsAre, PTL
<1>6. OwnReady' <= OwnReady /\ RecentFailed' + OwnReady' <= RecentFailed + OwnReady
  <2>1. /\ Count("ready")' + (IF from = "ready" THEN 1 ELSE 0) = Count("ready") + 0
        /\ Count("failed")' + (IF from = "failed" THEN 1 ELSE 0)
             = Count("failed") + (IF to = "failed" THEN 1 ELSE 0)
    BY <1>2, <1>4
  <2>2. /\ Count("ready") \in Nat /\ Count("ready")' \in Nat
        /\ Count("failed") \in Nat /\ Count("failed")' \in Nat
    BY <1>5 DEF CountTypes
  <2> QED
    BY <1>2, <2>1, <2>2 DEF OwnReady, RecentFailed
<1>7. \A b \in Account : Ready(b)' <= Ready(b)
  <2>1. Ready(a)' + (IF from = "ready" THEN 1 ELSE 0) = Ready(a) + 0
    BY <1>2, <1>4
  <2>2. \A b : Ready(b) \in Nat /\ Ready(b)' \in Nat
    BY <1>5 DEF CountTypes
  <2>3. Ready(a)' <= Ready(a)
    BY <2>1, <2>2
  <2>4. \A b \in Account \ {a} : Ready(b)' <= Ready(b)
    BY <1>4, <2>2
  <2> QED
    BY <2>3, <2>4
<1>8. \A x \in Cells : row[x] = "none" => row'[x] = "none"
  BY <1>1, <1>2, <1>3
<1>9. ReuseTypes'
  BY <1>2, <1>4 DEF ReuseInv, ReuseTypes
<1>10. AssetInv'
  BY <1>2, <1>8 DEF ReuseInv, ReuseTypes, AssetInv, Cells
<1>11. /\ OwnReady \in Nat /\ OwnReady' \in Nat /\ RecentFailed \in Nat /\ RecentFailed' \in Nat
       /\ ReadyCap \in Nat /\ ReadyTarget \in Nat /\ Breaker \in Nat
       /\ Targets * ReadyTarget \in Nat
       /\ turn.total \in Nat /\ turn.need \in Nat /\ \A b \in Account : turn.ready[b] \in Nat
  BY <1>5, ReuseFacts, TurnIs DEF CountTypes, ReuseInv
<1>12. BacklogInv'
  <2>1. OwnReady' <= ReadyCap /\ (turn.pc # "idle" => OwnReady' <= turn.total)
    BY <1>6, <1>11 DEF ReuseInv, BacklogInv
  <2>2. \A b : Ready(b) \in Nat /\ Ready(b)' \in Nat
    BY <1>5 DEF CountTypes
  <2>3. \A b \in Account : Ready(b)' <= ReadyTarget
    BY <1>7, <1>11, <2>2 DEF ReuseInv, BacklogInv
  <2>4. \A b \in Account : Ahead(b)' => Ready(b)' <= turn.ready[b]
    <3>1. \A b \in Account : Ahead(b)' => Ahead(b)
      BY <1>2 DEF Ahead
    <3> QED
      BY <1>7, <1>11, <2>2, <3>1 DEF ReuseInv, BacklogInv
  <2>5. ASSUME turn.pc = "asset"
        PROVE  Ready(turn.at)' + turn.need <= ReadyTarget
    <3>1. PICK b \in Account : b = turn.at
      BY <2>5 DEF ReuseInv, ReuseTypes
    <3>2. Ready(b) + turn.need <= ReadyTarget
      BY <2>5, <3>1 DEF ReuseInv, BacklogInv
    <3>3. Ready(b)' + turn.need <= ReadyTarget
      BY <1>7, <1>11, <2>2, <3>2
    <3>4. Ready(turn.at)' = Ready(b)'
      BY <1>2, <3>1 DEF Ready
    <3> QED
      BY <3>3, <3>4
  <2> QED
    BY <1>2, <2>1, <2>3, <2>4, <2>5 DEF ReuseInv, BacklogInv
<1>13. FailInv'
  <2>1. /\ RecentFailed' + OwnReady' <= Breaker - 1 + ReadyCap
        /\ RecentFailed' + OwnReady' <= Breaker - 1 + Targets * ReadyTarget
    BY <1>6, <1>11 DEF ReuseInv, FailInv
  <2>2. PICK k \in Nat, m \in Nat, n \in Nat :
           /\ k = Cardinality(Passed(1, turn.ready))
           /\ m = Cardinality(Passed(turn.at, turn.ready))
           /\ n = Cardinality(Passed(turn.at + 1, turn.ready))
    BY PassedIs
  <2>3. /\ turn.pc = "breaker" => OwnReady' <= k
        /\ turn.pc \in {"account", "asset"} => RecentFailed' + OwnReady' <= Breaker - 1 + turn.total
        /\ turn.pc = "account" => RecentFailed' + OwnReady' <= Breaker - 1 + m
        /\ turn.pc = "asset" => RecentFailed' + OwnReady' + turn.need <= Breaker - 1 + n
    <3>1. /\ turn.pc = "breaker" => OwnReady <= k
          /\ turn.pc \in {"account", "asset"} => RecentFailed + OwnReady <= Breaker - 1 + turn.total
          /\ turn.pc = "account" => RecentFailed + OwnReady <= Breaker - 1 + m
          /\ turn.pc = "asset" => RecentFailed + OwnReady + turn.need <= Breaker - 1 + n
      BY <2>2 DEF ReuseInv, FailInv
    <3>2. PICK u \in Nat, v \in Nat, w \in Nat, x \in Nat :
             u = OwnReady /\ v = RecentFailed /\ w = OwnReady' /\ x = RecentFailed'
      BY <1>11
    <3>3. w <= u /\ x + w <= v + u
      BY <1>6, <3>2
    <3>4. PICK d \in Nat, e \in Nat, b \in Nat :
             d = turn.total /\ e = turn.need /\ b = Breaker
      BY <1>11
    <3>5. /\ turn.pc = "breaker" => u <= k
          /\ turn.pc \in {"account", "asset"} => v + u <= b - 1 + d
          /\ turn.pc = "account" => v + u <= b - 1 + m
          /\ turn.pc = "asset" => v + u + e <= b - 1 + n
      BY <3>1, <3>2, <3>4
    <3>6. /\ u <= k => w <= k
          /\ v + u <= b - 1 + d => x + w <= b - 1 + d
          /\ v + u <= b - 1 + m => x + w <= b - 1 + m
          /\ v + u + e <= b - 1 + n => x + w + e <= b - 1 + n
      BY <3>3
    <3>7. /\ turn.pc = "breaker" => w <= k
          /\ turn.pc \in {"account", "asset"} => x + w <= b - 1 + d
          /\ turn.pc = "account" => x + w <= b - 1 + m
          /\ turn.pc = "asset" => x + w + e <= b - 1 + n
      BY <3>5, <3>6
    <3> QED
      BY <3>2, <3>4, <3>7
  <2> QED
    BY <1>2, <2>1, <2>2, <2>3 DEF FailInv
<1> QED
  BY <1>9, <1>10, <1>12, <1>13 DEF ReuseInv

\* What other producers do, and nothing at all.
LEMMA OthersKeep ==
    ASSUME ReuseInv, UNCHANGED <<row, twice, turn, lost>>, other' \in 0..1
    PROVE  ReuseInv'
<1>1. /\ OwnReady' = OwnReady /\ RecentFailed' = RecentFailed
      /\ \A a : Ready(a)' = Ready(a)
  BY RowStays
<1>2. Ready(turn.at)' = Ready(turn.at)
  BY DEF Ready
<1>3. ReuseTypes' /\ AssetInv'
  BY DEF ReuseInv, ReuseTypes, AssetInv
<1>4. BacklogInv'
  BY <1>1, <1>2 DEF ReuseInv, BacklogInv, Ahead
<1>5. FailInv'
  BY <1>1 DEF ReuseInv, FailInv
<1> QED
  BY <1>3, <1>4, <1>5 DEF ReuseInv

LEMMA ReuseStarts == ReuseInit => ReuseInv
<1> SUFFICES ASSUME ReuseInit PROVE ReuseInv
  OBVIOUS
<1>1. NoRound \in Turns /\ NoRound.pc = "idle"
  BY ReuseFacts DEF NoRound, Turns
<1>2. \A c \in Cells : row[c] = "none"
  BY DEF ReuseInit
<1>3. Count("ready") = 0 /\ Count("failed") = 0
  <2>1. {c \in Cells : row[c] = "ready"} = {} /\ {c \in Cells : row[c] = "failed"} = {}
    BY <1>2
  <2> QED
    BY <2>1, FS_EmptySet DEF Count
<1>4. \A a \in Account : Ready(a) = 0
  <2>1. ASSUME NEW a \in Account PROVE {s \in Asset : row[<<a, s>>] = "ready"} = {}
    BY <1>2 DEF Cells
  <2> QED
    BY <2>1, FS_EmptySet DEF Ready
<1>5. ReuseTypes /\ AssetInv
  BY <1>1, ReuseFacts DEF ReuseInit, ReuseTypes, AssetInv, States
<1>6. BacklogInv
  BY <1>1, <1>3, <1>4, ReuseFacts DEF ReuseInit, BacklogInv, Ahead, OwnReady
<1>7. FailInv
  BY <1>1, <1>3, ReuseFacts DEF ReuseInit, FailInv, OwnReady, RecentFailed
<1> QED
  BY <1>5, <1>6, <1>7 DEF ReuseInv

\* However rounds are cut short, answers are lost and posts are published or fail in
\* between: an account gets an asset once, the backlog stays within its targets, and a
\* broken host costs what was waiting or being made (reuse_replenisher).
THEOREM ReuseIsSoundHolds == ReuseSpec => []ReuseIsSound
<1>1. ASSUME ReuseInv, [ReuseNext]_reuseVars PROVE ReuseInv'
  <2>1. CASE Break
    <3>1. lost' \in 0..MaxLost
      BY <1>1, <2>1, ReuseFacts DEF Break, Lost, ReuseInv, ReuseTypes
    <3> QED
      BY <1>1, <2>1, <3>1, StopKeeps DEF Break, End
  <2>2. CASE Others \/ UNCHANGED reuseVars
    <3>1. other' \in 0..1 /\ UNCHANGED <<row, twice, turn, lost>>
      BY <1>1, <2>2 DEF Others, reuseVars, ReuseInv, ReuseTypes
    <3> QED
      BY <1>1, <3>1, OthersKeep
  <2>3. CASE \E c \in Cells : Poll(c) \/ Age(c)
    BY <1>1, <2>3, MoveKeeps
  <2> QED
    BY <1>1, <2>1, <2>2, <2>3, CountReadyKeeps, CheckKeeps, EnterKeeps, TryKeeps DEF ReuseNext
<1>2. ASSUME ReuseInv PROVE ReuseIsSound
  <2>1. /\ OwnReady \in Nat /\ RecentFailed \in Nat /\ Breaker \in Nat
        /\ ReadyCap \in Nat /\ Targets * ReadyTarget \in Nat
    BY CountsAre, ReuseFacts DEF CountTypes
  <2>2. FailuresAreBounded
    <3>1. /\ RecentFailed + OwnReady <= Breaker - 1 + ReadyCap
          /\ RecentFailed + OwnReady <= Breaker - 1 + Targets * ReadyTarget
      BY <1>2 DEF ReuseInv, FailInv
    <3> QED
      BY <2>1, <3>1 DEF FailuresAreBounded, Min2
  <2>3. ReuseTypeOK /\ AssetOnce
    BY <1>2 DEF ReuseInv, ReuseTypes, ReuseTypeOK, AssetOnce, Turns
  <2>4. OwnBacklog
    BY <1>2 DEF ReuseInv, BacklogInv, OwnBacklog
  <2> QED
    BY <2>2, <2>3, <2>4 DEF ReuseIsSound
<1> QED
  BY <1>1, <1>2, ReuseStarts, PTL DEF ReuseSpec

-----------------------------------------------------------------------------
(* The drawings.  A drawing that is not judged yet is known to the account  *)
(* that made it only, and whoever has met a sketch of the pool is recorded  *)
(* as its user; so what is taken from the pool is new to its taker.         *)

Drafts == [pc : {"idle", "draw", "asked"}, round : SUBSET Slides, left : SUBSET Slides,
           sketch : [Slides -> Nat], again : [Slides -> Nat], taken : SUBSET Slides]

SketchShape ==
    /\ poolOn \in BOOLEAN /\ made \in Nat /\ fresh \in Nat /\ made <= fresh /\ fresh <= MaxSketches
    /\ pool \in Seq(Nat) /\ Len(pool) <= MaxItems /\ InPool \subseteq judged
    /\ \A j, k \in DOMAIN pool : pool[j] = pool[k] => j = k
    /\ used \subseteq Accounts \X InPool /\ judged \subseteq 1..fresh
    /\ draft \in [Accounts -> Drafts] /\ shown \in [Accounts -> [Sketches -> Nat]]
    /\ losses \in Nat

\* The slides drawn in this round: nobody has judged them.
Unjudged(a) == (draft[a].round \ draft[a].left) \ draft[a].taken

DraftOk(a) ==
    /\ draft[a].pc = "idle" => draft[a] = NoDraft
    /\ draft[a].pc = "asked" => draft[a].left # {}
    /\ draft[a].left \subseteq draft[a].round /\ draft[a].left \cap draft[a].taken = {}
    /\ \A i \in Slides :
          /\ draft[a].sketch[i] <= fresh
          /\ draft[a].pc # "idle" /\ i \notin draft[a].left => draft[a].sketch[i] # 0
          /\ draft[a].sketch[i] # 0 /\ i \notin draft[a].left /\ i \notin Unjudged(a)
                => draft[a].sketch[i] \in judged
          /\ draft[a].sketch[i] # 0 => shown[a][draft[a].sketch[i]] = 0
          /\ \A j \in Slides : draft[a].sketch[i] = draft[a].sketch[j] /\ draft[a].sketch[i] # 0
                                  => i = j
    /\ \A s \in Sketches : shown[a][s] <= 1 /\ (shown[a][s] > 0 => s \in judged)

\* The account has shown the sketch, or it is among its drawings.
Meets(a, s) == shown[a][s] > 0 \/ \E i \in Slides : draft[a].sketch[i] = s

UseInv == \A a \in Accounts, s \in InPool : Meets(a, s) => <<a, s>> \in used

NewInv ==
    \A a \in Accounts : \A i \in Unjudged(a) :
        /\ draft[a].sketch[i] \notin InPool
        /\ \A b \in Accounts : Meets(b, draft[a].sketch[i]) => b = a

Asking == {a \in Accounts : draft[a].pc = "asked"}

CapOfDay ==
    /\ made + Cardinality(Asking) <= Cap + Cardinality(Accounts) - 1
    /\ Cap = 0 => Asking = {}

SketchInv ==
    /\ SketchShape /\ UseInv /\ NewInv /\ CapOfDay
    /\ \A a \in Accounts : DraftOk(a)

LEMMA SketchFacts ==
    /\ SlideCount \in Nat \ {0} /\ Cap \in Nat /\ MaxItems \in Nat \ {0} /\ MaxSketches \in Nat
    /\ Slides \subseteq Nat /\ IsFiniteSet(Slides) /\ IsFiniteSet(Accounts)
    /\ Sketches = 1..MaxSketches /\ Cardinality(Accounts) \in Nat /\ Cardinality(Accounts) >= 1
    /\ NoDraft \in Drafts /\ NoDraft.pc = "idle" /\ NoDraft.round = {} /\ NoDraft.left = {}
    /\ NoDraft.taken = {} /\ \A i \in Slides : NoDraft.sketch[i] = 0
<1>1. SlideCount \in Nat \ {0} /\ Cap \in Nat /\ MaxItems \in Nat \ {0} /\ MaxSketches \in Nat
      /\ IsFiniteSet(Accounts) /\ Accounts # {}
  BY SketchAssumption
<1>2. 1 \in Int /\ SlideCount \in Int
  BY <1>1
<1>3. IsFiniteSet(1..SlideCount)
  BY <1>2, FS_Interval
<1>4. Slides \subseteq Nat /\ IsFiniteSet(Slides)
  BY <1>1, <1>3 DEF Slides
<1>5. Cardinality(Accounts) \in Nat /\ Cardinality(Accounts) # 0
  BY <1>1, FS_CardinalityType, FS_EmptySet
<1>6. NoDraft \in Drafts
  BY DEF NoDraft, Drafts
<1> QED
  BY <1>1, <1>4, <1>5, <1>6 DEF NoDraft, Sketches

LEMMA AskingIs ==
    ASSUME SketchShape
    PROVE  IsFiniteSet(Asking) /\ Cardinality(Asking) \in Nat
           /\ Cardinality(Asking) <= Cardinality(Accounts)
BY SketchFacts, FS_Subset, FS_CardinalityType DEF Asking

LEMMA SketchInitInv == SketchInit => SketchInv
<1> SUFFICES ASSUME SketchInit PROVE SketchInv
  OBVIOUS
<1> USE SketchFacts DEF SketchInit
<1>1. InPool = {}
  BY DEF InPool
<1>2. SketchShape
  BY <1>1, SketchAssumption DEF SketchShape, Sketches
<1>3. \A a \in Accounts : DraftOk(a)
  BY DEF DraftOk, Unjudged, Sketches
<1>4. UseInv /\ NewInv
  BY <1>1 DEF UseInv, NewInv, Unjudged
<1>5. Asking = {} /\ Cardinality(Asking) = 0
  BY FS_EmptySet DEF Asking
<1>6. CapOfDay
  BY <1>5 DEF CapOfDay
<1> QED
  BY <1>2, <1>3, <1>4, <1>6 DEF SketchInv

-----------------------------------------------------------------------------
(* The asking accounts, as one of them changes.                             *)

LEMMA AskingStays ==
    ASSUME SketchInv, NEW a \in Accounts, SketchShape',
           \A b \in Accounts \ {a} : draft'[b] = draft[b],
           draft'[a].pc # "asked",
           \/ made' <= made
           \/ draft[a].pc = "asked" /\ made' = made + 1
    PROVE  CapOfDay'
<1> USE SketchFacts DEF SketchInv
<1>1. Asking' = Asking \ {a}
  BY DEF Asking
<1>2. Cardinality(Asking) \in Nat /\ IsFiniteSet(Asking) /\ made \in Nat /\ made' \in Nat
  BY AskingIs DEF SketchShape
<1>3. Cardinality(Asking') = IF a \in Asking THEN Cardinality(Asking) - 1 ELSE Cardinality(Asking)
  BY <1>1, <1>2, FS_RemoveElement
<1>4. CASE a \in Asking
  BY <1>1, <1>2, <1>3, <1>4 DEF CapOfDay
<1>5. CASE a \notin Asking
  <2>1. made' <= made
    BY <1>5 DEF Asking
  <2> QED
    BY <1>1, <1>2, <1>3, <1>5, <2>1 DEF CapOfDay
<1> QED
  BY <1>4, <1>5

LEMMA LeastSlide ==
    ASSUME NEW T \in SUBSET Nat, T # {}
    PROVE  \E i \in T : \A j \in T : i <= j
<1>1. PICK i \in T : \A j \in T : ~(<<j, i>> \in OpToRel(<, Nat))
  <2>1. \E i \in T : \A j \in T : ~(<<j, i>> \in OpToRel(<, Nat))
    BY NatLessThanWellFounded, WFMin
  <2> QED
    BY <2>1
<1>2. ASSUME NEW j \in T PROVE i <= j
  <2>1. ~(j < i)
    BY <1>1 DEF OpToRel
  <2> QED
    BY <2>1
<1> QED
  BY <1>2

\* What an account has drawn and not had judged yet is a sketch.
LEMMA UnjudgedIs ==
    ASSUME SketchInv, NEW a \in Accounts, NEW i \in Unjudged(a)
    PROVE  /\ i \in Slides /\ i \in draft[a].round /\ i \notin draft[a].left
           /\ draft[a].pc # "idle" /\ draft[a].sketch[i] \in Sketches
           /\ draft[a].sketch[i] <= fresh /\ draft[a].sketch[i] \in Nat
<1> USE SketchFacts DEF SketchInv
<1>1. draft[a] \in Drafts /\ DraftOk(a) /\ fresh \in Nat /\ fresh <= MaxSketches
  BY DEF SketchShape
<1>2. i \in Slides /\ i \in draft[a].round /\ i \notin draft[a].left
  BY <1>1 DEF Unjudged, Drafts
<1>3. draft[a].pc # "idle"
  BY <1>1, <1>2 DEF DraftOk
<1>4. draft[a].sketch[i] \in Nat /\ draft[a].sketch[i] # 0 /\ draft[a].sketch[i] <= fresh
  BY <1>1, <1>2, <1>3 DEF DraftOk, Drafts
<1> QED
  BY <1>1, <1>2, <1>3, <1>4

\* A step of one account: it may meet a sketch that is new to everybody or one that it is
\* recorded as a user of, and the pool takes up only what the account has just had judged.
LEMMA OneDraws ==
    ASSUME SketchInv, NEW a \in Accounts, SketchShape', DraftOk(a)', CapOfDay',
           fresh <= fresh', judged \subseteq judged',
           \A b \in Accounts \ {a} : draft'[b] = draft[b] /\ shown'[b] = shown[b],
           \A s \in Sketches : Meets(a, s)' => Meets(a, s) \/ s > fresh \/ <<a, s>> \in used',
           \A s \in InPool' : \/ s \in InPool
                              \/ /\ <<a, s>> \in used'
                                 /\ \E i \in Unjudged(a) : s = draft[a].sketch[i],
           \A b \in Accounts, s \in InPool' : <<b, s>> \in used => <<b, s>> \in used',
           \A i \in Unjudged(a)' :
              /\ draft'[a].sketch[i] \notin InPool' /\ draft'[a].sketch[i] \in Sketches
              /\ \/ draft'[a].sketch[i] > fresh
                 \/ i \in Unjudged(a) /\ draft'[a].sketch[i] = draft[a].sketch[i]
    PROVE  SketchInv'
<1> USE DEF SketchInv
<1>1. /\ fresh \in Nat /\ fresh' \in Nat /\ InPool \subseteq 1..fresh /\ InPool' \subseteq 1..fresh'
      /\ fresh' <= MaxSketches /\ used' \subseteq Accounts \X InPool' /\ draft \in [Accounts -> Drafts]
  BY DEF SketchShape
<1>2. InPool \subseteq Sketches /\ InPool' \subseteq Sketches /\ 1..fresh \subseteq Sketches
  BY <1>1, SketchFacts DEF SketchShape
<1>3. ASSUME NEW b \in Accounts \ {a} PROVE DraftOk(b)'
  <2>1. DraftOk(b) /\ draft'[b] = draft[b] /\ shown'[b] = shown[b] /\ Unjudged(b)' = Unjudged(b)
        /\ draft[b] \in Drafts
    BY <1>1, <1>3 DEF Unjudged
  <2> QED
    BY <1>1, <2>1 DEF DraftOk, Drafts
<1>4. ASSUME NEW b \in Accounts \ {a}, NEW s \in Sketches, Meets(b, s)' PROVE Meets(b, s)
  BY <1>4 DEF Meets
<1>5. ASSUME NEW b \in Accounts, NEW s \in Sketches, Meets(b, s) PROVE s <= fresh
  <2>1. /\ shown[b][s] > 0 => s \in judged
        /\ \A i \in Slides : draft[b].sketch[i] <= fresh
        /\ judged \subseteq 1..fresh
    BY <1>5 DEF SketchShape, DraftOk
  <2>2. CASE shown[b][s] > 0
    <3>1. s \in judged
      BY <2>1, <2>2
    <3> QED
      BY <1>1, <2>1, <3>1
  <2>3. CASE \E i \in Slides : draft[b].sketch[i] = s
    BY <2>1, <2>3
  <2> QED
    BY <1>5, <2>2, <2>3 DEF Meets
<1>6. UseInv'
  <2> SUFFICES ASSUME NEW b \in Accounts, NEW s \in InPool', Meets(b, s)' PROVE <<b, s>> \in used'
    BY DEF UseInv
  <2>1. s \in Sketches
    BY <1>2
  <2>2. CASE s \in InPool /\ Meets(b, s)
    BY <2>2 DEF UseInv
  <2>3. CASE s \notin InPool /\ Meets(b, s)
    <3>1. PICK i \in Unjudged(a) : s = draft[a].sketch[i] /\ <<a, s>> \in used'
      BY <2>3
    <3>2. b = a
      BY <2>3, <3>1 DEF NewInv
    <3> QED
      BY <3>1, <3>2
  <2>4. CASE ~Meets(b, s)
    <3>1. b = a /\ (s > fresh \/ <<a, s>> \in used')
      BY <1>4, <2>1, <2>4
    <3>2. CASE s > fresh
      <4>1. s \notin InPool
        BY <1>1, <3>2
      <4>2. PICK i \in Unjudged(a) : s = draft[a].sketch[i]
        BY <4>1
      <4>3. i \in Slides /\ DraftOk(a)
        BY <1>1 DEF Unjudged, Drafts
      <4> QED
        BY <1>1, <3>1, <3>2, <4>2, <4>3 DEF DraftOk, Drafts
    <3> QED
      BY <3>1, <3>2
  <2> QED
    BY <2>2, <2>3, <2>4
<1>7. NewInv'
  <2> SUFFICES ASSUME NEW c \in Accounts, NEW i \in Unjudged(c)', NEW b \in Accounts
               PROVE  /\ draft'[c].sketch[i] \notin InPool'
                      /\ Meets(b, draft[c].sketch[i])' => b = c
    BY DEF NewInv
  <2>1. CASE c = a
    <3>1. PICK s \in Sketches : s = draft'[a].sketch[i]
      BY <2>1
    <3>2. s \notin InPool'
      BY <2>1, <3>1
    <3>3. ASSUME b # a, Meets(b, s)' PROVE FALSE
      <4>1. Meets(b, s) /\ s <= fresh
        BY <1>4, <1>5, <3>3
      <4>2. ~(s > fresh)
        BY <1>1, <4>1, SketchFacts
      <4>3. i \in Unjudged(a) /\ s = draft[a].sketch[i]
        BY <2>1, <3>1, <4>2
      <4> QED
        BY <3>3, <4>1, <4>3 DEF NewInv
    <3>4. Meets(b, s)' <=> Meets(b, draft[c].sketch[i])'
      BY <2>1, <3>1 DEF Meets
    <3> QED
      BY <2>1, <3>1, <3>2, <3>3, <3>4
  <2>2. CASE c # a
    <3>1. draft'[c] = draft[c] /\ i \in Unjudged(c)
      BY <2>2 DEF Unjudged
    <3>2. i \in Slides /\ DraftOk(c) /\ draft[c] \in Drafts
      BY <1>1, <3>1 DEF Unjudged, Drafts
    <3>3. draft[c].pc # "idle" /\ i \notin draft[c].left
      BY <3>1, <3>2, SketchFacts DEF DraftOk, Unjudged
    <3>4. PICK s \in Sketches : s = draft[c].sketch[i] /\ s <= fresh
      BY <1>1, <1>2, <3>2, <3>3 DEF DraftOk, Drafts
    <3>5. Meets(c, s) /\ s \notin InPool
      BY <3>1, <3>2, <3>4 DEF Meets, NewInv
    <3>6. s \notin InPool'
      <4>1. ASSUME NEW j \in Unjudged(a), s = draft[a].sketch[j] PROVE FALSE
        BY <2>2, <3>5, <4>1 DEF NewInv
      <4> QED
        BY <3>5, <4>1
    <3>7. ASSUME Meets(b, s)' PROVE b = c
      <4>1. CASE Meets(b, s)
        BY <3>1, <3>4, <4>1 DEF NewInv
      <4>2. CASE ~Meets(b, s)
        <5>1. b = a /\ (s > fresh \/ <<a, s>> \in used')
          BY <1>4, <3>7, <4>2
        <5> QED
          BY <1>1, <3>4, <3>6, <5>1, SketchFacts
      <4> QED
        BY <4>1, <4>2
    <3>8. Meets(b, s)' <=> Meets(b, draft[c].sketch[i])'
      BY <3>1, <3>4 DEF Meets
    <3> QED
      BY <3>1, <3>4, <3>6, <3>7, <3>8
  <2> QED
    BY <2>1, <2>2
<1> QED
  BY <1>3, <1>6, <1>7

\* Next1 is one of the slides that are left.
LEMMA NextIsLeft ==
    ASSUME SketchInv, NEW a \in Accounts, draft[a].left # {}
    PROVE  Next1(a) \in draft[a].left /\ Next1(a) \in Slides
<1>1. draft[a].left \in SUBSET Nat /\ draft[a].left \subseteq Slides
  BY SketchFacts DEF SketchInv, SketchShape, Drafts
<1>2. \E i \in draft[a].left : \A j \in draft[a].left : i <= j
  BY <1>1, LeastSlide
<1> QED
  BY <1>1, <1>2 DEF Next1

\* What a step leaves alone.
LEMMA PoolStays ==
    ASSUME UNCHANGED <<pool, used>>
    PROVE  InPool' = InPool /\ used' = used
BY DEF InPool

\* A draft is given up, or begun.
LEMMA DraftsStart ==
    ASSUME SketchInv, NEW a \in Accounts,
           \/ Begin(a)
           \/ /\ Abort(a) /\ losses' \in Nat
              /\ UNCHANGED <<poolOn, made, fresh, pool, used, shown, judged>>
    PROVE  SketchInv'
<1> USE SketchFacts DEF SketchInv
<1>1. PICK d \in Drafts :
         /\ draft' = [draft EXCEPT ![a] = d]
         /\ d = NoDraft \/ d = [NoDraft EXCEPT !.pc = "draw", !.round = Slides, !.left = Slides]
  <2>1. CASE Begin(a)
    <3>1. draft[a] = NoDraft
      BY <2>1 DEF Begin, DraftOk
    <3>2. [NoDraft EXCEPT !.pc = "draw", !.round = Slides, !.left = Slides] \in Drafts
      BY DEF Drafts
    <3> QED
      BY <2>1, <3>1, <3>2 DEF Begin, SketchShape
  <2>2. CASE Abort(a)
    BY <2>2 DEF Abort
  <2> QED
    BY <2>1, <2>2
<1>2. UNCHANGED <<poolOn, made, fresh, pool, used, shown, judged>> /\ losses' \in Nat
  BY DEF Begin, SketchShape
<1>3. InPool' = InPool
  BY <1>2, PoolStays
<1>4. SketchShape'
  BY <1>1, <1>2, <1>3 DEF SketchShape
<1>5. draft'[a] = d /\ \A b \in Accounts \ {a} : draft'[b] = draft[b]
  BY <1>1 DEF SketchShape
<1>6. d.sketch = NoDraft.sketch /\ d.pc # "asked" /\ d.taken = {} /\ d.left = d.round
      /\ (d.pc = "idle" => d = NoDraft) /\ (d.pc # "idle" => d.left = Slides)
  BY <1>1 DEF NoDraft
<1>7. Unjudged(a)' = {}
  BY <1>5, <1>6 DEF Unjudged
<1>8. DraftOk(a)'
  <2>1. \A i \in Slides : draft'[a].sketch[i] = 0
    BY <1>5, <1>6
  <2>2. fresh' \in Nat /\ \A s \in Sketches : shown'[a][s] <= 1 /\ (shown'[a][s] > 0 => s \in judged')
    BY <1>2 DEF DraftOk, SketchShape
  <2> QED
    BY <1>5, <1>6, <2>1, <2>2 DEF DraftOk
<1>9. CapOfDay'
  <2>1. made' <= made /\ draft'[a].pc # "asked"
    BY <1>2, <1>5, <1>6 DEF SketchShape
  <2>2. SketchInv /\ SketchShape'
    BY <1>4
  <2>3. \A b \in Accounts \ {a} : draft'[b] = draft[b]
    BY <1>5
  <2> QED
    BY <2>1, <2>2, <2>3, AskingStays
<1>10. \A s \in Sketches : Meets(a, s)' => Meets(a, s)
  BY <1>2, <1>5, <1>6 DEF Meets
<1>11. fresh <= fresh' /\ judged \subseteq judged'
  BY <1>2 DEF SketchShape
<1> QED
  BY <1>2, <1>3, <1>4, <1>5, <1>7, <1>8, <1>9, <1>10, <1>11, OneDraws

\* Before the request: the day has room for one more.
LEMMA AskKeeps == ASSUME SketchInv, NEW a \in Accounts, Ask(a) PROVE SketchInv'
<1> USE SketchFacts DEF SketchInv
<1>1. UNCHANGED <<poolOn, made, fresh, pool, used, shown, judged, losses>> /\ InPool' = InPool
      /\ made < Cap /\ draft[a].pc = "draw" /\ draft[a].left # {}
  BY PoolStays DEF Ask, Room
<1>2. /\ draft'[a] = [draft[a] EXCEPT !.pc = "asked"] /\ draft[a] \in Drafts
      /\ \A b \in Accounts \ {a} : draft'[b] = draft[b]
      /\ draft' \in [Accounts -> Drafts]
  BY DEF Ask, SketchShape, Drafts
<1>3. draft'[a].pc = "asked" /\ draft'[a].round = draft[a].round /\ draft'[a].left = draft[a].left
      /\ draft'[a].sketch = draft[a].sketch /\ draft'[a].taken = draft[a].taken
  BY <1>2 DEF Drafts
<1>4. SketchShape'
  BY <1>1, <1>2 DEF SketchShape
<1>5. Unjudged(a)' = Unjudged(a)
  BY <1>3 DEF Unjudged
<1>6. DraftOk(a)'
  BY <1>1, <1>3, <1>5 DEF DraftOk
<1>7. CapOfDay'
  <2>1. /\ Cardinality(Asking') \in Nat /\ Cardinality(Asking') <= Cardinality(Accounts)
        /\ made \in Nat /\ made' = made
    <3>1. Asking' \in SUBSET Accounts
      BY DEF Asking
    <3>2. Cardinality(Asking') <= Cardinality(Accounts) /\ IsFiniteSet(Asking')
      BY <3>1, FS_Subset
    <3> QED
      BY <1>1, <3>2, FS_CardinalityType DEF SketchShape
  <2> QED
    BY <1>1, <2>1 DEF CapOfDay
<1>8. fresh <= fresh' /\ judged \subseteq judged'
  BY <1>1 DEF SketchShape
<1>9. \A s \in Sketches : Meets(a, s)' => Meets(a, s)
  BY <1>1, <1>3 DEF Meets
<1>10. \A i \in Unjudged(a)' : draft'[a].sketch[i] \notin InPool' /\ draft'[a].sketch[i] \in Sketches
  BY <1>1, <1>3, <1>5, UnjudgedIs DEF NewInv
<1> QED
  BY <1>1, <1>2, <1>3, <1>4, <1>5, <1>6, <1>7, <1>8, <1>9, <1>10, OneDraws

\* A draft in which a slide has its sketch.
Slid(d, L, T, i, n) == [d EXCEPT !.pc = "draw", !.left = L, !.sketch[i] = n, !.taken = T]

LEMMA SlidIs ==
    ASSUME NEW d \in Drafts, NEW T \in SUBSET Slides, NEW L \in SUBSET Slides,
           NEW i \in Slides, NEW n \in Nat
    PROVE  /\ Slid(d, L, T, i, n) \in Drafts /\ Slid(d, L, T, i, n).pc = "draw"
           /\ Slid(d, L, T, i, n).round = d.round
           /\ Slid(d, L, T, i, n).left = L /\ Slid(d, L, T, i, n).taken = T
           /\ Slid(d, L, T, i, n).sketch[i] = n
           /\ \A j \in Slides \ {i} : Slid(d, L, T, i, n).sketch[j] = d.sketch[j]
<1>1. PICK f \in [Slides -> Nat] : f = [d.sketch EXCEPT ![i] = n]
  BY DEF Drafts
<1>2. PICK e : e = [d EXCEPT !.pc = "draw", !.left = L, !.sketch = f, !.taken = T]
  OBVIOUS
<1>3. Slid(d, L, T, i, n) = e
  BY <1>1, <1>2 DEF Slid, Drafts
<1>4. e \in Drafts /\ e.pc = "draw" /\ e.round = d.round /\ e.left = L /\ e.taken = T /\ e.sketch = f
  BY <1>2 DEF Drafts
<1>5. f[i] = n /\ \A j \in Slides \ {i} : f[j] = d.sketch[j]
  BY <1>1 DEF Drafts
<1> QED
  BY <1>3, <1>4, <1>5

\* A new drawing: nobody has met it.
LEMMA DrawnKeeps == ASSUME SketchInv, NEW a \in Accounts, Drawn(a) PROVE SketchInv'
<1> USE SketchFacts DEF SketchInv
<1>1. CASE Lose /\ Abort(a) /\ UNCHANGED <<made, fresh>>
  <2>1. losses' \in Nat /\ UNCHANGED <<poolOn, made, fresh, pool, used, shown, judged>> /\ Abort(a)
    BY <1>1 DEF Drawn, Lose, SketchShape
  <2>2. SketchInv
    OBVIOUS
  <2> QED
    BY <2>1, <2>2, DraftsStart
<1>2. CASE ~(Lose /\ Abort(a) /\ UNCHANGED <<made, fresh>>)
  <2>1. /\ UNCHANGED <<poolOn, pool, used, shown, judged, losses>> /\ InPool' = InPool
        /\ draft[a].pc = "asked" /\ fresh < MaxSketches /\ fresh' = fresh + 1 /\ made' = made + 1
    BY <1>2, PoolStays DEF Drawn
  <2>2. PICK i \in Slides : i = Next1(a) /\ i \in draft[a].left
    <3>1. SketchInv /\ draft[a].left # {}
      BY <2>1 DEF DraftOk
    <3> QED
      BY <3>1, NextIsLeft
  <2>3. /\ draft[a] \in Drafts /\ fresh \in Nat /\ DraftOk(a)
        /\ draft' = [draft EXCEPT ![a] = Slid(draft[a], draft[a].left \ {i}, draft[a].taken \ {i},
                                              i, fresh + 1)]
    BY <1>2, <2>2 DEF Drawn, SketchShape, Slid
  <2>4. PICK d \in Drafts : /\ draft' = [draft EXCEPT ![a] = d] /\ d.pc = "draw"
                            /\ d.round = draft[a].round /\ d.left = draft[a].left \ {i}
                            /\ d.taken = draft[a].taken \ {i}
                            /\ d.sketch[i] = fresh + 1
                            /\ \A j \in Slides \ {i} : d.sketch[j] = draft[a].sketch[j]
    <3>1. draft[a].left \ {i} \in SUBSET Slides /\ draft[a].taken \ {i} \in SUBSET Slides
          /\ fresh + 1 \in Nat
      BY <2>3 DEF Drafts
    <3>2. PICK d \in Drafts : d = Slid(draft[a], draft[a].left \ {i}, draft[a].taken \ {i}, i, fresh + 1)
      BY <2>3, <3>1, SlidIs
    <3>3. /\ d.pc = "draw" /\ d.round = draft[a].round /\ d.left = draft[a].left \ {i}
          /\ d.taken = draft[a].taken \ {i} /\ d.sketch[i] = fresh + 1
          /\ \A j \in Slides \ {i} : d.sketch[j] = draft[a].sketch[j]
      BY <2>3, <3>1, <3>2, SlidIs
    <3> QED
      BY <2>3, <3>2, <3>3
  <2>5. draft'[a] = d /\ (\A b \in Accounts \ {a} : draft'[b] = draft[b])
    BY <2>4 DEF SketchShape
  <2>6. SketchShape'
    BY <2>1, <2>4 DEF SketchShape
  <2>7. d.sketch[i] = fresh + 1 /\ \A j \in Slides \ {i} : d.sketch[j] = draft[a].sketch[j]
    BY <2>4
  <2>8. Unjudged(a)' = Unjudged(a) \cup {i}
    BY <2>2, <2>3, <2>4, <2>5 DEF Unjudged, DraftOk
  <2>9. fresh + 1 \in Sketches /\ shown[a][fresh + 1] = 0
        /\ \A j \in Slides : draft[a].sketch[j] \in Nat /\ draft[a].sketch[j] <= fresh
    <3>1. fresh + 1 \in Sketches /\ fresh + 1 \notin judged
      BY <2>1, <2>3 DEF SketchShape
    <3>2. shown[a][fresh + 1] \in Nat
      BY <3>1 DEF SketchShape
    <3>3. shown[a][fresh + 1] = 0
      <4>1. ~(shown[a][fresh + 1] > 0)
        BY <2>3, <3>1 DEF DraftOk
      <4> QED
        BY <3>2, <4>1
    <3>4. \A j \in Slides : draft[a].sketch[j] \in Nat /\ draft[a].sketch[j] <= fresh
      BY <2>3 DEF DraftOk, Drafts
    <3> QED
      BY <3>1, <3>3, <3>4
  <2>10. DraftOk(a)'
    <3>1. /\ draft'[a].pc = "draw" /\ draft'[a].left \subseteq draft'[a].round
          /\ draft'[a].left \cap draft'[a].taken = {}
      BY <2>3, <2>4, <2>5 DEF DraftOk
    <3>2. ASSUME NEW j \in Slides
          PROVE  /\ d.sketch[j] <= fresh'
                 /\ j \notin d.left => d.sketch[j] # 0
                 /\ d.sketch[j] # 0 /\ j \notin d.left /\ j \notin Unjudged(a)' => d.sketch[j] \in judged
                 /\ d.sketch[j] # 0 => shown[a][d.sketch[j]] = 0
                 /\ \A k \in Slides : d.sketch[j] = d.sketch[k] /\ d.sketch[j] # 0 => j = k
      <4>1. CASE j = i
        <5>1. d.sketch[j] = fresh + 1 /\ fresh + 1 # 0 /\ fresh' = fresh + 1 /\ j \in Unjudged(a)'
          BY <2>1, <2>3, <2>7, <2>8, <4>1
        <5>2. ASSUME NEW k \in Slides, k # i PROVE d.sketch[k] # fresh + 1
          <6>1. d.sketch[k] \in Nat /\ d.sketch[k] <= fresh
            BY <2>7, <2>9, <5>2
          <6> QED
            BY <2>3, <6>1
        <5>3. shown[a][d.sketch[j]] = 0 /\ d.sketch[j] <= fresh'
          BY <2>3, <2>9, <5>1
        <5> QED
          BY <4>1, <5>1, <5>2, <5>3
      <4>2. CASE j # i
        <5>1. d.sketch[j] = draft[a].sketch[j] /\ draft[a].pc # "idle"
          BY <2>1, <2>7, <4>2
        <5>2. j \notin d.left => j \notin draft[a].left
          BY <2>4, <4>2
        <5>3. d.sketch[j] <= fresh /\ d.sketch[j] \in Nat
          BY <2>9, <5>1
        <5> QED
          BY <2>1, <2>3, <2>7, <2>8, <5>1, <5>2, <5>3 DEF DraftOk
      <4> QED
        BY <4>1, <4>2
    <3>3. \A s \in Sketches : shown'[a][s] <= 1 /\ (shown'[a][s] > 0 => s \in judged')
      BY <2>1, <2>3 DEF DraftOk
    <3> QED
      BY <2>1, <2>5, <3>1, <3>2, <3>3 DEF DraftOk
  <2>11. CapOfDay'
    <3>1. SketchInv /\ draft'[a].pc # "asked"
      BY <2>4, <2>5
    <3> QED
      BY <2>1, <2>5, <2>6, <3>1, AskingStays
  <2>12. \A s \in Sketches : Meets(a, s)' => Meets(a, s) \/ s > fresh
    <3> SUFFICES ASSUME NEW s \in Sketches, Meets(a, s)', ~Meets(a, s) PROVE s > fresh
      OBVIOUS
    <3>1. PICK j \in Slides : d.sketch[j] = s
      BY <2>1, <2>5 DEF Meets
    <3>2. j = i
      BY <2>7, <3>1 DEF Meets
    <3> QED
      BY <2>3, <2>7, <3>1, <3>2
  <2>13. ASSUME NEW j \in Unjudged(a)'
         PROVE  /\ draft'[a].sketch[j] \notin InPool' /\ draft'[a].sketch[j] \in Sketches
                /\ \/ draft'[a].sketch[j] > fresh
                   \/ j \in Unjudged(a) /\ draft'[a].sketch[j] = draft[a].sketch[j]
    <3>1. CASE j = i
      <4>1. fresh + 1 \notin InPool
        BY <2>3 DEF SketchShape
      <4>2. draft'[a].sketch[j] = fresh + 1 /\ fresh + 1 > fresh
        <5>1. fresh \in Nat
          BY <2>3
        <5>2. fresh + 1 > fresh
          BY <5>1
        <5> QED
          BY <2>5, <2>7, <3>1, <5>2
      <4> QED
        BY <2>1, <2>9, <4>1, <4>2
    <3>2. CASE j # i
      <4>1. j \in Unjudged(a) /\ j \in Slides
        BY <2>3, <2>8, <3>2 DEF Unjudged, Drafts
      <4>2. draft[a].sketch[j] \in Sketches /\ draft[a].sketch[j] \notin InPool
        <5>1. SketchInv
          OBVIOUS
        <5> QED
          BY <4>1, <5>1, UnjudgedIs DEF NewInv
      <4> QED
        BY <2>1, <2>5, <2>7, <3>2, <4>1, <4>2
    <3> QED
      BY <3>1, <3>2
  <2>14. fresh <= fresh' /\ judged \subseteq judged' /\ SketchInv
    BY <2>1, <2>3
  <2> QED
    BY <2>1, <2>5, <2>6, <2>10, <2>11, <2>12, <2>13, <2>14, OneDraws
<1> QED
  BY <1>1, <1>2

\* The numbers of the places after one that is left out.
LEMMA PlacesAfter ==
    ASSUME NEW n \in Nat, NEW k \in Nat, k >= 1, k <= n
    PROVE  /\ n - (k + 1) + 1 = n - k /\ (IF k + 1 <= n THEN n - (k + 1) + 1 ELSE 0) = n - k
           /\ (k - 1) + (n - k) = n - 1
           /\ \A j \in 1..(n - k) : (k + 1) + j - 1 = j + k
OBVIOUS

LEMMA PlaceAfter ==
    ASSUME NEW n \in Nat, NEW k \in Nat, k >= 1, k <= n, NEW j \in 1..(n - 1), ~(j < k)
    PROVE  j - (k - 1) \in 1..(n - k) /\ (j - (k - 1)) + k = j + 1 /\ ~(j <= k - 1)
OBVIOUS

\* A sequence without one of its places.
Without(q, k) == SubSeq(q, 1, k - 1) \o SubSeq(q, k + 1, Len(q))

LEMMA WithoutOne ==
    ASSUME NEW q \in Seq(Nat), NEW k \in Nat, k \in DOMAIN q
    PROVE  /\ Without(q, k) \in Seq(Nat) /\ Len(Without(q, k)) = Len(q) - 1
           /\ \A j \in 1..Len(Without(q, k)) :
                 /\ j < k => Without(q, k)[j] = q[j]
                 /\ ~(j < k) => Without(q, k)[j] = q[j + 1]
<1>0. PICK r : r = Without(q, k)
  OBVIOUS
<1>1. PICK n \in Nat : n = Len(q)
  BY LenProperties
<1>2. k \in 1..n /\ \A j \in 1..n : q[j] \in Nat
  BY <1>1, LenProperties, ElementOfSeq
<1>3. k \in Nat /\ k >= 1 /\ k <= n
  BY <1>2
<1>4. PICK u \in Seq(Nat) : u = SubSeq(q, 1, k - 1) /\ Len(u) = k - 1 /\ \A j \in 1..(k - 1) : u[j] = q[j]
  <2>1. 1 \in Int /\ k - 1 \in Int /\ \A j \in 1..(k - 1) : q[j] \in Nat
    BY <1>2, <1>3
  <2>2. /\ SubSeq(q, 1, k - 1) \in Seq(Nat)
        /\ Len(SubSeq(q, 1, k - 1)) = IF 1 <= k - 1 THEN k - 1 - 1 + 1 ELSE 0
        /\ \A j \in 1..(k - 1 - 1 + 1) : SubSeq(q, 1, k - 1)[j] = q[1 + j - 1]
    BY <2>1, SubSeqProperties
  <2>3. k - 1 - 1 + 1 = k - 1 /\ (IF 1 <= k - 1 THEN k - 1 - 1 + 1 ELSE 0) = k - 1
        /\ \A j \in 1..(k - 1) : 1 + j - 1 = j
    BY <1>3
  <2>4. \A j \in 1..(k - 1) : SubSeq(q, 1, k - 1)[j] = q[j]
    BY <2>2, <2>3
  <2> QED
    BY <2>2, <2>3, <2>4
<1>5. PICK v \in Seq(Nat) : v = SubSeq(q, k + 1, Len(q)) /\ Len(v) = n - k
                          /\ \A j \in 1..(n - k) : v[j] = q[j + k]
  <2>1. k + 1 \in Int /\ n \in Int /\ \A j \in (k + 1)..n : q[j] \in Nat
    BY <1>2, <1>3
  <2>2. /\ SubSeq(q, k + 1, n) \in Seq(Nat)
        /\ Len(SubSeq(q, k + 1, n)) = IF k + 1 <= n THEN n - (k + 1) + 1 ELSE 0
        /\ \A j \in 1..(n - (k + 1) + 1) : SubSeq(q, k + 1, n)[j] = q[(k + 1) + j - 1]
    BY <2>1, SubSeqProperties
  <2>3. n - (k + 1) + 1 = n - k /\ (IF k + 1 <= n THEN n - (k + 1) + 1 ELSE 0) = n - k
        /\ \A j \in 1..(n - k) : (k + 1) + j - 1 = j + k
    BY <1>3, PlacesAfter
  <2>4. \A j \in 1..(n - k) : SubSeq(q, k + 1, n)[j] = q[j + k]
    BY <2>2, <2>3
  <2> QED
    BY <1>1, <2>2, <2>3, <2>4
<1>6. /\ r = u \o v /\ u \o v \in Seq(Nat) /\ Len(u \o v) = Len(u) + Len(v)
      /\ \A j \in 1..(Len(u) + Len(v)) : (u \o v)[j] = IF j <= Len(u) THEN u[j] ELSE v[j - Len(u)]
  <2>1. r = u \o v
    BY <1>0, <1>4, <1>5 DEF Without
  <2> QED
    BY <2>1, ConcatProperties
<1>7. (k - 1) + (n - k) = n - 1
  BY <1>3, PlacesAfter
<1>8. Len(r) = n - 1 /\ \A j \in 1..(n - 1) : r[j] = IF j <= k - 1 THEN u[j] ELSE v[j - (k - 1)]
  BY <1>4, <1>5, <1>6, <1>7
<1>9. ASSUME NEW j \in 1..(n - 1), j < k PROVE r[j] = q[j]
  <2>1. j \in 1..(k - 1) /\ j <= k - 1
    BY <1>3, <1>9
  <2> QED
    BY <1>4, <1>8, <2>1
<1>10. ASSUME NEW j \in 1..(n - 1), ~(j < k) PROVE r[j] = q[j + 1]
  <2>1. j - (k - 1) \in 1..(n - k) /\ (j - (k - 1)) + k = j + 1 /\ ~(j <= k - 1)
    BY <1>3, <1>10, PlaceAfter
  <2> QED
    BY <1>5, <1>8, <2>1
<1> QED
  BY <1>0, <1>1, <1>6, <1>8, <1>9, <1>10

\* Where the places of a sequence go when one of them is left out.
LEMMA ShiftedPlace ==
    ASSUME NEW n \in Nat, NEW k \in Nat, k >= 1, k <= n
    PROVE  /\ \A j \in 1..(n - 1) : LET to == IF j < k THEN j ELSE j + 1 IN to \in 1..n /\ to # k
           /\ \A j, m \in 1..(n - 1) :
                 (IF j < k THEN j ELSE j + 1) = (IF m < k THEN m ELSE m + 1) => j = m
           /\ \A m \in 1..n : /\ m < k => m \in 1..(n - 1)
                              /\ ~(m < k) /\ m # k => /\ m - 1 \in 1..(n - 1) /\ ~(m - 1 < k)
                                                      /\ (m - 1) + 1 = m
OBVIOUS

\* The elements of a sequence, which are all different.
Elems(q)    == {q[j] : j \in DOMAIN q}
Distinct(q) == \A j, m \in DOMAIN q : q[j] = q[m] => j = m

LEMMA OneLess ==
    ASSUME NEW q \in Seq(Nat), NEW k \in Nat, k \in DOMAIN q, Distinct(q)
    PROVE  /\ Without(q, k) \in Seq(Nat) /\ Len(Without(q, k)) = Len(q) - 1
           /\ Distinct(Without(q, k)) /\ Elems(Without(q, k)) = Elems(q) \ {q[k]}
<1>0. PICK r : r = Without(q, k)
  OBVIOUS
<1> DEFINE at(j) == IF j < k THEN j ELSE j + 1
<1>1. PICK n \in Nat : n = Len(q)
  BY LenProperties
<1>2. DOMAIN q = 1..n /\ k \in 1..n
  BY <1>1, LenProperties
<1>3. r \in Seq(Nat) /\ Len(r) = n - 1 /\ DOMAIN r = 1..(n - 1)
      /\ \A j \in 1..(n - 1) : (j < k => r[j] = q[j]) /\ (~(j < k) => r[j] = q[j + 1])
  <2>1. /\ r \in Seq(Nat) /\ Len(r) = Len(q) - 1
        /\ \A j \in 1..Len(r) : (j < k => r[j] = q[j]) /\ (~(j < k) => r[j] = q[j + 1])
    BY <1>0, WithoutOne
  <2> QED
    BY <1>1, <2>1, LenProperties
<1>5. k >= 1 /\ k <= n
  BY <1>2
<1>6. ASSUME NEW j \in 1..(n - 1) PROVE at(j) \in 1..n /\ at(j) # k /\ r[j] = q[at(j)]
  <2>1. at(j) \in 1..n /\ at(j) # k
    BY <1>5, ShiftedPlace
  <2> QED
    BY <1>3, <2>1
<1>7. ASSUME NEW j \in 1..(n - 1), NEW m \in 1..(n - 1), at(j) = at(m) PROVE j = m
  BY <1>5, <1>7, ShiftedPlace
<1> HIDE DEF at
<1>8. ASSUME NEW m \in 1..n, m # k PROVE \E j \in 1..(n - 1) : r[j] = q[m]
  <2>1. CASE m < k
    <3>1. m \in 1..(n - 1)
      BY <1>5, <2>1, ShiftedPlace
    <3> QED
      BY <1>3, <2>1, <3>1
  <2>2. CASE ~(m < k)
    <3>1. m - 1 \in 1..(n - 1) /\ ~(m - 1 < k) /\ (m - 1) + 1 = m
      BY <1>5, <1>8, <2>2, ShiftedPlace
    <3>2. r[m - 1] = q[(m - 1) + 1]
      BY <1>3, <3>1
    <3> QED
      BY <3>1, <3>2
  <2> QED
    BY <2>1, <2>2
<1>9. Distinct(r)
  BY <1>2, <1>3, <1>6, <1>7 DEF Distinct
<1>10. ASSUME NEW x \in Elems(r) PROVE x \in Elems(q) \ {q[k]}
  <2>1. PICK j \in 1..(n - 1) : x = r[j]
    BY <1>3 DEF Elems
  <2>2. at(j) \in DOMAIN q /\ at(j) # k /\ x = q[at(j)]
    BY <1>2, <1>6, <2>1
  <2>3. x # q[k]
    BY <1>2, <2>2 DEF Distinct
  <2> QED
    BY <2>2, <2>3 DEF Elems
<1>11. ASSUME NEW x \in Elems(q) \ {q[k]} PROVE x \in Elems(r)
  <2>1. PICK m \in 1..n : x = q[m] /\ m # k
    BY <1>2 DEF Elems
  <2>2. PICK j \in 1..(n - 1) : r[j] = q[m]
    BY <1>8, <2>1
  <2> QED
    BY <1>3, <2>1, <2>2 DEF Elems
<1> QED
  BY <1>0, <1>1, <1>3, <1>9, <1>10, <1>11

\* A damaged file leaves the pool, and nobody is recorded as its user any more.
LEMMA DropLeaves ==
    ASSUME SketchInv, NEW s, Drop(s), NEW n \in Nat, losses' = n,
           UNCHANGED <<poolOn, made, fresh, draft, shown, judged>>
    PROVE  SketchShape' /\ InPool' = InPool \ {s} /\ used' = {u \in used : u[2] # s}
<1> USE SketchFacts DEF SketchInv, SketchShape
<1>1. PICK k \in Nat : k \in DOMAIN pool /\ pool[k] = s /\ pool' = Without(pool, k)
  <2>1. DOMAIN pool = 1..Len(pool) /\ Len(pool) \in Nat
    BY LenProperties
  <2>2. PICK k \in DOMAIN pool : pool[k] = s /\ pool' = Without(pool, k)
    BY DEF Drop, Without
  <2> QED
    BY <2>1, <2>2
<1>2. pool' \in Seq(Nat) /\ Len(pool') = Len(pool) - 1 /\ Distinct(pool')
      /\ Elems(pool') = Elems(pool) \ {pool[k]}
  <2>1. pool \in Seq(Nat) /\ Distinct(pool)
    BY DEF Distinct
  <2> QED
    BY <1>1, <2>1, OneLess
<1>3. InPool' = InPool \ {s}
  BY <1>1, <1>2 DEF InPool, Elems
<1>4. used' = {u \in used : u[2] # s}
  BY DEF Drop
<1>5. used' \subseteq Accounts \X InPool'
  BY <1>3, <1>4
<1>6. Len(pool') <= MaxItems
  <2>1. Len(pool) \in Nat
    BY LenProperties
  <2> QED
    BY <1>2, <2>1
<1>7. draft' \in [Accounts -> Drafts] /\ shown' \in [Accounts -> [Sketches -> Nat]]
      /\ judged' \subseteq 1..fresh' /\ InPool' \subseteq judged'
  BY <1>3
<1> QED
  BY <1>2, <1>3, <1>4, <1>5, <1>6, <1>7 DEF Distinct

\* A sketch is taken from the pool: its taker has not met it, or would be recorded as its user.
Taken(a, s) ==
    /\ used' = used \cup {<<a, s>>}
    /\ draft' = [draft EXCEPT ![a].left = @ \ {Next1(a)}, ![a].sketch[Next1(a)] = s,
                              ![a].taken = @ \cup {Next1(a)}]
    /\ UNCHANGED <<poolOn, made, fresh, pool, shown, judged, losses>>

LEMMA TakenKeeps ==
    ASSUME SketchInv, NEW a \in Accounts, draft[a].pc = "draw", draft[a].left # {},
           NEW s \in Unused(a), Taken(a, s)
    PROVE  SketchInv'
<1> USE SketchFacts DEF SketchInv
<1>0. /\ UNCHANGED <<poolOn, made, fresh, pool, shown, judged, losses>>
      /\ used' = used \cup {<<a, s>>}
  BY DEF Taken
<1>1. InPool' = InPool /\ s \in InPool /\ <<a, s>> \notin used
  BY <1>0 DEF Unused, InPool
<1>2. PICK i \in Slides : i = Next1(a) /\ i \in draft[a].left
  <2>1. SketchInv
    OBVIOUS
  <2> QED
    BY <2>1, NextIsLeft
<1>3. draft[a] \in Drafts /\ fresh \in Nat /\ DraftOk(a) /\ s \in 1..fresh /\ s \in judged
      /\ fresh <= MaxSketches /\ draft[a].left \cap draft[a].taken = {}
  BY <1>1 DEF SketchShape, DraftOk
<1>4. s \in Nat /\ s # 0 /\ s <= fresh /\ s \in Sketches
  BY <1>3
<1>5. PICK d \in Drafts : /\ draft' = [draft EXCEPT ![a] = d] /\ d.pc = "draw"
                          /\ d.round = draft[a].round /\ d.left = draft[a].left \ {i}
                          /\ d.taken = draft[a].taken \cup {i} /\ d.sketch[i] = s
                          /\ \A j \in Slides \ {i} : d.sketch[j] = draft[a].sketch[j]
  <2>1. draft[a].left \ {i} \in SUBSET Slides /\ draft[a].taken \cup {i} \in SUBSET Slides
    BY <1>3 DEF Drafts
  <2>0. PICK L \in SUBSET Slides, T \in SUBSET Slides :
           L = draft[a].left \ {i} /\ T = draft[a].taken \cup {i}
    BY <2>1
  <2>2. PICK d \in Drafts : d = Slid(draft[a], L, T, i, s)
    BY <1>3, <1>4, SlidIs
  <2>3. /\ d.pc = "draw" /\ d.round = draft[a].round /\ d.left = draft[a].left \ {i}
        /\ d.taken = draft[a].taken \cup {i} /\ d.sketch[i] = s
        /\ \A j \in Slides \ {i} : d.sketch[j] = draft[a].sketch[j]
    <3>1. d.pc = "draw" /\ d.round = draft[a].round /\ d.left = L /\ d.taken = T /\ d.sketch[i] = s
          /\ \A j \in Slides \ {i} : d.sketch[j] = draft[a].sketch[j]
      BY <1>3, <1>4, <2>2, SlidIs
    <3> QED
      BY <2>0, <3>1
  <2>4. d = [draft[a] EXCEPT !.left = @ \ {i}, !.sketch[i] = s, !.taken = @ \cup {i}]
    BY <1>3, <2>0, <2>2 DEF Slid, Drafts
  <2>5. draft' = [draft EXCEPT ![a] = d]
    BY <1>2, <2>4 DEF SketchShape, Taken
  <2> QED
    BY <2>3, <2>5
<1>6. draft'[a] = d /\ (\A b \in Accounts \ {a} : draft'[b] = draft[b])
  BY <1>5 DEF SketchShape
<1>7. SketchShape'
  <2>1. used' \subseteq Accounts \X InPool'
    BY <1>0, <1>1 DEF SketchShape
  <2>2. draft' \in [Accounts -> Drafts]
    BY <1>5 DEF SketchShape
  <2> QED
    BY <1>0, <1>1, <2>1, <2>2 DEF SketchShape
<1>8. Unjudged(a)' = Unjudged(a) /\ i \notin Unjudged(a)
  BY <1>2, <1>3, <1>5, <1>6 DEF Unjudged
<1>9. shown[a][s] = 0 /\ \A j \in Slides : draft[a].sketch[j] # s
  <2>1. ~Meets(a, s)
    BY <1>1 DEF UseInv
  <2>2. shown[a][s] \in Nat
    BY <1>4 DEF SketchShape
  <2> QED
    BY <2>1, <2>2 DEF Meets
<1>10. DraftOk(a)'
  <2>1. /\ draft'[a].pc = "draw" /\ draft'[a].left \subseteq draft'[a].round
        /\ draft'[a].left \cap draft'[a].taken = {}
    BY <1>3, <1>5, <1>6 DEF DraftOk
  <2>2. ASSUME NEW j \in Slides
        PROVE  /\ d.sketch[j] <= fresh
               /\ j \notin d.left => d.sketch[j] # 0
               /\ d.sketch[j] # 0 /\ j \notin d.left /\ j \notin Unjudged(a) => d.sketch[j] \in judged
               /\ d.sketch[j] # 0 => shown[a][d.sketch[j]] = 0
               /\ \A k \in Slides : d.sketch[j] = d.sketch[k] /\ d.sketch[j] # 0 => j = k
    <3>1. CASE j = i
      BY <1>3, <1>4, <1>5, <1>9, <3>1
    <3>2. CASE j # i
      <4>1. d.sketch[j] = draft[a].sketch[j] /\ (j \notin d.left => j \notin draft[a].left)
        BY <1>5, <3>2
      <4> QED
        BY <1>3, <1>5, <1>9, <3>2, <4>1 DEF DraftOk
    <3> QED
      BY <3>1, <3>2
  <2>3. \A t \in Sketches : shown'[a][t] <= 1 /\ (shown'[a][t] > 0 => t \in judged')
    BY <1>0, <1>3 DEF DraftOk
  <2> QED
    <3>1. UNCHANGED <<fresh, shown, judged>> /\ draft'[a].pc = "draw"
      BY <1>0, <2>1
    <3>2. \A j \in Slides : j \notin Unjudged(a)' => j \notin Unjudged(a)
      BY <1>8
    <3> QED
      BY <1>6, <2>1, <2>2, <2>3, <3>1, <3>2 DEF DraftOk
<1>11. CapOfDay'
  <2>1. SketchInv /\ draft'[a].pc # "asked" /\ made' <= made
    BY <1>0, <1>5, <1>6 DEF SketchShape
  <2> QED
    BY <1>6, <1>7, <2>1, AskingStays
<1>12. \A t \in Sketches : Meets(a, t)' => Meets(a, t) \/ <<a, t>> \in used'
  <2> SUFFICES ASSUME NEW t \in Sketches, Meets(a, t)', ~Meets(a, t) PROVE t = s
    BY <1>0
  <2>1. PICK j \in Slides : d.sketch[j] = t
    BY <1>0, <1>6 DEF Meets
  <2>2. j = i
    BY <1>5, <2>1 DEF Meets
  <2> QED
    BY <1>5, <2>1, <2>2
<1>13. ASSUME NEW j \in Unjudged(a)'
       PROVE  /\ draft'[a].sketch[j] \notin InPool' /\ draft'[a].sketch[j] \in Sketches
              /\ j \in Unjudged(a) /\ draft'[a].sketch[j] = draft[a].sketch[j]
  <2>1. j \in Unjudged(a) /\ j # i /\ SketchInv
    BY <1>8
  <2>2. j \in Slides /\ draft[a].sketch[j] \in Sketches /\ draft[a].sketch[j] \notin InPool
    BY <2>1, UnjudgedIs DEF NewInv
  <2> QED
    BY <1>1, <1>5, <1>6, <2>1, <2>2
<1>14. fresh <= fresh' /\ judged \subseteq judged' /\ SketchInv
  BY <1>0, <1>3
<1> QED
  BY <1>0, <1>1, <1>6, <1>7, <1>10, <1>11, <1>12, <1>13, <1>14, OneDraws

\* A damaged file: the others lose a sketch of the pool, and nothing else.
LEMMA DroppedKeeps ==
    ASSUME SketchInv, NEW a \in Accounts, NEW s, Drop(s), draft[a].pc = "draw", losses' \in Nat,
           UNCHANGED <<poolOn, made, fresh, draft, shown, judged>>
    PROVE  SketchInv'
<1> USE SketchFacts DEF SketchInv
<1>1. SketchShape' /\ InPool' = InPool \ {s} /\ used' = {u \in used : u[2] # s}
  BY DropLeaves
<1>2. fresh \in Nat /\ DraftOk(a) /\ Unjudged(a)' = Unjudged(a) /\ draft \in [Accounts -> Drafts]
  BY DEF SketchShape, Unjudged
<1>3. DraftOk(a)'
  BY <1>2 DEF DraftOk
<1>4. CapOfDay'
  BY DEF CapOfDay, Asking
<1>5. \A t \in Sketches : Meets(a, t)' => Meets(a, t)
  BY DEF Meets
<1>6. \A b \in Accounts, t \in InPool' : <<b, t>> \in used => <<b, t>> \in used'
  BY <1>1
<1>7. ASSUME NEW j \in Unjudged(a)'
      PROVE  /\ draft'[a].sketch[j] \notin InPool' /\ draft'[a].sketch[j] \in Sketches
             /\ j \in Unjudged(a) /\ draft'[a].sketch[j] = draft[a].sketch[j]
  <2>1. j \in Unjudged(a) /\ SketchInv
    BY <1>2
  <2> QED
    BY <1>1, <2>1, UnjudgedIs DEF NewInv
<1>8. fresh <= fresh' /\ judged \subseteq judged' /\ SketchInv
  BY <1>2
<1> QED
  BY <1>1, <1>3, <1>4, <1>5, <1>6, <1>7, <1>8, OneDraws

LEMMA TakeKeeps == ASSUME SketchInv, NEW a \in Accounts, Take(a) PROVE SketchInv'
<1>1. draft[a].pc = "draw" /\ draft[a].left # {} /\ UNCHANGED <<poolOn, made, fresh, shown, judged>>
  BY DEF Take
<1>2. CASE \E s \in Unused(a) : Lose /\ Drop(s) /\ UNCHANGED draft
  <2>1. PICK s \in Unused(a) : Drop(s)
    BY <1>2
  <2>2. losses' \in Nat /\ UNCHANGED draft
    BY <1>2 DEF Lose, SketchInv, SketchShape
  <2> QED
    BY <1>1, <2>1, <2>2, DroppedKeeps
<1>3. CASE ~(\E s \in Unused(a) : Lose /\ Drop(s) /\ UNCHANGED draft)
  <2>1. CASE Abort(a) /\ UNCHANGED <<pool, used, losses>>
    <3>1. losses' \in Nat
      BY <2>1 DEF SketchInv, SketchShape
    <3> QED
      BY <1>1, <2>1, <3>1, DraftsStart
  <2>2. CASE ~(Abort(a) /\ UNCHANGED <<pool, used, losses>>)
    <3>1. PICK s \in Unused(a) : Taken(a, s)
      BY <1>3, <2>2 DEF Take, Taken
    <3> QED
      BY <1>1, <3>1, TakenKeeps
  <2> QED
    BY <2>1, <2>2
<1> QED
  BY <1>2, <1>3

LEMMA DieKeeps == ASSUME SketchInv, NEW a \in Accounts, Die(a) PROVE SketchInv'
<1>1. losses' \in Nat
  BY DEF Die, Lose, SketchInv, SketchShape
<1> QED
  BY <1>1, DraftsStart DEF Die

LEMMA NewDayKeeps == ASSUME SketchInv, NewDay PROVE SketchInv'
<1> USE SketchFacts DEF SketchInv
<1>1. made' = 0 /\ UNCHANGED <<poolOn, fresh, pool, used, draft, shown, judged, losses>>
  BY DEF NewDay
<1>2. InPool' = InPool /\ Asking' = Asking
  BY <1>1 DEF InPool, Asking
<1>3. SketchShape'
  BY <1>1, <1>2 DEF SketchShape
<1>4. \A a \in Accounts : DraftOk(a)'
  BY <1>1 DEF DraftOk, Unjudged
<1>5. UseInv' /\ NewInv'
  BY <1>1, <1>2 DEF UseInv, NewInv, Meets, Unjudged
<1>6. CapOfDay'
  <2>1. Cardinality(Asking) \in Nat /\ Cardinality(Asking) <= Cardinality(Accounts)
    BY AskingIs
  <2>2. made \in Nat
    BY DEF SketchShape
  <2>3. 0 + Cardinality(Asking) <= Cap + Cardinality(Accounts) - 1
    BY <2>1, <2>2 DEF CapOfDay
  <2> QED
    BY <1>1, <1>2, <2>3 DEF CapOfDay
<1> QED
  BY <1>3, <1>4, <1>5, <1>6

\* The pool takes up sketches behind what it holds, and lets the oldest go.
LEMMA TwoParts ==
    ASSUME NEW q \in Seq(Nat), NEW p \in Seq(Nat), Distinct(q), Distinct(p),
           Elems(q) \cap Elems(p) = {}
    PROVE  q \o p \in Seq(Nat) /\ Distinct(q \o p) /\ Elems(q \o p) \subseteq Elems(q) \cup Elems(p)
<1>1. PICK n \in Nat, m \in Nat : n = Len(q) /\ m = Len(p)
  BY LenProperties
<1>2. DOMAIN q = 1..n /\ DOMAIN p = 1..m
  BY <1>1, LenProperties
<1>3. PICK r \in Seq(Nat) : /\ r = q \o p /\ Len(r) = n + m
                          /\ \A i \in 1..(n + m) : r[i] = IF i <= n THEN q[i] ELSE p[i - n]
  <2>1. /\ q \o p \in Seq(Nat) /\ Len(q \o p) = Len(q) + Len(p)
        /\ \A i \in 1..(Len(q) + Len(p)) :
              (q \o p)[i] = IF i <= Len(q) THEN q[i] ELSE p[i - Len(q)]
    BY ConcatProperties
  <2> QED
    BY <1>1, <2>1
<1>4. DOMAIN r = 1..(n + m)
  BY <1>3, LenProperties
<1>5. ASSUME NEW i \in 1..(n + m), i <= n PROVE i \in DOMAIN q /\ r[i] = q[i] /\ r[i] \in Elems(q)
  <2>1. i \in 1..n
    BY <1>5
  <2> QED
    BY <1>2, <1>3, <1>5, <2>1 DEF Elems
<1>6. ASSUME NEW i \in 1..(n + m), ~(i <= n)
      PROVE  i - n \in DOMAIN p /\ r[i] = p[i - n] /\ r[i] \in Elems(p)
  <2>1. i - n \in 1..m
    BY <1>6
  <2> QED
    BY <1>2, <1>3, <1>6, <2>1 DEF Elems
<1>7. ASSUME NEW i \in 1..(n + m), NEW j \in 1..(n + m), r[i] = r[j] PROVE i = j
  <2>1. CASE i <= n /\ j <= n
    BY <1>5, <1>7, <2>1 DEF Distinct
  <2>2. CASE ~(i <= n) /\ ~(j <= n)
    <3>1. i - n = j - n
      BY <1>6, <1>7, <2>2 DEF Distinct
    <3> QED
      BY <3>1
  <2>3. ~(i <= n /\ ~(j <= n)) /\ ~(~(i <= n) /\ j <= n)
    BY <1>5, <1>6, <1>7
  <2> QED
    BY <2>1, <2>2, <2>3
<1>8. Distinct(r)
  BY <1>4, <1>7 DEF Distinct
<1>9. ASSUME NEW x \in Elems(r) PROVE x \in Elems(q) \cup Elems(p)
  <2>1. PICK i \in 1..(n + m) : x = r[i]
    BY <1>4 DEF Elems
  <2> QED
    BY <1>5, <1>6, <2>1
<1> QED
  BY <1>3, <1>8, <1>9

LEMMA LastPlaces ==
    ASSUME NEW n \in Nat, NEW c \in Nat \ {0}, n > c
    PROVE  /\ n - c + 1 \in Int /\ n - c + 1 <= n /\ n - (n - c + 1) + 1 = c
           /\ \A i \in (n - c + 1)..n : i \in 1..n
           /\ \A i \in 1..c : (n - c + 1) + i - 1 = i + (n - c) /\ i + (n - c) \in 1..n
OBVIOUS

LEMMA NewestIs ==
    ASSUME NEW q \in Seq(Nat), Distinct(q)
    PROVE  /\ Newest(q) \in Seq(Nat) /\ Len(Newest(q)) <= MaxItems
           /\ Distinct(Newest(q)) /\ Elems(Newest(q)) \subseteq Elems(q)
<1>1. PICK n \in Nat, c \in Nat \ {0} : n = Len(q) /\ c = MaxItems
  BY SketchFacts, LenProperties
<1>2. DOMAIN q = 1..n /\ \A i \in 1..n : q[i] \in Nat
  BY <1>1, LenProperties, ElementOfSeq
<1>3. CASE ~(n > c)
  <2>1. Newest(q) = q /\ Len(q) <= MaxItems
    BY <1>1, <1>3 DEF Newest
  <2> QED
    BY <2>1
<1>4. CASE n > c
  <2>1. PICK r : r = SubSeq(q, n - c + 1, n) /\ r = Newest(q)
    BY <1>1, <1>4 DEF Newest
  <2>2. /\ SubSeq(q, n - c + 1, n) \in Seq(Nat)
        /\ Len(SubSeq(q, n - c + 1, n)) = IF n - c + 1 <= n THEN n - (n - c + 1) + 1 ELSE 0
        /\ \A i \in 1..(n - (n - c + 1) + 1) : SubSeq(q, n - c + 1, n)[i] = q[(n - c + 1) + i - 1]
    <3>1. n - c + 1 \in Int /\ n \in Int /\ \A i \in (n - c + 1)..n : q[i] \in Nat
      BY <1>2, <1>4, LastPlaces
    <3> QED
      BY <3>1, SubSeqProperties
  <2>3. r \in Seq(Nat) /\ Len(r) = c
    BY <1>4, <2>1, <2>2, LastPlaces
  <2>4. \A i \in 1..c : r[i] = q[i + (n - c)] /\ i + (n - c) \in 1..n
    BY <1>4, <2>1, <2>2, LastPlaces
  <2>5. DOMAIN r = 1..c
    BY <2>3, LenProperties
  <2>6. Distinct(r)
    <3>1. ASSUME NEW i \in 1..c, NEW j \in 1..c, r[i] = r[j] PROVE i = j
      <4>1. i + (n - c) = j + (n - c)
        BY <1>2, <2>4, <3>1 DEF Distinct
      <4> QED
        BY <4>1
    <3> QED
      BY <2>5, <3>1 DEF Distinct
  <2>7. Elems(r) \subseteq Elems(q)
    BY <1>2, <2>4, <2>5 DEF Elems
  <2>8. Len(r) <= MaxItems
    BY <1>1, <2>3
  <2> QED
    BY <2>1, <2>3, <2>6, <2>7, <2>8
<1> QED
  BY <1>3, <1>4

\* What is saved is new to the pool, and its maker counts as its user.
LEMMA SavedAre ==
    ASSUME SketchInv, NEW a \in Accounts, NEW I \in SUBSET Unjudged(a), NEW aRow \in InOrder(I)
    PROVE  /\ SketchesOf(a, aRow) \in Seq(Nat) /\ Distinct(SketchesOf(a, aRow))
           /\ Elems(SketchesOf(a, aRow)) \subseteq {draft[a].sketch[i] : i \in I}
<1> USE SketchFacts DEF SketchInv
<1>1. PICK n \in Nat : n = Cardinality(I)
  <2>1. I \subseteq Slides
    BY UnjudgedIs
  <2> QED
    BY <2>1, FS_Subset, FS_CardinalityType
<1>2. aRow \in [1..n -> I] /\ \A j, k \in 1..n : j < k => aRow[j] < aRow[k]
  BY <1>1 DEF InOrder
<1>3. DraftOk(a) /\ \A i \in I : i \in Slides /\ i \in Nat /\ draft[a].sketch[i] \in Nat
                                /\ draft[a].sketch[i] # 0
  <2>1. SketchInv /\ DraftOk(a)
    OBVIOUS
  <2>2. ASSUME NEW i \in I
        PROVE  i \in Slides /\ i \in Nat /\ draft[a].sketch[i] \in Nat /\ draft[a].sketch[i] # 0
    <3>1. i \in Slides /\ draft[a].sketch[i] \in Sketches
      BY <2>1, UnjudgedIs
    <3> QED
      BY <3>1
  <2> QED
    BY <2>1, <2>2
<1>4. PICK p : p = SketchesOf(a, aRow)
  OBVIOUS
<1>5. p \in [1..n -> Nat] /\ \A k \in 1..n : p[k] = draft[a].sketch[aRow[k]]
  BY <1>2, <1>3, <1>4 DEF SketchesOf
<1>6. p \in Seq(Nat)
  BY <1>5, SeqDef
<1>7. ASSUME NEW j \in 1..n, NEW k \in 1..n, p[j] = p[k] PROVE j = k
  <2>1. aRow[j] = aRow[k] /\ aRow[j] \in Nat
    BY <1>2, <1>3, <1>5, <1>7 DEF DraftOk
  <2>2. ~(j < k) /\ ~(k < j)
    BY <1>2, <2>1
  <2> QED
    BY <2>2
<1>8. Distinct(p)
  BY <1>5, <1>7 DEF Distinct
<1>9. Elems(p) \subseteq {draft[a].sketch[i] : i \in I}
  BY <1>2, <1>5 DEF Elems
<1> QED
  BY <1>4, <1>6, <1>8, <1>9

LEMMA PoolAfter ==
    ASSUME SketchInv, NEW a \in Accounts, NEW I \in SUBSET Unjudged(a),
           IF poolOn THEN SaveSketches(a, I) ELSE UNCHANGED <<pool, used>>
    PROVE  /\ pool' \in Seq(Nat) /\ Len(pool') <= MaxItems /\ Distinct(pool')
           /\ InPool' \subseteq InPool \cup {draft[a].sketch[i] : i \in I}
           /\ used' \subseteq Accounts \X InPool'
           /\ \A s \in InPool' : \/ s \in InPool
                                 \/ <<a, s>> \in used' /\ \E i \in I : s = draft[a].sketch[i]
           /\ \A b \in Accounts, s \in InPool' : <<b, s>> \in used => <<b, s>> \in used'
<1> USE SketchFacts DEF SketchInv
<1>1. pool \in Seq(Nat) /\ Len(pool) <= MaxItems /\ Distinct(pool) /\ InPool = Elems(pool)
      /\ used \subseteq Accounts \X InPool /\ InPool' = Elems(pool')
  BY DEF SketchShape, Distinct, InPool, Elems
<1>2. CASE ~poolOn
  BY <1>1, <1>2
<1>3. CASE poolOn
  <2>1. PICK aRow \in InOrder(I) : pool' = Newest(pool \o SketchesOf(a, aRow))
    BY <1>3 DEF SaveSketches
  <2>2. PICK p \in Seq(Nat) : p = SketchesOf(a, aRow) /\ Distinct(p)
                              /\ Elems(p) \subseteq {draft[a].sketch[i] : i \in I}
    BY SavedAre
  <2>3. Elems(pool) \cap Elems(p) = {}
    BY <1>1, <2>2 DEF NewInv
  <2>4. PICK q \in Seq(Nat) : q = pool \o p /\ Distinct(q) /\ Elems(q) \subseteq Elems(pool) \cup Elems(p)
    BY <1>1, <2>2, <2>3, TwoParts
  <2>5. pool' = Newest(q)
    BY <2>1, <2>2, <2>4
  <2>6. pool' \in Seq(Nat) /\ Len(pool') <= MaxItems /\ Distinct(pool') /\ Elems(pool') \subseteq Elems(q)
    BY <2>4, <2>5, NewestIs
  <2>7. InPool' \subseteq InPool \cup {draft[a].sketch[i] : i \in I}
    BY <1>1, <2>2, <2>4, <2>6
  <2>8. used' = {u \in used \cup {<<a, draft[a].sketch[i]>> : i \in I} : u[2] \in InPool'}
    BY <1>1, <1>3 DEF SaveSketches, Elems
  <2>9. used' \subseteq Accounts \X InPool'
    BY <1>1, <2>8
  <2>10. \A b \in Accounts, s \in InPool' : <<b, s>> \in used => <<b, s>> \in used'
    BY <2>8
  <2>11. ASSUME NEW s \in InPool', s \notin InPool
         PROVE  <<a, s>> \in used' /\ \E i \in I : s = draft[a].sketch[i]
    BY <2>7, <2>8, <2>11
  <2> QED
    BY <2>6, <2>7, <2>9, <2>10, <2>11
<1> QED
  BY <1>2, <1>3

\* The verdict on what was drawn, and the pool after it.
Verdict(a, bad) ==
    /\ judged' = judged \cup {draft[a].sketch[i] : i \in Unjudged(a) \ bad}
    /\ IF poolOn THEN SaveSketches(a, Unjudged(a) \ bad) ELSE UNCHANGED <<pool, used>>
    /\ UNCHANGED <<poolOn, made, fresh, losses>>

\* After the verdict: what is left to show is how the draft goes on.
LEMMA VerdictKeeps ==
    ASSUME SketchInv, NEW a \in Accounts, NEW bad \in SUBSET Unjudged(a), Verdict(a, bad),
           draft' \in [Accounts -> Drafts], shown' \in [Accounts -> [Sketches -> Nat]],
           \A b \in Accounts \ {a} : draft'[b] = draft[b] /\ shown'[b] = shown[b],
           draft'[a].pc # "asked", Unjudged(a)' = {}, DraftOk(a)',
           \A s \in Sketches : Meets(a, s)' => Meets(a, s)
    PROVE  SketchInv'
<1> USE SketchFacts DEF SketchInv
<1>1. UNCHANGED <<poolOn, made, fresh, losses>>
      /\ judged' = judged \cup {draft[a].sketch[i] : i \in Unjudged(a) \ bad}
  BY DEF Verdict
<1>2. PICK I \in SUBSET Unjudged(a) : I = Unjudged(a) \ bad
  OBVIOUS
<1>3. /\ pool' \in Seq(Nat) /\ Len(pool') <= MaxItems /\ Distinct(pool')
      /\ InPool' \subseteq InPool \cup {draft[a].sketch[i] : i \in I}
      /\ used' \subseteq Accounts \X InPool'
      /\ \A s \in InPool' : \/ s \in InPool
                            \/ <<a, s>> \in used' /\ \E i \in I : s = draft[a].sketch[i]
      /\ \A b \in Accounts, s \in InPool' : <<b, s>> \in used => <<b, s>> \in used'
  <2>1. SketchInv /\ IF poolOn THEN SaveSketches(a, I) ELSE UNCHANGED <<pool, used>>
    BY <1>2 DEF Verdict
  <2> QED
    BY <2>1, PoolAfter
<1>4. ASSUME NEW i \in I PROVE draft[a].sketch[i] \in 1..fresh
  <2>1. SketchInv /\ i \in Unjudged(a)
    OBVIOUS
  <2>2. draft[a].sketch[i] \in Sketches /\ draft[a].sketch[i] <= fresh /\ draft[a].sketch[i] \in Nat
    BY <2>1, UnjudgedIs
  <2> QED
    BY <2>2 DEF SketchShape
<1>5. judged' \subseteq 1..fresh /\ InPool' \subseteq judged'
  <2>1. judged \subseteq 1..fresh /\ InPool \subseteq judged
    BY DEF SketchShape
  <2>2. judged' = judged \cup {draft[a].sketch[i] : i \in I}
    BY <1>1, <1>2
  <2>3. {draft[a].sketch[i] : i \in I} \subseteq 1..fresh
    BY <1>4
  <2> QED
    BY <1>3, <2>1, <2>2, <2>3
<1>6. SketchShape'
  BY <1>1, <1>3, <1>5 DEF SketchShape, Distinct
<1>7. CapOfDay'
  <2>1. SketchInv
    OBVIOUS
  <2>2. made \in Nat
    BY DEF SketchShape
  <2>3. made' <= made
    BY <1>1, <2>2
  <2> QED
    BY <1>6, <2>1, <2>3, AskingStays
<1>8. fresh <= fresh' /\ judged \subseteq judged' /\ SketchInv
  <2>1. fresh \in Nat
    BY DEF SketchShape
  <2>2. fresh <= fresh' /\ judged \subseteq judged'
    BY <1>1, <2>1
  <2>3. SketchInv
    OBVIOUS
  <2> QED
    BY <2>2, <2>3
<1>9. \A s \in InPool' : \/ s \in InPool
                         \/ <<a, s>> \in used' /\ \E i \in Unjudged(a) : s = draft[a].sketch[i]
  BY <1>3
<1> QED
  BY <1>3, <1>6, <1>7, <1>8, <1>9, OneDraws

\* What a judged draft shows was judged, and the account has not shown it before.
LEMMA JudgedAre ==
    ASSUME SketchInv, NEW a \in Accounts, draft[a].pc = "draw", draft[a].left = {},
           NEW bad \in SUBSET Unjudged(a), Verdict(a, bad), NEW i \in Slides \ bad
    PROVE  /\ draft[a].sketch[i] \in judged' /\ draft[a].sketch[i] \in Sketches
           /\ shown[a][draft[a].sketch[i]] = 0
<1> USE SketchFacts DEF SketchInv
<1>1. DraftOk(a) /\ draft[a] \in Drafts /\ fresh \in Nat /\ fresh <= MaxSketches
  BY DEF SketchShape
<1>2. draft[a].sketch[i] # 0 /\ draft[a].sketch[i] \in Nat /\ draft[a].sketch[i] <= fresh
      /\ shown[a][draft[a].sketch[i]] = 0
      /\ (i \notin Unjudged(a) => draft[a].sketch[i] \in judged)
  BY <1>1 DEF DraftOk, Drafts
<1>3. draft[a].sketch[i] \in Sketches
  BY <1>1, <1>2
<1>4. draft[a].sketch[i] \in judged'
  BY <1>2 DEF Verdict
<1> QED
  BY <1>2, <1>3, <1>4

\* The package is finished: each of its sketches is shown once more.
LEMMA FinishKeeps ==
    ASSUME SketchInv, NEW a \in Accounts, draft[a].pc = "draw", draft[a].left = {},
           Verdict(a, {}), Finish(a)
    PROVE  SketchInv'
<1> USE SketchFacts DEF SketchInv
<1>1. DraftOk(a) /\ draft[a] \in Drafts /\ draft \in [Accounts -> Drafts]
      /\ shown \in [Accounts -> [Sketches -> Nat]] /\ judged \subseteq judged'
      /\ fresh' = fresh /\ fresh \in Nat
  BY DEF SketchShape, Verdict
<1> DEFINE At(s) == {i \in Slides : draft[a].sketch[i] = s}
<1>2. shown' = [shown EXCEPT ![a] = [s \in Sketches |-> shown[a][s] + Cardinality(At(s))]]
      /\ draft' = [draft EXCEPT ![a] = NoDraft]
  BY DEF Finish, Abort
<1>3. ASSUME NEW s \in Sketches PROVE
        /\ Cardinality(At(s)) \in Nat
        /\ Cardinality(At(s)) = 0 \/ /\ Cardinality(At(s)) = 1 /\ shown[a][s] = 0 /\ s \in judged'
                                     /\ \E i \in Slides : draft[a].sketch[i] = s
  <2>0. IsFiniteSet(At(s))
    BY FS_Subset
  <2>1. CASE At(s) = {}
    <3>1. Cardinality(At(s)) = 0
      BY <2>0, <2>1, FS_EmptySet
    <3> QED
      BY <3>1
  <2>2. CASE At(s) # {}
    <3>1. PICK i \in Slides : draft[a].sketch[i] = s
      BY <2>2
    <3>2. s # 0
      OBVIOUS
    <3>3. At(s) = {i}
      BY <1>1, <3>1, <3>2 DEF DraftOk
    <3>4. Cardinality(At(s)) = 1
      BY <3>3, FS_Singleton
    <3>5. SketchInv /\ i \in Slides \ {} /\ {} \in SUBSET Unjudged(a)
      OBVIOUS
    <3>6. s \in judged' /\ shown[a][s] = 0
      BY <3>1, <3>5, JudgedAre
    <3> QED
      BY <3>1, <3>4, <3>6
  <2> QED
    BY <2>1, <2>2
<1> HIDE DEF At
<1>4. /\ shown' \in [Accounts -> [Sketches -> Nat]]
      /\ \A s \in Sketches : shown'[a][s] = shown[a][s] + Cardinality(At(s))
      /\ \A b \in Accounts \ {a} : draft'[b] = draft[b] /\ shown'[b] = shown[b]
      /\ draft' \in [Accounts -> Drafts] /\ draft'[a] = NoDraft
  <2>1. PICK f \in [Sketches -> Nat] : f = [s \in Sketches |-> shown[a][s] + Cardinality(At(s))]
    <3>1. \A s \in Sketches : shown[a][s] + Cardinality(At(s)) \in Nat
      BY <1>1, <1>3
    <3> QED
      BY <3>1
  <2> QED
    BY <1>1, <1>2, <2>1
<1>5. Unjudged(a)' = {} /\ draft'[a].pc # "asked"
  BY <1>4 DEF Unjudged
<1>6. ASSUME NEW s \in Sketches
      PROVE  shown'[a][s] <= 1 /\ (shown'[a][s] > 0 => s \in judged')
             /\ (shown'[a][s] > 0 => Meets(a, s))
  <2>1. shown[a][s] \in Nat /\ shown[a][s] <= 1 /\ (shown[a][s] > 0 => s \in judged)
    BY <1>1 DEF DraftOk
  <2>2. CASE Cardinality(At(s)) = 0
    <3>1. shown'[a][s] = shown[a][s]
      BY <1>4, <2>1, <2>2
    <3> QED
      BY <1>1, <2>1, <3>1 DEF Meets
  <2>3. CASE Cardinality(At(s)) # 0
    <3>1. shown'[a][s] = 1 /\ s \in judged' /\ \E i \in Slides : draft[a].sketch[i] = s
      BY <1>3, <1>4, <2>1, <2>3
    <3> QED
      BY <3>1 DEF Meets
  <2> QED
    BY <2>2, <2>3
<1>7. DraftOk(a)'
  BY <1>1, <1>4, <1>5, <1>6 DEF DraftOk
<1>8. \A s \in Sketches : Meets(a, s)' => Meets(a, s)
  <2> SUFFICES ASSUME NEW s \in Sketches, Meets(a, s)' PROVE Meets(a, s)
    OBVIOUS
  <2>1. \A i \in Slides : draft'[a].sketch[i] # s
    BY <1>4
  <2>2. shown'[a][s] > 0
    BY <2>1 DEF Meets
  <2> QED
    BY <1>6, <2>2
<1>9. SketchInv /\ {} \in SUBSET Unjudged(a)
  OBVIOUS
<1> QED
  BY <1>4, <1>5, <1>7, <1>8, <1>9, VerdictKeeps

\* The slides that failed are drawn again.
LEMMA AgainKeeps ==
    ASSUME SketchInv, NEW a \in Accounts, draft[a].pc = "draw", draft[a].left = {},
           NEW bad \in SUBSET Unjudged(a), Verdict(a, bad), NEW f \in [Slides -> Nat],
           draft' = [draft EXCEPT ![a].round = bad, ![a].left = bad, ![a].again = f],
           UNCHANGED shown
    PROVE  SketchInv'
<1> USE SketchFacts DEF SketchInv
<1>1. DraftOk(a) /\ draft[a] \in Drafts /\ draft \in [Accounts -> Drafts]
      /\ shown' \in [Accounts -> [Sketches -> Nat]] /\ judged \subseteq judged'
      /\ fresh' = fresh /\ fresh \in Nat /\ bad \subseteq Slides
  BY UnjudgedIs DEF SketchShape, Verdict
<1>2. PICK d \in Drafts : /\ draft' = [draft EXCEPT ![a] = d]
                          /\ d.pc = "draw" /\ d.round = bad /\ d.left = bad
                          /\ d.taken = draft[a].taken /\ d.sketch = draft[a].sketch
  <2>1. PICK d : d = [draft[a] EXCEPT !.round = bad, !.left = bad, !.again = f]
    OBVIOUS
  <2>2. /\ d \in Drafts /\ d.pc = "draw" /\ d.round = bad /\ d.left = bad
        /\ d.taken = draft[a].taken /\ d.sketch = draft[a].sketch
    BY <1>1, <2>1 DEF Drafts
  <2> QED
    BY <1>1, <2>1, <2>2
<1>3. /\ draft'[a] = d /\ draft' \in [Accounts -> Drafts]
      /\ \A b \in Accounts \ {a} : draft'[b] = draft[b] /\ shown'[b] = shown[b]
  BY <1>1, <1>2
<1>4. Unjudged(a)' = {} /\ draft'[a].pc # "asked"
  BY <1>2, <1>3 DEF Unjudged
<1>5. d.left \subseteq d.round /\ d.left \cap d.taken = {}
  BY <1>2 DEF Unjudged
<1>6. ASSUME NEW i \in Slides
      PROVE  /\ d.sketch[i] <= fresh
             /\ i \notin d.left => d.sketch[i] # 0 /\ d.sketch[i] \in judged'
             /\ d.sketch[i] # 0 => shown[a][d.sketch[i]] = 0
             /\ \A j \in Slides : d.sketch[i] = d.sketch[j] /\ d.sketch[i] # 0 => i = j
  <2>1. i \notin bad => draft[a].sketch[i] \in judged' /\ draft[a].sketch[i] \in Sketches
    <3>1. SketchInv
      OBVIOUS
    <3> QED
      BY <3>1, JudgedAre
  <2> QED
    BY <1>1, <1>2, <2>1 DEF DraftOk
<1>7. \A s \in Sketches : shown'[a][s] <= 1 /\ (shown'[a][s] > 0 => s \in judged')
  BY <1>1 DEF DraftOk
<1>8. DraftOk(a)'
  BY <1>1, <1>2, <1>3, <1>5, <1>6, <1>7 DEF DraftOk
<1>9. \A s \in Sketches : Meets(a, s)' => Meets(a, s)
  BY <1>2, <1>3 DEF Meets
<1>10. SketchInv
  OBVIOUS
<1> QED
  BY <1>1, <1>3, <1>4, <1>8, <1>9, <1>10, VerdictKeeps

\* A slide was drawn too often: the draft is given up after its verdict.
LEMMA GivenUpKeeps ==
    ASSUME SketchInv, NEW a \in Accounts, NEW bad \in SUBSET Unjudged(a), Verdict(a, bad),
           Abort(a), UNCHANGED shown
    PROVE  SketchInv'
<1> USE SketchFacts DEF SketchInv
<1>1. DraftOk(a) /\ draft \in [Accounts -> Drafts] /\ judged \subseteq judged'
      /\ shown' \in [Accounts -> [Sketches -> Nat]] /\ fresh' = fresh /\ fresh \in Nat
  BY DEF SketchShape, Verdict
<1>2. /\ draft'[a] = NoDraft /\ draft' \in [Accounts -> Drafts]
      /\ \A b \in Accounts \ {a} : draft'[b] = draft[b] /\ shown'[b] = shown[b]
  BY <1>1 DEF Abort
<1>3. Unjudged(a)' = {} /\ draft'[a].pc # "asked"
  BY <1>2 DEF Unjudged
<1>4. \A s \in Sketches : shown'[a][s] <= 1 /\ (shown'[a][s] > 0 => s \in judged')
  BY <1>1 DEF DraftOk
<1>5. DraftOk(a)'
  BY <1>1, <1>2, <1>3, <1>4 DEF DraftOk
<1>6. \A s \in Sketches : Meets(a, s)' => Meets(a, s)
  BY <1>2 DEF Meets
<1>7. SketchInv
  OBVIOUS
<1> QED
  BY <1>1, <1>2, <1>3, <1>5, <1>6, <1>7, VerdictKeeps

LEMMA JudgeKeeps == ASSUME SketchInv, NEW a \in Accounts, Judge(a) PROVE SketchInv'
<1>1. draft[a].pc = "draw" /\ draft[a].left = {} /\ UNCHANGED <<poolOn, made, fresh>>
  BY DEF Judge
<1>2. draft[a].round \ draft[a].taken = Unjudged(a)
  BY <1>1 DEF Unjudged
<1>3. CASE Lose /\ Abort(a) /\ UNCHANGED <<pool, used, shown, judged>>
  <2>1. losses' \in Nat
    BY <1>3 DEF Lose, SketchInv, SketchShape
  <2> QED
    BY <1>1, <1>3, <2>1, DraftsStart
<1>4. CASE ~(Lose /\ Abort(a) /\ UNCHANGED <<pool, used, shown, judged>>)
  <2>1. PICK bad \in SUBSET Unjudged(a) :
          /\ Verdict(a, bad)
          /\ \/ bad = {} /\ Finish(a)
             \/ Abort(a) /\ UNCHANGED shown
             \/ /\ draft' = [draft EXCEPT ![a].round = bad, ![a].left = bad, ![a].again =
                               [i \in Slides |-> draft[a].again[i] + IF i \in bad THEN 1 ELSE 0]]
                /\ UNCHANGED shown
    BY <1>1, <1>2, <1>4 DEF Judge, Kept, Verdict
  <2>2. CASE bad = {} /\ Finish(a)
    BY <1>1, <2>1, <2>2, FinishKeeps
  <2>3. CASE Abort(a) /\ UNCHANGED shown
    BY <2>1, <2>3, GivenUpKeeps
  <2>4. CASE /\ draft' = [draft EXCEPT ![a].round = bad, ![a].left = bad, ![a].again =
                            [i \in Slides |-> draft[a].again[i] + IF i \in bad THEN 1 ELSE 0]]
             /\ UNCHANGED shown
    <3>1. PICK f \in [Slides -> Nat] :
             f = [i \in Slides |-> draft[a].again[i] + IF i \in bad THEN 1 ELSE 0]
      <4>1. draft[a].again \in [Slides -> Nat]
        BY DEF SketchInv, SketchShape, Drafts
      <4>2. PICK g \in [Slides -> Nat] : g = draft[a].again
        BY <4>1
      <4>3. ASSUME NEW i \in Slides PROVE g[i] + (IF i \in bad THEN 1 ELSE 0) \in Nat
        <5>1. g[i] \in Nat /\ g[i] + 1 \in Nat /\ g[i] + 0 \in Nat
          OBVIOUS
        <5> QED
          BY <5>1
      <4> QED
        BY <4>2, <4>3
    <3> QED
      BY <1>1, <2>1, <2>4, <3>1, AgainKeeps
  <2> QED
    BY <2>1, <2>2, <2>3, <2>4
<1> QED
  BY <1>3, <1>4

LEMMA SketchNextInv == SketchInv /\ [SketchNext]_sketchVars => SketchInv'
<1> SUFFICES ASSUME SketchInv, [SketchNext]_sketchVars PROVE SketchInv'
  OBVIOUS
<1>1. ASSUME NEW a \in Accounts, Begin(a) PROVE SketchInv'
  BY <1>1, DraftsStart
<1>2. ASSUME NEW a \in Accounts, Ask(a) PROVE SketchInv'
  BY <1>2, AskKeeps
<1>3. ASSUME NEW a \in Accounts, Drawn(a) PROVE SketchInv'
  BY <1>3, DrawnKeeps
<1>4. ASSUME NEW a \in Accounts, Take(a) PROVE SketchInv'
  BY <1>4, TakeKeeps
<1>5. ASSUME NEW a \in Accounts, Judge(a) PROVE SketchInv'
  BY <1>5, JudgeKeeps
<1>6. ASSUME NEW a \in Accounts, Die(a) PROVE SketchInv'
  BY <1>6, DieKeeps
<1>7. CASE NewDay
  BY <1>7, NewDayKeeps
<1>8. CASE UNCHANGED sketchVars
  <2> USE DEF SketchInv
  <2>1. UNCHANGED <<poolOn, made, fresh, pool, used, draft, shown, judged, losses>>
    BY <1>8 DEF sketchVars
  <2>2. InPool' = InPool /\ Asking' = Asking
    BY <2>1 DEF InPool, Asking
  <2>3. SketchShape' /\ CapOfDay'
    BY <2>1, <2>2 DEF SketchShape, CapOfDay
  <2>4. \A a \in Accounts : DraftOk(a)'
    BY <2>1 DEF DraftOk, Unjudged
  <2>5. UseInv' /\ NewInv'
    BY <2>1, <2>2 DEF UseInv, NewInv, Meets, Unjudged
  <2> QED
    BY <2>3, <2>4, <2>5
<1> QED
  BY <1>1, <1>2, <1>3, <1>4, <1>5, <1>6, <1>7, <1>8 DEF SketchNext

LEMMA SketchInvIsSound == SketchInv => SketchesAreSound
<1> SUFFICES ASSUME SketchInv PROVE SketchesAreSound
  OBVIOUS
<1> USE SketchFacts DEF SketchInv
<1>1. SketchTypeOK
  BY DEF SketchTypeOK, SketchShape
<1>2. ShownOnce /\ ShownIsJudged
  BY DEF ShownOnce, ShownIsJudged, DraftOk
<1>3. CapOvershoot
  <2>1. Cardinality(Asking) \in Nat /\ made \in Nat
    BY AskingIs DEF SketchShape
  <2> QED
    BY <2>1 DEF CapOfDay, CapOvershoot
<1> QED
  BY <1>1, <1>2, <1>3 DEF SketchesAreSound

\* Accounts that draw and judge side by side share a pool and a daily cap: none of them shows a
\* sketch twice, none shows one that was not judged, and the cap is passed by at most one
\* drawing for every other account (_build_note_carousel_images, image_pool).
THEOREM SketchesAreSoundHolds == SketchSpec => []SketchesAreSound
<1>1. SketchInit => SketchInv
  BY SketchInitInv
<1>2. SketchInv /\ [SketchNext]_sketchVars => SketchInv'
  BY SketchNextInv
<1>3. SketchInv => SketchesAreSound
  BY SketchInvIsSound
<1> QED
  BY <1>1, <1>2, <1>3, PTL DEF SketchSpec

-----------------------------------------------------------------------------
(* The calls of a person.  What was clicked today is recorded, or is the    *)
(* click of the call under way, or cost a fault; the same holds of every    *)
(* person and the local table.                                              *)

CallResults == {"none", "success", "failed"}
CallSteps   == {"idle", "open", "clicked", "settle"}
ACall       == [pc : CallSteps, target : People \cup {NoPerson}, result : CallResults]
Statuses    == {"none", "filtered_out", "needs_review", "scored", "CANARY_TARGET_READY"}

CallTypes ==
    /\ Calls!TypeOK
    /\ call.pc = "idle" => call = Calls!NoCall
    /\ call.pc # "idle" => call.target \in People
    /\ call.pc = "settle" => call.result # "none"

\* The click of the call under way.
Under(p) == call.pc \in {"clicked", "settle"} /\ call.target = p

BudgetOfCalls ==
    act # "friend" =>
        /\ call.pc # "idle" => rows.all < CallCap
        /\ clicksToday <= CallCap + faults
        /\ clicksToday <= rows.all + faults
                          + (IF call.pc \in {"clicked", "settle"} THEN 1 ELSE 0)

ClicksInv ==
    /\ act \in {"like", "prospect"} => \A p \in People : clicks[p] = 0
    /\ act = "prospect" => call.pc = "idle"
    /\ act = "follow" /\ call.pc = "open" => local[call.target] = "none"
    /\ \A p \in People :
          clicks[p] <= faults + (IF Under(p) \/ local[p] # "none" THEN 1 ELSE 0)

CallsInv == CallTypes /\ BudgetOfCalls /\ ClicksInv /\ Calls!ScoredIsForeign

LEMMA CallFacts ==
    /\ CallCap \in Nat /\ MaxFaults \in Nat
    /\ Calls!NoCall \in ACall /\ Calls!NoCall.pc = "idle"
BY CallsAssumption, ConstantsAssumption DEF Calls!NoCall, ACall, CallSteps, CallResults

LEMMA CallIs ==
    ASSUME CallTypes
    PROVE  /\ call \in ACall /\ call.pc \in CallSteps
           /\ rows.all \in Nat /\ rows.requested \in Nat /\ clicksToday \in Nat
           /\ faults \in Nat /\ faults <= MaxFaults /\ clicks \in [People -> Nat]
           /\ act \in {"follow", "like", "friend", "prospect"}
           /\ local \in [People -> {"none", "success", "failed", "duplicate", "skipped"}]
           /\ found \in [People -> {"none", "failed", "success"}]
           /\ queue \in [People -> [status : Statuses, abroad : BOOLEAN]]
           /\ rows \in [all : Nat, requested : Nat]
           /\ enabled \in BOOLEAN /\ shownTo \subseteq People
BY CallFacts DEF CallTypes, Calls!TypeOK, ACall, CallSteps, CallResults, Statuses, Calls!Kinds

\* No card reaches the score for a call without a word of another country.
LEMMA ScoredSpeaksOfAbroad ==
    ASSUME NEW i \in Calls!Infos, Calls!Decision(i) = "scored"
    PROVE  Calls!Foreign(i)
<1> SUFFICES ASSUME ~Calls!Foreign(i) PROVE FALSE
  OBVIOUS
<1>1. /\ i.beautyText \in BOOLEAN /\ i.tradeText \in BOOLEAN /\ ~i.abroad /\ ~i.customers
      /\ i.korea \in BOOLEAN
  BY DEF Calls!Infos, Calls!Foreign
<1>2. Calls!ScoreOf(i) \in Nat /\ Calls!ScoreOf(i) <= 56
  <2> DEFINE field == (IF i.beautyText THEN 15 ELSE 0)
                      + (IF i.beautyText \/ i.tradeText THEN 15 ELSE 0)
  <2>1. Calls!ScoreOf(i) = field + 0 + 16 + 10
    BY <1>1 DEF Calls!ScoreOf
  <2>2. field \in Nat /\ field <= 30
    OBVIOUS
  <2> HIDE DEF field
  <2> QED
    BY <2>1, <2>2
<1>3. ~Calls!Excluded(i) /\ (Calls!Beauty(i) \/ Calls!Trade(i))
  BY DEF Calls!Decision
<1>4. Calls!Cutoff = 55 /\ Calls!Band = 10
  BY DEF Calls!Cutoff, Calls!Band
<1>5. CASE ~i.korea
  BY <1>3, <1>5 DEF Calls!Decision
<1>6. CASE i.korea /\ Calls!ScoreOf(i) \in 45 .. 65
  BY <1>1, <1>3, <1>4, <1>6 DEF Calls!Decision
<1>7. CASE i.korea /\ ~(Calls!ScoreOf(i) \in 45 .. 65)
  <2>1. ~(Calls!ScoreOf(i) \in Calls!Cutoff - Calls!Band .. Calls!Cutoff + Calls!Band)
    BY <1>4, <1>7
  <2>2. Calls!ScoreOf(i) < Calls!Cutoff - Calls!Band
    BY <1>2, <1>4, <1>7
  <2>3. ~(Calls!ScoreOf(i) > Calls!Cutoff + Calls!Band)
    BY <1>2, <1>4
  <2> QED
    BY <1>3, <1>7, <2>1, <2>2, <2>3 DEF Calls!Decision
<1> QED
  BY <1>1, <1>5, <1>6, <1>7

LEMMA DecisionIsStatus ==
    ASSUME NEW i \in Calls!Infos
    PROVE  Calls!Decision(i) \in Statuses
<1>1. Calls!ScoreOf(i) \in Nat
  <2> DEFINE field == (IF i.beautyText THEN 15 ELSE 0)
                      + (IF i.beautyText \/ i.tradeText THEN 15 ELSE 0)
             place == CASE i.abroad /\ ~i.korea -> 30
                        [] i.abroad /\ i.korea -> 22
                        [] i.customers /\ i.korea -> 15
                        [] i.customers /\ ~i.korea -> 12
                        [] OTHER -> 0
  <2>1. Calls!ScoreOf(i) = field + place + 16 + 10
    BY DEF Calls!ScoreOf
  <2>2. field \in Nat /\ place \in Nat
    OBVIOUS
  <2> HIDE DEF field, place
  <2> QED
    BY <2>1, <2>2
<1>2. Calls!Cutoff = 55 /\ Calls!Band = 10
  BY DEF Calls!Cutoff, Calls!Band
<1> DEFINE ByScore ==
      CASE ~Calls!Foreign(i) /\ ~i.korea -> "needs_review"
        [] Calls!ScoreOf(i) \in Calls!Cutoff - Calls!Band .. Calls!Cutoff + Calls!Band
              -> "needs_review"
        [] (Calls!Foreign(i) \/ i.korea) /\ Calls!ScoreOf(i) < Calls!Cutoff - Calls!Band
              -> "filtered_out"
        [] (Calls!Foreign(i) \/ i.korea) /\ Calls!ScoreOf(i) > Calls!Cutoff + Calls!Band
              -> "scored"
<1>3. ByScore \in Statuses
  BY <1>1, <1>2 DEF Statuses
<1>4. Calls!Decision(i) =
        CASE Calls!Excluded(i) -> "filtered_out"
          [] ~Calls!Excluded(i) /\ ~Calls!Beauty(i) /\ ~Calls!Trade(i) -> "needs_review"
          [] ~Calls!Excluded(i) /\ (Calls!Beauty(i) \/ Calls!Trade(i)) -> ByScore
  BY DEF Calls!Decision
<1> HIDE DEF ByScore
<1> QED
  BY <1>3, <1>4 DEF Statuses

\* What the visit of a profile makes of it, without a score.
Enriched(o) == o \in [status : Statuses, abroad : BOOLEAN] /\ o.status # "scored"

LEMMA EnrichNeverScores == ASSUME NEW o \in Calls!EnrichOutcomes PROVE Enriched(o)
<1>1. PICK i \in Calls!Infos, button \in BOOLEAN :
         o = [status |-> IF Calls!Excluded(i) \/ ~button THEN "filtered_out"
                         ELSE "CANARY_TARGET_READY",
              abroad |-> Calls!Foreign(i)]
  BY DEF Calls!EnrichOutcomes
<1>2. Calls!Foreign(i) \in BOOLEAN
  BY DEF Calls!Foreign, Calls!Infos
<1> QED
  BY <1>1, <1>2 DEF Enriched, Statuses

LEMMA CallsInitInv == Calls!Init => CallsInv
<1> SUFFICES ASSUME Calls!Init PROVE CallsInv
  OBVIOUS
<1> USE CallFacts DEF Calls!Init
<1>1. CallTypes
  BY DEF CallTypes, Calls!TypeOK, ACall, CallSteps, CallResults, Calls!NoCall
<1>2. BudgetOfCalls
  BY DEF BudgetOfCalls
<1>3. ClicksInv
  BY DEF ClicksInv
<1>4. Calls!ScoredIsForeign
  BY DEF Calls!ScoredIsForeign
<1> QED
  BY <1>1, <1>2, <1>3, <1>4 DEF CallsInv

\* A call begins: whom a Follow is for is not in the local table.
LEMMA BeginKeeps ==
    ASSUME CallsInv, NEW p \in People,
           Calls!FollowOnce(p) \/ Calls!LikeOnce(p) \/ Calls!FriendInGroup(p)
    PROVE  CallsInv'
<1> USE CallFacts DEF CallsInv
<1>1. Calls!Begin(p) /\ act # "prospect" /\ (act = "follow" => local[p] = "none")
  BY DEF Calls!FollowOnce, Calls!LikeOnce, Calls!FriendInGroup
<1>2. /\ UNCHANGED <<enabled, act, shownTo, local, rows, found, queue, clicksToday, clicks, faults>>
      /\ call.pc = "idle"
      /\ act # "friend" => rows.all < CallCap
  BY <1>1 DEF Calls!Begin, Calls!store, Calls!counted, Calls!Used, Calls!DayLimit
<1>3. call'.pc = "open" /\ call'.target = p /\ call'.result = "none" /\ call' \in ACall
  BY <1>1 DEF Calls!Begin, Calls!NoCall, ACall, CallSteps, CallResults
<1>4. CallTypes'
  BY <1>2, <1>3 DEF CallTypes, Calls!TypeOK, ACall, CallSteps, CallResults
<1>5. BudgetOfCalls'
  BY <1>2, <1>3 DEF BudgetOfCalls
<1>6. ClicksInv'
  <2>1. ASSUME NEW q \in People
        PROVE  clicks'[q] <= faults' + (IF Under(q)' \/ local'[q] # "none" THEN 1 ELSE 0)
    <3>1. ~Under(q) /\ ~Under(q)'
      BY <1>2, <1>3 DEF Under
    <3> QED
      BY <1>2, <2>1, <3>1 DEF ClicksInv
  <2> QED
    BY <1>1, <1>2, <1>3, <2>1 DEF ClicksInv, Under
<1>7. Calls!ScoredIsForeign'
  BY <1>2 DEF Calls!ScoredIsForeign
<1> QED
  BY <1>4, <1>5, <1>6, <1>7

\* What ends a call without a click: the page, or what its target already is.
LEMMA PageKeeps ==
    ASSUME CallsInv,
           Calls!Unusable \/ Calls!AlreadyLiked \/ Calls!Confirmed \/ Calls!NotConfirmed
    PROVE  CallsInv'
<1> USE CallFacts DEF CallsInv
<1>1. /\ UNCHANGED <<enabled, act, shownTo, local, rows, found, queue, clicksToday, clicks, faults>>
      /\ call.pc \in {"open", "clicked"}
      /\ \E r \in CallResults \ {"none"} :
            call' = [call EXCEPT !.pc = "settle", !.result = r]
  BY DEF Calls!Unusable, Calls!AlreadyLiked, Calls!Confirmed, Calls!NotConfirmed,
         Calls!store, Calls!counted, CallResults
<1>2. /\ call'.pc = "settle" /\ call'.result # "none" /\ call'.target = call.target
      /\ call' \in ACall /\ call.target \in People
  BY <1>1, CallIs DEF ACall, CallSteps, CallResults, CallTypes
<1>3. CallTypes'
  BY <1>1, <1>2 DEF CallTypes, Calls!TypeOK, ACall, CallSteps, CallResults
<1>4. BudgetOfCalls'
  BY <1>1, <1>2, CallIs DEF BudgetOfCalls
<1>5. ClicksInv'
  <2>1. ASSUME NEW p \in People PROVE Under(p) => Under(p)'
    BY <1>1, <1>2 DEF Under
  <2>2. ASSUME NEW p \in People
        PROVE  clicks'[p] <= faults' + (IF Under(p)' \/ local'[p] # "none" THEN 1 ELSE 0)
    <3>1. clicks[p] \in Nat /\ clicks[p] <= faults + (IF Under(p) \/ local[p] # "none" THEN 1 ELSE 0)
      BY <2>2, CallIs DEF ClicksInv
    <3> QED
      BY <1>1, <2>1, <2>2, <3>1, CallIs
  <2>3. /\ act' \in {"like", "prospect"} => \A p \in People : clicks'[p] = 0
        /\ act' # "prospect"
        /\ call'.pc # "open"
    BY <1>1, <1>2 DEF ClicksInv
  <2> QED
    BY <2>2, <2>3 DEF ClicksInv, Under
<1>6. Calls!ScoredIsForeign'
  BY <1>1 DEF Calls!ScoredIsForeign
<1> QED
  BY <1>3, <1>4, <1>5, <1>6

\* A click: once of a call, and for a Follow or a friend request only on one whom the
\* local table does not know.
LEMMA ClickKeeps == ASSUME CallsInv, Calls!Click PROVE CallsInv'
<1> USE CallFacts DEF CallsInv
<1>1. /\ UNCHANGED <<enabled, act, local, rows, found, queue, faults>>
      /\ call.pc = "open" /\ clicksToday' = clicksToday + 1
      /\ shownTo' \in {shownTo, shownTo \cup {call.target}}
      /\ call' = [call EXCEPT !.pc = "clicked"]
      /\ clicks' = IF act = "like" THEN clicks
                   ELSE [clicks EXCEPT ![call.target] = @ + 1]
      /\ act = "friend" => local[call.target] = "none"
  BY DEF Calls!Click, Calls!store
<1>2. /\ call'.pc = "clicked" /\ call'.target = call.target
      /\ call' \in ACall /\ call.target \in People
  BY <1>1, CallIs DEF ACall, CallSteps, CallTypes
<1>3. clicks' \in [People -> Nat] /\ shownTo' \subseteq People
  BY <1>1, <1>2, CallIs
<1>4. CallTypes'
  BY <1>1, <1>2, <1>3, CallIs DEF CallTypes, Calls!TypeOK, ACall, CallSteps, CallResults
<1>5. BudgetOfCalls'
  BY <1>1, <1>2, CallIs DEF BudgetOfCalls
<1>6. ClicksInv'
  <2>1. act # "prospect"
    BY <1>1 DEF ClicksInv
  <2>2. ASSUME NEW p \in People
        PROVE  clicks'[p] <= faults' + (IF Under(p)' \/ local'[p] # "none" THEN 1 ELSE 0)
    <3>1. clicks[p] \in Nat /\ faults \in Nat
          /\ clicks[p] <= faults + (IF Under(p) \/ local[p] # "none" THEN 1 ELSE 0)
          /\ ~Under(p)
      BY <1>1, <2>2, CallIs DEF ClicksInv, Under
    <3>2. CASE act = "like"
      BY <1>1, <2>2, <3>1, <3>2 DEF ClicksInv
    <3>3. CASE act # "like" /\ p = call.target
      <4>1. local[p] = "none" /\ clicks'[p] = clicks[p] + 1 /\ Under(p)'
        BY <1>1, <1>2, <2>1, <2>2, <3>3, CallIs DEF ClicksInv, Under
      <4> QED
        BY <1>1, <3>1, <4>1
    <3>4. CASE act # "like" /\ p # call.target
      <4>1. clicks'[p] = clicks[p]
        BY <1>1, <2>2, <3>4, CallIs
      <4> QED
        BY <1>1, <3>1, <4>1
    <3> QED
      BY <3>2, <3>3, <3>4
  <2> QED
    BY <1>1, <1>2, <2>1, <2>2 DEF ClicksInv, Under
<1>7. Calls!ScoredIsForeign'
  BY <1>1 DEF Calls!ScoredIsForeign
<1> QED
  BY <1>4, <1>5, <1>6, <1>7

\* The table of this machine learns somebody, and no call is under way afterwards.
LEMMA TableKeeps == ASSUME CallsInv, NEW p \in People, Calls!Relearn(p) \/ Calls!TurnAway
                    PROVE  CallsInv'
<1> USE CallFacts DEF CallsInv
<1>1. /\ UNCHANGED <<enabled, act, shownTo, rows, found, queue, clicksToday, clicks, faults>>
      /\ call' = Calls!NoCall /\ call.pc \in {"idle", "open"}
  BY DEF Calls!Relearn, Calls!TurnAway, Calls!counted, Calls!NoCall
<1>2. /\ local' \in [People -> {"none", "success", "failed", "duplicate", "skipped"}]
      /\ \A q \in People : local[q] # "none" => local'[q] # "none"
  <2>1. CASE Calls!Relearn(p)
    BY <2>1, CallIs DEF Calls!Relearn
  <2>2. CASE Calls!TurnAway
    <3>1. call.target \in People
      BY <2>2 DEF Calls!TurnAway, CallTypes
    <3> QED
      BY <2>2, <3>1, CallIs DEF Calls!TurnAway
  <2> QED
    BY <2>1, <2>2
<1>3. CallTypes'
  BY <1>1, <1>2 DEF CallTypes, Calls!TypeOK, ACall, CallSteps, CallResults
<1>4. BudgetOfCalls'
  BY <1>1, CallIs DEF BudgetOfCalls
<1>5. ClicksInv'
  <2>1. ASSUME NEW q \in People
        PROVE  clicks'[q] <= faults' + (IF Under(q)' \/ local'[q] # "none" THEN 1 ELSE 0)
    <3>1. ~Under(q) /\ ~Under(q)' /\ clicks[q] \in Nat
      BY <1>1, <2>1, CallIs DEF Under
    <3>2. clicks[q] <= faults + (IF local[q] # "none" THEN 1 ELSE 0)
      BY <2>1, <3>1 DEF ClicksInv
    <3> QED
      BY <1>1, <1>2, <2>1, <3>1, <3>2, CallIs
  <2> QED
    BY <1>1, <2>1 DEF ClicksInv, Under
<1>6. Calls!ScoredIsForeign'
  BY <1>1 DEF Calls!ScoredIsForeign
<1> QED
  BY <1>3, <1>4, <1>5, <1>6

\* The record: a row more, or a fault; and but for a Like, the target is known locally.
LEMMA SettleKeeps == ASSUME CallsInv, Calls!Settle PROVE CallsInv'
<1> USE CallFacts DEF CallsInv
<1>1. /\ UNCHANGED <<enabled, act, shownTo, queue, clicksToday, clicks>>
      /\ call' = Calls!NoCall /\ call.pc = "settle" /\ call.target \in People
      /\ call.result \in CallResults \ {"none"}
  BY CallIs DEF Calls!Settle, Calls!counted, Calls!NoCall, CallTypes, ACall
<1>2. \/ faults' = faults /\ rows'.all = rows.all + 1
         /\ rows' \in [all : Nat, requested : Nat]
         /\ found' \in [People -> {"none", "failed", "success"}]
      \/ faults' = faults + 1 /\ faults < MaxFaults /\ rows' = rows /\ found' = found
  BY <1>1, CallIs DEF Calls!Settle, Calls!CreateAction, Calls!Fault, Calls!Fine, CallResults
<1>3. /\ local' \in [People -> {"none", "success", "failed", "duplicate", "skipped"}]
      /\ \A q \in People : local[q] # "none" => local'[q] # "none"
      /\ act # "like" => local'[call.target] # "none"
  BY <1>1, CallIs DEF Calls!Settle, Calls!LocalMark, Calls!LocalUpsert, CallResults
<1>4. CallTypes'
  BY <1>1, <1>2, <1>3, CallIs DEF CallTypes, Calls!TypeOK, ACall, CallSteps, CallResults
<1>5. BudgetOfCalls'
  <2>1. ASSUME act # "friend"
        PROVE  clicksToday <= CallCap + faults' /\ clicksToday <= rows'.all + faults'
    <3>1. clicksToday <= CallCap + faults /\ clicksToday <= rows.all + faults + 1
      BY <1>1, <2>1 DEF BudgetOfCalls
    <3>2. rows.all \in Nat /\ clicksToday \in Nat /\ faults \in Nat
      BY CallIs
    <3>3. CASE faults' = faults /\ rows'.all = rows.all + 1
      BY <3>1, <3>2, <3>3
    <3>4. CASE faults' = faults + 1 /\ rows' = rows
      BY <3>1, <3>2, <3>4
    <3> QED
      BY <1>2, <3>3, <3>4
  <2>2. faults' \in Nat /\ rows'.all \in Nat /\ clicksToday' \in Nat /\ call'.pc = "idle"
    BY <1>1, <1>2, CallIs
  <2>3. (IF call'.pc \in {"clicked", "settle"} THEN 1 ELSE 0) = 0 /\ act' = act
        /\ clicksToday' = clicksToday
    BY <1>1, <2>2
  <2>4. ASSUME act # "friend"
        PROVE  rows'.all + faults' + (IF call'.pc \in {"clicked", "settle"} THEN 1 ELSE 0)
                 = rows'.all + faults'
    BY <2>2, <2>3
  <2> QED
    BY <2>1, <2>2, <2>3, <2>4 DEF BudgetOfCalls
<1>6. ClicksInv'
  <2>1. ASSUME NEW q \in People
        PROVE  clicks'[q] <= faults' + (IF Under(q)' \/ local'[q] # "none" THEN 1 ELSE 0)
    <3>1. faults' \in Nat /\ faults' >= faults /\ clicks[q] \in Nat /\ faults \in Nat
      BY <1>2, <2>1, CallIs
    <3>2. CASE act = "like"
      BY <1>1, <2>1, <3>1, <3>2 DEF ClicksInv
    <3>3. CASE act # "like"
      <4>1. Under(q) \/ local[q] # "none" => local'[q] # "none"
        BY <1>3, <2>1, <3>3 DEF Under
      <4>2. clicks[q] <= faults + (IF Under(q) \/ local[q] # "none" THEN 1 ELSE 0)
        BY <2>1 DEF ClicksInv
      <4> QED
        BY <1>1, <3>1, <4>1, <4>2
    <3> QED
      BY <3>2, <3>3
  <2> QED
    BY <1>1, <2>1 DEF ClicksInv, Under
<1>7. Calls!ScoredIsForeign'
  BY <1>1 DEF Calls!ScoredIsForeign
<1> QED
  BY <1>4, <1>5, <1>6, <1>7

\* A crash or a lost table costs a fault, which pays for the click it forgets.
LEMMA CallLossKeeps == ASSUME CallsInv, Calls!Crash \/ Calls!LoseLocal PROVE CallsInv'
<1> USE CallFacts DEF CallsInv
<1>1. /\ UNCHANGED <<enabled, act, shownTo, rows, found, queue, clicksToday, clicks>>
      /\ call' = Calls!NoCall
      /\ faults < MaxFaults /\ faults' = faults + 1
      /\ local' = local \/ local' = [p \in People |-> "none"]
  BY DEF Calls!Crash, Calls!LoseLocal, Calls!store, Calls!counted, Calls!Fault
<1>2. CallTypes'
  BY <1>1, CallIs DEF CallTypes, Calls!TypeOK, ACall, CallSteps, CallResults
<1>3. BudgetOfCalls'
  <2>1. ASSUME act # "friend"
        PROVE  clicksToday <= CallCap + (faults + 1) /\ clicksToday <= rows.all + (faults + 1)
    <3>1. clicksToday <= CallCap + faults /\ clicksToday <= rows.all + faults + 1
      BY <2>1, CallIs DEF BudgetOfCalls
    <3> QED
      BY <3>1, CallIs
  <2>2. faults' \in Nat /\ rows'.all \in Nat /\ clicksToday' \in Nat /\ call'.pc = "idle"
    BY <1>1, CallIs
  <2> QED
    BY <1>1, <2>1, <2>2 DEF BudgetOfCalls
<1>4. ClicksInv'
  <2>1. ASSUME NEW q \in People
        PROVE  clicks'[q] <= faults' + (IF Under(q)' \/ local'[q] # "none" THEN 1 ELSE 0)
    <3>1. clicks[q] \in Nat /\ faults \in Nat
          /\ clicks[q] <= faults + (IF Under(q) \/ local[q] # "none" THEN 1 ELSE 0)
      BY <2>1, CallIs DEF ClicksInv
    <3>2. clicks[q] <= faults + 1
      BY <3>1
    <3> QED
      BY <1>1, <3>1, <3>2
  <2> QED
    BY <1>1, <2>1 DEF ClicksInv, Under
<1>5. Calls!ScoredIsForeign'
  BY <1>1 DEF Calls!ScoredIsForeign
<1> QED
  BY <1>2, <1>3, <1>4, <1>5

\* The collection of prospects touches their queue only.
LEMMA ProspectKeeps ==
    ASSUME CallsInv, NEW p \in People, Calls!CrawlProspect(p) \/ Calls!EnrichProspect(p)
    PROVE  CallsInv'
<1> USE CallFacts DEF CallsInv
<1>1. UNCHANGED <<enabled, act, shownTo, call, local, rows, found, clicksToday, clicks, faults>>
  BY DEF Calls!CrawlProspect, Calls!EnrichProspect, Calls!counted
<1>2. PICK o \in [status : Statuses, abroad : BOOLEAN] :
         /\ queue' = [queue EXCEPT ![p] = o]
         /\ o.status = "scored" => o.abroad
  <2>1. CASE Calls!CrawlProspect(p)
    <3>1. PICK i \in Calls!Infos :
             queue' = [queue EXCEPT ![p] = [status |-> Calls!Decision(i),
                                            abroad |-> Calls!Foreign(i)]]
      BY <2>1 DEF Calls!CrawlProspect, Calls!Outcomes
    <3>2. Calls!Foreign(i) \in BOOLEAN
      BY DEF Calls!Foreign, Calls!Infos
    <3>3. Calls!Decision(i) \in Statuses
      BY DecisionIsStatus
    <3>4. Calls!Decision(i) = "scored" => Calls!Foreign(i)
      BY ScoredSpeaksOfAbroad
    <3> DEFINE o == [status |-> Calls!Decision(i), abroad |-> Calls!Foreign(i)]
    <3>5. o \in [status : Statuses, abroad : BOOLEAN] /\ (o.status = "scored" => o.abroad)
      BY <3>2, <3>3, <3>4
    <3> QED
      BY <3>1, <3>5
  <2>2. CASE Calls!EnrichProspect(p)
    <3>1. PICK o \in Calls!EnrichOutcomes : queue' = [queue EXCEPT ![p] = o]
      BY <2>2 DEF Calls!EnrichProspect
    <3>2. o \in [status : Statuses, abroad : BOOLEAN] /\ o.status # "scored"
      BY EnrichNeverScores DEF Enriched
    <3> QED
      BY <3>1, <3>2
  <2> QED
    BY <2>1, <2>2
<1>3. queue' \in [People -> [status : Statuses, abroad : BOOLEAN]]
  BY <1>2, CallIs
<1>4. CallTypes'
  BY <1>1, <1>3 DEF CallTypes, Calls!TypeOK, ACall, CallSteps, CallResults, Statuses
<1>5. BudgetOfCalls' /\ ClicksInv'
  BY <1>1 DEF BudgetOfCalls, ClicksInv, Under
<1>6. Calls!ScoredIsForeign'
  <2> SUFFICES ASSUME NEW q \in People, queue'[q].status = "scored" PROVE queue'[q].abroad
    BY DEF Calls!ScoredIsForeign
  <2>1. CASE q = p
    BY <1>2, <2>1, CallIs
  <2>2. CASE q # p
    <3>1. queue'[q] = queue[q]
      BY <1>2, <2>2, CallIs
    <3> QED
      BY <3>1 DEF Calls!ScoredIsForeign
  <2> QED
    BY <2>1, <2>2
<1> QED
  BY <1>4, <1>5, <1>6

\* The switch, the platform and midnight.
LEMMA CallWorldKeeps ==
    ASSUME CallsInv,
           (\E p \in People : Calls!DoneElsewhere(p)) \/ Calls!FlipSwitch \/ Calls!UtcMidnight
    PROVE  CallsInv'
<1> USE CallFacts DEF CallsInv
<1>1. /\ UNCHANGED <<act, call, local, found, queue, clicks, faults>>
      /\ enabled' \in BOOLEAN /\ shownTo' \subseteq People
      /\ \/ UNCHANGED <<rows, clicksToday>>
         \/ rows' = [all |-> 0, requested |-> 0] /\ clicksToday' = 0
  BY CallIs DEF Calls!DoneElsewhere, Calls!FlipSwitch, Calls!UtcMidnight, Calls!store, Calls!counted
<1>2. CallTypes'
  BY <1>1 DEF CallTypes, Calls!TypeOK, ACall, CallSteps, CallResults
<1>3. BudgetOfCalls'
  <2>1. CASE UNCHANGED <<rows, clicksToday>>
    BY <1>1, <2>1 DEF BudgetOfCalls
  <2>2. CASE rows' = [all |-> 0, requested |-> 0] /\ clicksToday' = 0
    <3>1. act # "friend" /\ call.pc # "idle" => 0 < CallCap
      BY CallIs DEF BudgetOfCalls
    <3> QED
      BY <1>1, <2>2, <3>1, CallIs DEF BudgetOfCalls
  <2> QED
    BY <1>1, <2>1, <2>2
<1>4. ClicksInv' /\ Calls!ScoredIsForeign'
  BY <1>1 DEF ClicksInv, Under, Calls!ScoredIsForeign
<1> QED
  BY <1>2, <1>3, <1>4

\* The one-off calls keep their word.  The clicks of a day on Follow and Like stay within
\* the limit, nobody is followed or asked twice, but for a record or a table lost; and no
\* person is scored who does not speak of another country (outbound_connector.py,
\* outbound_rules.py).
THEOREM CallsAreSoundHolds == Calls!Spec => []CallsAreSound
<1>1. Calls!Init => CallsInv
  BY CallsInitInv
<1>2. CallsInv /\ [Calls!Next]_(Calls!vars) => CallsInv'
  <2> SUFFICES ASSUME CallsInv, [Calls!Next]_(Calls!vars) PROVE CallsInv'
    OBVIOUS
  <2>1. CASE \/ Calls!Unusable \/ Calls!AlreadyLiked \/ Calls!Confirmed \/ Calls!NotConfirmed
    BY <2>1, PageKeeps
  <2>2. CASE Calls!Click
    BY <2>2, ClickKeeps
  <2>3. CASE Calls!Settle
    BY <2>3, SettleKeeps
  <2>4. CASE Calls!TurnAway
    <3>1. call.target \in People
      BY <2>4 DEF Calls!TurnAway, CallsInv, CallTypes
    <3> QED
      BY <2>4, <3>1, TableKeeps
  <2>5. CASE \E p \in People : \/ Calls!FollowOnce(p) \/ Calls!LikeOnce(p)
                               \/ Calls!FriendInGroup(p)
    BY <2>5, BeginKeeps
  <2>6. CASE \E p \in People : Calls!Relearn(p)
    BY <2>6, TableKeeps
  <2>7. CASE \E p \in People : Calls!CrawlProspect(p) \/ Calls!EnrichProspect(p)
    BY <2>7, ProspectKeeps
  <2>8. CASE (\E p \in People : Calls!DoneElsewhere(p)) \/ Calls!FlipSwitch \/ Calls!UtcMidnight
    BY <2>8, CallWorldKeeps
  <2>9. CASE Calls!Crash \/ Calls!LoseLocal
    BY <2>9, CallLossKeeps
  <2>10. CASE UNCHANGED Calls!vars
    <3>1. UNCHANGED <<enabled, act, shownTo, call, local, rows, found, queue, clicksToday,
                      clicks, faults>>
      BY <2>10 DEF Calls!vars, Calls!store, Calls!counted
    <3> QED
      BY <3>1 DEF CallsInv, CallTypes, Calls!TypeOK, BudgetOfCalls, ClicksInv, Under,
                  Calls!ScoredIsForeign
  <2> QED
    BY <2>1, <2>2, <2>3, <2>4, <2>5, <2>6, <2>7, <2>8, <2>9, <2>10 DEF Calls!Next
<1>3. CallsInv => CallsAreSound
  <2> SUFFICES ASSUME CallsInv PROVE Calls!CallBudget /\ Calls!ClickedOnce
    BY DEF CallsInv, CallTypes, CallsAreSound
  <2>1. Calls!CallBudget
    BY DEF CallsInv, BudgetOfCalls, Calls!CallBudget
  <2>2. Calls!ClickedOnce
    BY CallIs DEF CallsInv, ClicksInv, Calls!ClickedOnce
  <2> QED
    BY <2>1, <2>2
<1> QED
  BY <1>1, <1>2, <1>3, PTL DEF Calls!Spec

-----------------------------------------------------------------------------
(* The friend requests of the job.  A request is confirmed in two steps:    *)
(* the count is read before the click and written after it, and in between  *)
(* midnight, another launcher or a lost file may come.  The invariant       *)
(* therefore says of a click that is under way that there is still room     *)
(* for it.                                                                  *)

\* What the accesses that failed may have cost: a day's count each.
LostCount(f) == FriendCap * f

\* The count of the file falls behind by what was lost only.
CountInv == sentToday <= CountOf(file) + LostCount(faults)

\* There is room for what was sent, and for the click that is under way.
RoomInv ==
    /\ sentToday <= LostCount(faults) + FriendCap
    /\ visit.pc = "clicked" => sentToday + 1 <= LostCount(faults) + FriendCap

BudgetInv == TypeOK /\ CountInv /\ RoomInv

LEMMA LostGrows ==
    ASSUME NEW f \in Nat
    PROVE  /\ LostCount(f) \in Nat
           /\ LostCount(f + 1) = LostCount(f) + FriendCap
           /\ FriendCap * (1 + f) = LostCount(f) + FriendCap
BY ConstantsAssumption DEF LostCount

\* The parts of a visit, one by one.
Visit == [pc : {"idle", "groups", "scan", "clicked"}, todo : SUBSET Groups, before : Nat,
          goal : Nat, ok : Nat, seen : SUBSET People, target : People \cup {NoPerson}]

LEMMA IdleIsVisit == Idle \in Visit
BY SMT DEF Idle, Visit

LEMMA InitBudget == Init => BudgetInv
<1> SUFFICES ASSUME Init PROVE BudgetInv
  OBVIOUS
<1>1. TypeOK
  <2>1. visit \in Visit /\ visit.pc # "clicked"
    BY IdleIsVisit DEF Init, Idle
  <2>2. file \in [fresh : BOOLEAN, count : Nat, blocked : BOOLEAN]
    BY DEF Init, EmptyRow
  <2>3. faults \in 0 .. MaxFaults /\ sentToday \in Nat /\ sentByRun \in Nat
    BY ConstantsAssumption DEF Init
  <2>4. enabled \in BOOLEAN /\ asked \subseteq People /\ stopped \in BOOLEAN
    BY DEF Init
  <2> QED
    BY <2>1, <2>2, <2>3, <2>4 DEF TypeOK, Visit
<1>2. LostCount(0) \in Nat
  BY LostGrows
<1>3. CountInv
  BY <1>2, ConstantsAssumption DEF Init, CountInv, EmptyRow, CountOf
<1>4. RoomInv
  BY <1>2, ConstantsAssumption DEF Init, RoomInv, Idle
<1> QED
  BY <1>1, <1>3, <1>4 DEF BudgetInv

-----------------------------------------------------------------------------
(* Types. *)

LEMMA UpdateIsFile ==
    ASSUME TypeOK, NEW changed, NEW anew, Update(changed, anew),
           changed \in [fresh : BOOLEAN, count : Nat, blocked : BOOLEAN],
           anew \in [fresh : BOOLEAN, count : Nat, blocked : BOOLEAN]
    PROVE  file' \in [fresh : BOOLEAN, count : Nat, blocked : BOOLEAN]
<1>1. EmptyRow \in [fresh : BOOLEAN, count : Nat, blocked : BOOLEAN]
  BY DEF EmptyRow
<1> QED
  BY <1>1 DEF Update, TypeOK

LEMMA RowsAreFiles ==
    ASSUME NEW aRow \in [fresh : BOOLEAN, count : Nat, blocked : BOOLEAN]
    PROVE  /\ CountOf(aRow) \in Nat
           /\ EmptyRow \in [fresh : BOOLEAN, count : Nat, blocked : BOOLEAN]
           /\ Increment(aRow) \in [fresh : BOOLEAN, count : Nat, blocked : BOOLEAN]
           /\ MarkBlocked(aRow) \in [fresh : BOOLEAN, count : Nat, blocked : BOOLEAN]
BY DEF CountOf, EmptyRow, Increment, MarkBlocked

LEMMA FaultsInRange ==
    ASSUME TypeOK, Fault \/ Fine
    PROVE  faults' \in 0 .. MaxFaults /\ faults' \in {faults, faults + 1}
BY ConstantsAssumption DEF TypeOK, Fault, Fine

LEMMA TypeStep == TypeOK /\ [Next]_vars => TypeOK'
<1> SUFFICES ASSUME TypeOK, [Next]_vars PROVE TypeOK'
  OBVIOUS
<1>1. CASE StartRun
  <2>1. PICK aRow \in {file, EmptyRow} :
            Load(aRow) /\ visit' = [Idle EXCEPT !.pc = "groups", !.todo = Groups, !.before = CountOf(aRow)]
    BY <1>1 DEF StartRun
  <2>2. CountOf(aRow) \in Nat
    BY RowsAreFiles DEF TypeOK
  <2>3. visit' \in Visit /\ visit'.pc = "groups"
    <3>1. visit' = [pc |-> "groups", todo |-> Groups, before |-> CountOf(aRow), goal |-> 0,
                    ok |-> 0, seen |-> {}, target |-> NoPerson]
      BY <2>1 DEF Idle
    <3> QED
      BY <2>2, <3>1 DEF Visit
  <2>4. faults' \in 0 .. MaxFaults
    BY <2>1, FaultsInRange DEF Load
  <2> QED
    BY <1>1, <2>3, <2>4 DEF StartRun, KeepStop, TypeOK, Visit
<1>2. CASE EndRun
  <2>1. faults' \in 0 .. MaxFaults
    BY <1>2, FaultsInRange DEF EndRun, Load
  <2>2. visit' \in Visit /\ visit'.pc = "idle"
    BY <1>2, IdleIsVisit DEF EndRun, Idle
  <2> QED
    BY <1>2, <2>1, <2>2 DEF EndRun, KeepStop, TypeOK, Visit
<1>3. CASE Confirmed
  <2>1. faults' \in 0 .. MaxFaults
    BY <1>3, FaultsInRange DEF Confirmed, Update
  <2>2. file' \in [fresh : BOOLEAN, count : Nat, blocked : BOOLEAN]
    BY <1>3, UpdateIsFile, RowsAreFiles DEF Confirmed, TypeOK
  <2>3. visit' \in Visit /\ visit'.pc = "scan"
    <3>1. visit' = [visit EXCEPT !.pc = "scan", !.ok = @ + 1, !.target = NoPerson]
      BY <1>3 DEF Confirmed
    <3>2. visit \in Visit /\ visit.ok + 1 \in Nat
      BY DEF TypeOK, Visit
    <3> QED
      BY <3>1, <3>2 DEF Visit
  <2> QED
    BY <1>3, <2>1, <2>2, <2>3 DEF Confirmed, KeepStop, TypeOK, Visit
<1>4. CASE NotConfirmed
  <2>1. visit' \in Visit /\ visit'.pc = "scan"
    BY <1>4 DEF NotConfirmed, TypeOK, Visit
  <2> QED
    BY <1>4, <2>1 DEF NotConfirmed, history, TypeOK, Visit
<1>5. CASE LeaveGroup
  <2>1. visit' \in Visit /\ visit'.pc = "groups"
    BY <1>5 DEF LeaveGroup, TypeOK, Visit
  <2> QED
    BY <1>5, <2>1 DEF LeaveGroup, history, TypeOK, Visit
<1>6. CASE Checkpoint
  <2>1. faults' \in 0 .. MaxFaults
    BY <1>6, FaultsInRange DEF Checkpoint, Update
  <2>2. file' \in [fresh : BOOLEAN, count : Nat, blocked : BOOLEAN]
    BY <1>6, UpdateIsFile, RowsAreFiles DEF Checkpoint, TypeOK
  <2>3. visit' \in Visit /\ visit'.pc = "idle"
    BY <1>6, IdleIsVisit DEF Checkpoint, Idle
  <2> QED
    BY <1>6, <2>1, <2>2, <2>3 DEF Checkpoint, TypeOK, Visit
<1>7. ASSUME NEW g \in Groups, EnterGroup(g) PROVE TypeOK'
  <2>1. PICK aRow \in {file, EmptyRow} :
            /\ Load(aRow) /\ Remaining(CountOf(aRow)) > 0
            /\ \/ visit' = [visit EXCEPT !.pc = "scan", !.todo = @ \ {g}, !.ok = 0, !.seen = {},
                                     !.goal = Remaining(CountOf(aRow))]
               \/ visit' = [visit EXCEPT !.todo = @ \ {g}]
    BY <1>7 DEF EnterGroup
  <2>2. CountOf(aRow) \in Nat
    BY RowsAreFiles DEF TypeOK
  <2>3. Remaining(CountOf(aRow)) \in Nat
    BY <2>1, <2>2, ConstantsAssumption DEF Remaining, TypeOK
  <2>4. visit' \in Visit /\ visit'.pc # "clicked"
    <3>1. visit \in Visit /\ visit.pc = "groups"
      BY <1>7 DEF EnterGroup, TypeOK, Visit
    <3>2. CASE visit' = [visit EXCEPT !.pc = "scan", !.todo = @ \ {g}, !.ok = 0, !.seen = {},
                                  !.goal = Remaining(CountOf(aRow))]
      BY <2>3, <3>1, <3>2 DEF Visit
    <3>3. CASE visit' = [visit EXCEPT !.todo = @ \ {g}]
      BY <3>1, <3>3 DEF Visit
    <3> QED
      BY <2>1, <3>2, <3>3
  <2>5. faults' \in 0 .. MaxFaults
    BY <2>1, FaultsInRange DEF Load
  <2> QED
    BY <1>7, <2>4, <2>5 DEF EnterGroup, KeepStop, TypeOK, Visit
<1>8. ASSUME NEW p \in People, PassOver(p) PROVE TypeOK'
  <2>1. visit' \in Visit /\ visit'.pc = "scan"
    BY <1>8 DEF PassOver, TypeOK, Visit
  <2> QED
    BY <1>8, <2>1 DEF PassOver, history, TypeOK, Visit
<1>9. ASSUME NEW p \in People, AskMember(p) PROVE TypeOK'
  <2>1. visit' \in Visit /\ visit'.target \in People
    BY <1>9 DEF AskMember, TypeOK, Visit
  <2>2. faults' \in 0 .. MaxFaults
    BY <1>9, FaultsInRange DEF AskMember, Load
  <2> QED
    BY <1>9, <2>1, <2>2 DEF AskMember, KeepStop, TypeOK, Visit
<1>10. ASSUME NEW p \in People, AskedElsewhere(p) PROVE TypeOK'
  BY <1>10 DEF AskedElsewhere, history, TypeOK
<1>11. CASE FlipSwitch
  BY <1>11 DEF FlipSwitch, history, TypeOK
<1>12. CASE Midnight
  BY <1>12 DEF Midnight, TypeOK
<1>13. CASE Crash
  <2>1. faults' \in 0 .. MaxFaults
    BY <1>13, FaultsInRange DEF Crash
  <2>2. visit' \in Visit /\ visit'.pc = "idle"
    BY <1>13, IdleIsVisit DEF Crash, Idle
  <2> QED
    BY <1>13, <2>1, <2>2 DEF Crash, history, TypeOK, Visit
<1>14. CASE UNCHANGED vars
  BY <1>14 DEF vars, history, TypeOK
<1> QED
  BY <1>1, <1>2, <1>3, <1>4, <1>5, <1>6, <1>7, <1>8, <1>9, <1>10, <1>11, <1>12, <1>13, <1>14
  DEF Next

\* The types are right in every state.
THEOREM TypeCorrect == Spec => []TypeOK
<1>1. Init => TypeOK
  BY InitBudget DEF BudgetInv
<1> QED
  BY <1>1, TypeStep, PTL DEF Spec

-----------------------------------------------------------------------------
(* The budget of the day. *)

LEMMA LostLater ==
    ASSUME TypeOK, Fault \/ Fine
    PROVE  /\ LostCount(faults) \in Nat /\ LostCount(faults') \in Nat
           /\ Fine => LostCount(faults') = LostCount(faults)
           /\ Fault => LostCount(faults') = LostCount(faults) + FriendCap
           /\ LostCount(faults) <= LostCount(faults')
<1>1. faults \in Nat
  BY DEF TypeOK
<1>2. /\ LostCount(faults) \in Nat
      /\ LostCount(faults + 1) = LostCount(faults) + FriendCap
  BY <1>1, LostGrows
<1>3. CASE Fine
  BY <1>1, <1>2, <1>3, ConstantsAssumption DEF Fine, Fault
<1>4. CASE Fault
  <2>1. faults' = faults + 1
    BY <1>4 DEF Fault
  <2>2. LostCount(faults') = LostCount(faults) + FriendCap
    BY <1>2, <2>1
  <2>3. ~Fine
    BY <1>1, <2>1 DEF Fine
  <2> QED
    BY <1>2, <2>2, <2>3, ConstantsAssumption
<1> QED
  BY <1>3, <1>4

\* A step that counts nothing and clicks nothing keeps the budget, also one that finds
\* the file unreadable.
LEMMA QuietStep ==
    ASSUME BudgetInv, Fault \/ Fine, UNCHANGED <<file, sentToday>>,
           visit'.pc = "clicked" => visit.pc = "clicked"
    PROVE  CountInv' /\ RoomInv'
<1>1. sentToday \in Nat /\ CountOf(file) \in Nat
  BY RowsAreFiles DEF BudgetInv, TypeOK
<1>2. /\ LostCount(faults) \in Nat /\ LostCount(faults') \in Nat
      /\ LostCount(faults) <= LostCount(faults')
  BY LostLater DEF BudgetInv
<1> QED
  BY <1>1, <1>2, ConstantsAssumption DEF BudgetInv, CountInv, RoomInv, CountOf

LEMMA BudgetStep == BudgetInv /\ [Next]_vars => CountInv' /\ RoomInv'
<1> SUFFICES ASSUME BudgetInv, [Next]_vars PROVE CountInv' /\ RoomInv'
  OBVIOUS
<1>0. /\ TypeOK /\ FriendCap \in Nat
      /\ sentToday \in Nat /\ CountOf(file) \in Nat /\ LostCount(faults) \in Nat
  <2>1. TypeOK /\ faults \in Nat
    BY DEF BudgetInv, TypeOK
  <2> QED
    BY <2>1, RowsAreFiles, LostGrows, ConstantsAssumption DEF TypeOK
<1>1. CASE StartRun
  BY <1>1, QuietStep DEF StartRun, Load, Idle
<1>2. CASE EndRun
  BY <1>2, QuietStep DEF EndRun, Load, Idle
\* The click has had its room; a count that is not written costs a fault.
<1>3. CASE Confirmed
  <2>1. /\ sentToday' = sentToday + 1 /\ visit'.pc = "scan"
        /\ Update(Increment(file), Increment(EmptyRow))
    BY <1>0, <1>3 DEF Confirmed, TypeOK
  <2>2. sentToday + 1 <= LostCount(faults) + FriendCap
    BY <1>3 DEF Confirmed, BudgetInv, RoomInv
  <2>3. CASE file' = Increment(file) /\ Fine
    <3>1. CountOf(file') = CountOf(file) + 1
      BY <1>0, <2>3 DEF Increment, CountOf, TypeOK
    <3>2. LostCount(faults') = LostCount(faults)
      BY <2>3 DEF Fine
    <3>3. CountInv'
      BY <1>0, <2>1, <3>1, <3>2 DEF BudgetInv, CountInv, CountOf
    <3>4. RoomInv'
      BY <2>1, <2>2, <3>2 DEF RoomInv
    <3> QED
      BY <3>3, <3>4
  <2>4. CASE file' \in {Increment(EmptyRow), file, EmptyRow} /\ Fault
    <3>1. LostCount(faults') = LostCount(faults) + FriendCap
      BY <1>0, <2>4, LostLater
    <3>2. CountOf(file') \in Nat
      BY <1>0, <2>4, RowsAreFiles DEF TypeOK, EmptyRow
    <3>3. CountInv'
      BY <1>0, <2>1, <2>2, <3>1, <3>2 DEF CountInv, CountOf
    <3>4. RoomInv'
      BY <1>0, <2>1, <2>2, <3>1 DEF RoomInv
    <3> QED
      BY <3>3, <3>4
  <2> QED
    BY <2>1, <2>3, <2>4 DEF Update
<1>4. CASE NotConfirmed
  BY <1>0, <1>4, QuietStep DEF NotConfirmed, history, Fine, TypeOK
<1>5. CASE LeaveGroup
  BY <1>0, <1>5, QuietStep DEF LeaveGroup, history, Fine, TypeOK
\* The block is written over the count, or the file is lost.
<1>6. CASE Checkpoint
  <2>1. /\ sentToday' = sentToday /\ visit'.pc = "idle"
        /\ Update(MarkBlocked(file), MarkBlocked(EmptyRow))
    BY <1>6 DEF Checkpoint, Idle
  <2>2. sentToday <= LostCount(faults) + FriendCap
    BY DEF BudgetInv, RoomInv
  <2>3. CASE file' = MarkBlocked(file) /\ Fine
    <3>1. CountOf(file') = CountOf(file) /\ LostCount(faults') = LostCount(faults)
      BY <2>3 DEF MarkBlocked, CountOf, Fine
    <3> QED
      BY <2>1, <2>2, <3>1 DEF BudgetInv, CountInv, RoomInv, CountOf
  <2>4. CASE file' \in {MarkBlocked(EmptyRow), file, EmptyRow} /\ Fault
    <3>1. LostCount(faults') = LostCount(faults) + FriendCap
      BY <1>0, <2>4, LostLater
    <3>2. CountOf(file') \in Nat
      BY <1>0, <2>4, RowsAreFiles DEF TypeOK, EmptyRow
    <3> QED
      BY <1>0, <2>1, <2>2, <3>1, <3>2 DEF CountInv, RoomInv, CountOf
  <2> QED
    BY <2>1, <2>3, <2>4 DEF Update
<1>7. ASSUME NEW g \in Groups, EnterGroup(g) PROVE CountInv' /\ RoomInv'
  <2>1. visit'.pc # "clicked"
    BY <1>0, <1>7 DEF EnterGroup, TypeOK
  <2> QED
    BY <1>7, <2>1, QuietStep DEF EnterGroup, Load
<1>8. ASSUME NEW p \in People, PassOver(p) PROVE CountInv' /\ RoomInv'
  BY <1>0, <1>8, QuietStep DEF PassOver, history, Fine, TypeOK
\* The gate is read right before the click: there is room by the file, or by the fault
\* that hid it.
<1>9. ASSUME NEW p \in People, AskMember(p) PROVE CountInv' /\ RoomInv'
  <2>1. PICK aRow \in {file, EmptyRow} : Load(aRow) /\ GoesOn(aRow)
    BY <1>9 DEF AskMember
  <2>2. UNCHANGED <<file, sentToday>>
    BY <1>9 DEF AskMember
  <2>3. sentToday <= CountOf(file) + LostCount(faults) /\ sentToday <= LostCount(faults) + FriendCap
    BY DEF BudgetInv, CountInv, RoomInv
  <2>4. CASE aRow = file /\ Fine
    <3>1. CountOf(file) < FriendCap /\ LostCount(faults') = LostCount(faults)
      BY <2>1, <2>4 DEF GoesOn, Fine
    <3> QED
      BY <1>0, <2>2, <2>3, <3>1 DEF CountInv, RoomInv, CountOf
  <2>5. CASE aRow = EmptyRow /\ Fault
    <3>1. 0 < FriendCap
      BY <2>1, <2>5 DEF GoesOn, CountOf, EmptyRow
    <3>2. LostCount(faults') = LostCount(faults) + FriendCap
      BY <1>0, <2>5, LostLater
    <3> QED
      BY <1>0, <2>2, <2>3, <3>1, <3>2 DEF CountInv, RoomInv, CountOf
  <2> QED
    BY <2>1, <2>4, <2>5 DEF Load
<1>10. ASSUME NEW p \in People, AskedElsewhere(p) PROVE CountInv' /\ RoomInv'
  BY <1>10, QuietStep DEF AskedElsewhere, history, Fine
<1>11. CASE FlipSwitch
  BY <1>11, QuietStep DEF FlipSwitch, history, Fine
\* A click over midnight counts for the new day, which has room for one.
<1>12. CASE Midnight
  <2>1. sentToday' = 0 /\ CountOf(file') = 0 /\ faults' = faults /\ visit' = visit
    BY <1>0, <1>12 DEF Midnight, CountOf, TypeOK
  <2>2. visit.pc = "clicked" => 1 <= LostCount(faults) + FriendCap
    BY <1>0 DEF BudgetInv, RoomInv
  <2>3. LostCount(faults') = LostCount(faults)
    BY <2>1
  <2> QED
    BY <1>0, <2>1, <2>2, <2>3 DEF CountInv, RoomInv, CountOf
<1>13. CASE Crash
  BY <1>13, QuietStep DEF Crash, history, Idle
<1>14. CASE UNCHANGED vars
  BY <1>14, QuietStep DEF vars, history, Fine
<1> QED
  BY <1>1, <1>2, <1>3, <1>4, <1>5, <1>6, <1>7, <1>8, <1>9, <1>10, <1>11, <1>12, <1>13, <1>14
  DEF Next

\* The job's requests of a day stay within the account's limit; an access to the day
\* file that fails, or a crash, costs at most a day's count.
THEOREM FriendsAreSoundHolds == Spec => []FriendsAreSound
<1>1. BudgetInv /\ [Next]_vars => BudgetInv'
  BY TypeStep, BudgetStep DEF BudgetInv
<1>2. BudgetInv => FriendsAreSound
  <2> SUFFICES ASSUME BudgetInv PROVE FriendsAreSound
    OBVIOUS
  <2>1. faults \in Nat
    BY DEF BudgetInv, TypeOK
  <2> QED
    BY <2>1, LostGrows DEF BudgetInv, RoomInv, FriendsAreSound, FriendBudget
<1> QED
  BY <1>1, <1>2, InitBudget, PTL DEF Spec

-----------------------------------------------------------------------------
(* The stop after a challenge. *)

\* Nothing is running on a day that was stopped, and the file keeps it from starting.
StopInv == stopped => visit.pc = "idle" /\ BlockedBy(file)

LEMMA StopStep == TypeOK /\ StopInv /\ [Next]_vars => StopInv'
<1> SUFFICES ASSUME TypeOK, StopInv, [Next]_vars, stopped'
             PROVE  visit'.pc = "idle" /\ BlockedBy(file')
  BY DEF StopInv, BlockedBy
<1>0. Fault => faults' # faults
  BY DEF Fault, TypeOK
<1>1. CASE Checkpoint
  <2>1. file' = MarkBlocked(file)
    BY <1>0, <1>1 DEF Checkpoint, Update
  <2> QED
    BY <1>1, <2>1 DEF Checkpoint, Idle, MarkBlocked, BlockedBy
<1>2. CASE StartRun
  <2>1. stopped /\ faults' = faults
    BY <1>2 DEF StartRun, KeepStop
  <2> QED
    BY <1>0, <1>2, <2>1 DEF StartRun, Load, StopInv
<1>3. CASE stopped /\ visit' = visit /\ file' = file
  BY <1>3 DEF StopInv
<1>4. CASE Crash
  BY <1>4 DEF Crash, history, Idle, StopInv
<1>5. CASE EndRun \/ Confirmed \/ NotConfirmed \/ LeaveGroup
  BY <1>5 DEF EndRun, Confirmed, NotConfirmed, LeaveGroup, KeepStop, history, StopInv
<1>6. ASSUME NEW g \in Groups, EnterGroup(g) PROVE visit'.pc = "idle" /\ BlockedBy(file')
  BY <1>6 DEF EnterGroup, KeepStop, StopInv
<1>7. ASSUME NEW p \in People, PassOver(p) \/ AskMember(p)
      PROVE  visit'.pc = "idle" /\ BlockedBy(file')
  BY <1>7 DEF PassOver, AskMember, KeepStop, history, StopInv
<1>8. CASE Midnight
  BY <1>8 DEF Midnight
<1>9. ASSUME NEW p \in People, AskedElsewhere(p) PROVE stopped /\ visit' = visit /\ file' = file
  BY <1>9 DEF AskedElsewhere, history
<1>10. FlipSwitch \/ UNCHANGED vars => stopped /\ visit' = visit /\ file' = file
  BY DEF FlipSwitch, vars, history
<1> QED
  BY <1>1, <1>2, <1>3, <1>4, <1>5, <1>6, <1>7, <1>8, <1>9, <1>10 DEF Next

\* After a challenge was noted nothing is clicked until midnight, in this run or a later
\* one, as long as no access to the day file fails; the docstring of the job promises a
\* retry in the next slot instead (main.py:2674-2675).
THEOREM ChallengeStops == Spec => CheckpointStopsTheDay
<1>1. Init => StopInv
  <2> SUFFICES ASSUME Init, stopped PROVE FALSE
    BY DEF StopInv
  <2> QED
    BY DEF Init
<1>2. TypeOK /\ StopInv /\ [Next]_vars =>
          [(visit.pc = "scan" /\ visit'.pc = "clicked") => ~stopped']_vars
  <2> SUFFICES ASSUME TypeOK, StopInv, [Next]_vars, visit'.pc = "clicked", stopped' PROVE FALSE
    OBVIOUS
  <2>1. StopInv'
    BY StopStep
  <2> QED
    BY <2>1 DEF StopInv
<1> QED
  BY <1>1, <1>2, StopStep, TypeCorrect, PTL DEF Spec, CheckpointStopsTheDay
=============================================================================
