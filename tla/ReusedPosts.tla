----------------------------- MODULE ReusedPosts -----------------------------
(***************************************************************************)
(* Published posts of one account used again for others                    *)
(* (reuse_replenisher): a run, alone under a lock of the operating system, *)
(* counts what waits, looks at recent failures and then, account by        *)
(* account, makes posts of assets that the account never had.  The poller  *)
(* publishes meanwhile.                                                    *)
(***************************************************************************)
EXTENDS Integers, FiniteSets

CONSTANTS
    Targets,      \* number of allowed accounts, in the order of the setting
    Assets,       \* number of posted assets with a hash, in the order of their codes
    ReadyTarget,  \* READY_TARGET
    ReadyCap,     \* READY_GLOBAL_CAP
    Breaker,      \* FAILURE_BREAKER
    MaxLost       \* bound: lost answers, failed reads and dead processes

ASSUME ReuseAssumption ==
    /\ Targets \in Nat /\ Assets \in Nat /\ ReadyTarget \in Nat
    /\ ReadyCap \in Nat /\ Breaker \in Nat \ {0} /\ MaxLost \in Nat

VARIABLES
    row,     \* what became of the row of an account for an asset
    twice,   \* ghost: an account got an asset a second time
    other,   \* ready rows of other producers
    turn,   \* what the run is doing; it holds the lock while it runs
    lost

reuseVars == <<row, twice, other, turn, lost>>

Account == 1..Targets
Asset   == 1..Assets
Cells   == Account \X Asset
\* "failed": within the last day; "over": published, or failed before that.
States  == {"none", "ready", "failed", "over"}
NoRound == [pc |-> "idle", at |-> 0, total |-> 0, ready |-> [a \in Account |-> 0],
            need |-> 0, src |-> 0, have |-> {}]

Count(k)      == Cardinality({c \in Cells : row[c] = k})
Ready(a)      == Cardinality({s \in Asset : row[<<a, s>>] = "ready"})
OwnReady      == Count("ready")
RecentFailed  == Count("failed")

Lost == lost < MaxLost /\ lost' = lost + 1
End  == turn' = NoRound

\* count_ready_posts_by_account, and the cap on what the run adds.
CountReady ==
    /\ turn.pc = "idle"
    /\ IF OwnReady + other >= ReadyCap
       THEN End
       ELSE turn' = [NoRound EXCEPT !.pc = "breaker", !.total = OwnReady + other,
                                     !.ready = [a \in Account |-> Ready(a)]]
    /\ UNCHANGED <<row, twice, other, lost>>

\* count_recent_failed_posts_by_run_prefix
MayAdd == RecentFailed < Breaker

Check ==
    /\ turn.pc = "breaker"
    /\ IF MayAdd THEN turn' = [turn EXCEPT !.pc = "account", !.at = 1] ELSE End
    /\ UNCHANGED <<row, twice, other, lost>>

Min2(m, n) == IF m < n THEN m ELSE n

Need(a) == Min2(ReadyTarget - turn.ready[a], ReadyCap - turn.total)

\* Mutant: only the rows that wait are looked at.
Have_Ready(a) == {s \in Asset : row[<<a, s>>] = "ready"}

\* fetch_image_hashes_for_account
Have(a) == {s \in Asset : row[<<a, s>>] # "none"}

NextAccount == [turn EXCEPT !.pc = "account", !.at = @ + 1]

\* An account that needs none, cannot be read or has its automation off is passed over.
Enter ==
    /\ turn.pc = "account"
    /\ IF turn.at \notin Account THEN End
       ELSE \/ turn' = NextAccount
            \/ /\ Need(turn.at) > 0
               /\ turn' = [turn EXCEPT !.pc = "asset", !.need = Need(turn.at), !.src = 1,
                                         !.have = Have(turn.at)]
    /\ UNCHANGED <<row, twice, other, lost>>

Save(c) == /\ row' = [row EXCEPT ![c] = "ready"]
           /\ twice' = (twice \/ row[c] # "none")

\* The next asset: had already, without a picture that lives, or saved.
Try ==
    /\ turn.pc = "asset"
    /\ LET c == <<turn.at, turn.src>> IN
       \/ /\ turn.need = 0 \/ turn.src \notin Asset
          /\ turn' = NextAccount
          /\ UNCHANGED <<row, twice, lost>>
       \/ /\ turn.need > 0 /\ turn.src \in Asset
          /\ turn' = [turn EXCEPT !.src = @ + 1]
          /\ UNCHANGED <<row, twice, lost>>
       \/ /\ turn.need > 0 /\ turn.src \in Asset \ turn.have
          /\ \/ /\ Save(c)
                /\ turn' = [turn EXCEPT !.src = @ + 1, !.need = @ - 1, !.total = @ + 1]
                /\ UNCHANGED lost
             \/ /\ Lost /\ End              \* no answer: the row may be there
                /\ Save(c) \/ UNCHANGED <<row, twice>>
    /\ UNCHANGED other

\* A read of Airtable or of Graph that fails, or the end of the process: the
\* system frees the lock.
Break ==
    /\ turn.pc # "idle"
    /\ Lost /\ End
    /\ UNCHANGED <<row, twice, other>>

Move(c, from, to) ==
    /\ row[c] = from
    /\ row' = [row EXCEPT ![c] = to]
    /\ UNCHANGED <<twice, other, turn, lost>>

Poll(c) == Move(c, "ready", "over") \/ Move(c, "ready", "failed")
Age(c)  == Move(c, "failed", "over")

Others == other' \in 0..1 /\ other' # other /\ UNCHANGED <<row, twice, turn, lost>>

ReuseInit ==
    /\ row = [c \in Cells |-> "none"] /\ twice = FALSE
    /\ other = 0 /\ turn = NoRound /\ lost = 0

ReuseNext ==
    \/ CountReady \/ Check \/ Enter \/ Try \/ Break \/ Others
    \/ \E c \in Cells : Poll(c) \/ Age(c)

ReuseSpec == ReuseInit /\ [][ReuseNext]_reuseVars

-----------------------------------------------------------------------------

ReuseTypeOK ==
    /\ row \in [Cells -> States] /\ twice \in BOOLEAN
    /\ other \in 0..1 /\ lost \in 0..MaxLost
    /\ turn.pc \in {"idle", "breaker", "account", "asset"}
    /\ turn.at \in 0..(Targets + 1) /\ turn.have \subseteq Asset

\* An account gets an asset once in its life, whatever answer was lost and
\* however its row ended.
AssetOnce == ~twice

\* What the job has waiting stays within its targets though it counts once
\* and saves later.
OwnBacklog == OwnReady <= ReadyCap /\ \A a \in Account : Ready(a) <= ReadyTarget

\* A broken host costs at most the rows that were waiting or being made when
\* the failures were last counted.
FailuresAreBounded == RecentFailed <= Breaker - 1 + Min2(Targets * ReadyTarget, ReadyCap)

\* What the reuse of posts promises, however its rounds are cut short.
ReuseIsSound == ReuseTypeOK /\ AssetOnce /\ OwnBacklog /\ FailuresAreBounded
=============================================================================
