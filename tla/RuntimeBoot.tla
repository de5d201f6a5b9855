------------------------------ MODULE RuntimeBoot ------------------------------
(***************************************************************************)
(* How a launcher comes up: the watchdog that starts one when it has no    *)
(* child, the boot policy that every launcher reads and, where it is safe  *)
(* and armed, activates under a lock file, the import of the webhook       *)
(* module that reads the policy for itself, and the note of the commit a   *)
(* launcher was started from, by which the dashboard calls the running     *)
(* code fresh.  A person writes the policy, commits, and starts launchers  *)
(* by hand.                                                                *)
(***************************************************************************)
EXTENDS Integers, FiniteSets

CONSTANTS
    Launchers,    \* processes of launcher/main.py
    NoLauncher,   \* no launcher
    MaxWrites,    \* bound: policies written
    MaxCommits,   \* bound: commits
    MaxDogs,      \* bound: watchdogs, one after the other
    MaxByHand     \* bound: launchers started by hand

ASSUME BootAssumption ==
    /\ Launchers # {} /\ NoLauncher \notin Launchers
    /\ Launchers \cap {"free", "left"} = {}
    /\ {MaxWrites, MaxCommits, MaxByHand} \subseteq Nat /\ MaxDogs \in Nat \ {0}

VARIABLES
    policy,    \* runtime_boot_policy.json
    lock,      \* the holder of its .lock, or a file left by a dead one
    head,      \* the commit of HEAD
    noted,     \* launcher_boot_state.json
    run,       \* the launchers
    dog,       \* the watchdog that runs, 0 for none
    dogs,      \* watchdogs there have been
    strays,    \* ghost: launchers that run and that no watchdog knows of
    raced,     \* ghost: launchers with a commit between their code and their note
    rewritten, \* ghost: launchers with a policy written after they took the lock
    activated, \* ghost: how often each policy was made active
    writes, byHand

bootVars == <<policy, lock, head, noted, run, dog, dogs, strays, raced, rewritten, activated,
              writes, byHand>>

NoPolicy == [mode |-> "none", state |-> "none", id |-> 0]
NoRun    == [at |-> "none", parent |-> 0, code |-> 0, read |-> NoPolicy,
             mode |-> "none", dm |-> "none"]
Steps    == {"none", "loaded", "recorded", "holds", "replaced", "chosen", "working"}

Alive == {l \in Launchers : run[l].at # "none"}

\* load_runtime_boot_policy; an expired one is not valid.
Valid(p) == p.mode = "production" \/ (p.mode = "safe" /\ p.state # "expired")

Mode(p) == IF p.mode = "safe" THEN "safe" ELSE "production"

Go(l, at) == run' = [run EXCEPT ![l].at = at]

Exits(l) ==
    /\ run' = [run EXCEPT ![l] = NoRun]
    /\ strays' = strays \ {l} /\ raced' = raced \ {l} /\ rewritten' = rewritten \ {l}

ghosts == <<strays, raced, rewritten>>

-----------------------------------------------------------------------------
(* The watchdog and the start of a launcher.                               *)

\* Test-Launcher: children of this watchdog only.
HasChild == \E l \in Alive : run[l].parent = dog

Loads(l, parent) ==
    /\ run[l].at = "none"
    /\ run' = [run EXCEPT ![l] = [NoRun EXCEPT !.at = "loaded", !.parent = parent, !.code = head]]

\* Start-Launcher, behind Test-RuntimeBootPolicy.
DogStarts(l) ==
    /\ dog > 0 /\ ~HasChild /\ Valid(policy) /\ Loads(l, dog)
    /\ UNCHANGED <<policy, lock, head, noted, dog, dogs, ghosts, activated, writes, byHand>>

StartsByHand(l) ==
    /\ byHand < MaxByHand /\ byHand' = byHand + 1 /\ Loads(l, 0)
    /\ strays' = strays \cup {l}
    /\ UNCHANGED <<policy, lock, head, noted, dog, dogs, raced, rewritten, activated, writes>>

\* The children of a watchdog outlive it.
DogChanges ==
    /\ \/ dog > 0 /\ dog' = 0 /\ UNCHANGED dogs
          /\ strays' = strays \cup {l \in Alive : run[l].parent = dog}
       \/ dog = 0 /\ dogs < MaxDogs /\ dog' = dogs + 1 /\ dogs' = dogs + 1
          /\ UNCHANGED strays
    /\ UNCHANGED <<policy, lock, head, noted, run, raced, rewritten, activated, writes, byHand>>

-----------------------------------------------------------------------------
(* The launcher.                                                           *)

\* record_boot_commit, which may fail and stops nothing.
Records(l) ==
    /\ run[l].at = "loaded" /\ Go(l, "recorded")
    /\ noted' \in {noted, [commit |-> head, by |-> l]}
    /\ UNCHANGED <<policy, lock, head, dog, dogs, ghosts, activated, writes, byHand>>

\* Mutant: the lock file is opened, whoever made it.
LockIsFree_Ignored == TRUE

LockIsFree == lock = "free"

\* _atomic_activate_safe_policy up to the first reading: a lock that is there, or a
\* policy that is not valid, ends the launcher.
Locks(l) ==
    /\ run[l].at = "recorded"
    /\ IF ~LockIsFree
       THEN Exits(l) /\ UNCHANGED lock
       ELSE /\ lock' = l
            /\ run' = [run EXCEPT ![l].at = "holds", ![l].read = policy]
            /\ UNCHANGED ghosts
    /\ UNCHANGED <<policy, head, noted, dog, dogs, activated, writes, byHand>>

Chooses(l, p) ==
    /\ IF Valid(p) THEN /\ run' = [run EXCEPT ![l].at = "chosen", ![l].mode = Mode(p)]
                        /\ UNCHANGED ghosts
       ELSE Exits(l)
    /\ lock' = "free"

Keeps(l) ==
    /\ run[l].at = "holds" /\ (run[l].read.state # "armed" \/ ~Valid(run[l].read))
    /\ Chooses(l, run[l].read)
    /\ UNCHANGED <<policy, head, noted, dog, dogs, activated, writes, byHand>>

\* The policy as it was read goes over whatever is there by now, or cannot be written.
Replaces(l) ==
    LET p == run[l].read IN
    /\ run[l].at = "holds" /\ p.state = "armed"
    /\ \/ /\ policy' = [p EXCEPT !.state = "active"]
          /\ activated' = [activated EXCEPT ![p.id] = @ + 1]
          /\ Go(l, "replaced") /\ UNCHANGED <<lock, ghosts>>
       \/ Exits(l) /\ lock' = "free" /\ UNCHANGED <<policy, activated>>
    /\ UNCHANGED <<head, noted, dog, dogs, writes, byHand>>

\* The policy is read once more, and the lock file goes.
Unlocks(l) ==
    /\ run[l].at = "replaced" /\ Chooses(l, policy)
    /\ UNCHANGED <<policy, head, noted, dog, dogs, activated, writes, byHand>>

\* _start_background_services and the import of dm_receiver, which reads the policy
\* again and falls back on the environment where there is no file.
Imports(l) ==
    /\ run[l].at = "chosen"
    /\ IF policy.mode # "none" /\ ~Valid(policy)
       THEN Exits(l)
       ELSE /\ run' = [run EXCEPT ![l].at = "working", ![l].dm = Mode(policy)]
            /\ UNCHANGED ghosts
    /\ UNCHANGED <<policy, lock, head, noted, dog, dogs, activated, writes, byHand>>

\* A launcher ends or is killed; a lock it held stays.
Dies(l) ==
    /\ l \in Alive /\ Exits(l)
    /\ lock' = IF lock = l THEN "left" ELSE lock
    /\ UNCHANGED <<policy, head, noted, dog, dogs, activated, writes, byHand>>

-----------------------------------------------------------------------------
(* The operator.                                                           *)

WritesPolicy ==
    /\ writes < MaxWrites /\ writes' = writes + 1
    /\ policy' \in {NoPolicy,
                    [mode |-> "production", state |-> "active", id |-> writes + 1],
                    [mode |-> "safe", state |-> "armed", id |-> writes + 1]}
    /\ rewritten' = rewritten \cup {l \in Launchers : run[l].at \in {"holds", "replaced", "chosen"}}
    /\ UNCHANGED <<lock, head, noted, run, dog, dogs, strays, raced, activated, byHand>>

Expires ==
    /\ policy.mode = "safe" /\ policy.state # "expired"
    /\ policy' = [policy EXCEPT !.state = "expired"]
    /\ UNCHANGED <<lock, head, noted, run, dog, dogs, ghosts, activated, writes, byHand>>

RemovesLock ==
    /\ lock = "left" /\ lock' = "free"
    /\ UNCHANGED <<policy, head, noted, run, dog, dogs, ghosts, activated, writes, byHand>>

Commits ==
    /\ head < MaxCommits /\ head' = head + 1
    /\ raced' = raced \cup {l \in Launchers : run[l].at = "loaded"}
    /\ UNCHANGED <<policy, lock, noted, run, dog, dogs, strays, rewritten, activated, writes,
                   byHand>>

BootInit ==
    /\ policy \in {NoPolicy, [mode |-> "production", state |-> "active", id |-> 0],
                   [mode |-> "safe", state |-> "armed", id |-> 0]}
    /\ lock = "free" /\ head = 0 /\ noted = [commit |-> 0, by |-> NoLauncher]
    /\ run = [l \in Launchers |-> NoRun] /\ dog = 1 /\ dogs = 1
    /\ strays = {} /\ raced = {} /\ rewritten = {} /\ activated = [i \in 0..MaxWrites |-> 0]
    /\ writes = 0 /\ byHand = 0

BootNext ==
    \/ \E l \in Launchers :
          \/ DogStarts(l) \/ StartsByHand(l) \/ Records(l) \/ Locks(l) \/ Keeps(l)
          \/ Replaces(l) \/ Unlocks(l) \/ Imports(l) \/ Dies(l)
    \/ DogChanges \/ WritesPolicy \/ Expires \/ RemovesLock \/ Commits

BootSpec == BootInit /\ [][BootNext]_bootVars

-----------------------------------------------------------------------------

\* get_code_freshness_status
SaysFresh == noted.commit = head

\* A policy is activated once, however many launchers boot, die and find a lock that a
\* dead one left (_atomic_activate_safe_policy).
ActivatedOnce == \A i \in 0..MaxWrites : activated[i] <= 1

\* The code of the launcher that wrote the note last is what the note says it is, but
\* for a commit between its start and its note (record_boot_commit).
NoteIsTrue ==
    noted.by \in Alive \ raced /\ run[noted.by].at # "loaded" /\ SaysFresh
        => run[noted.by].code = head

\* Two launchers work side by side only where one of them outlived its watchdog or was
\* started by hand (Test-Launcher).
SecondIsAStray == Cardinality(Alive \ strays) <= 1

\* The webhook module takes another mode than its launcher only where a policy was
\* written in between (dm_receiver reads the policy for itself).
ModesAgree ==
    \A l \in Launchers \ rewritten : run[l].at = "working" => run[l].dm = run[l].mode

\* Launchers come up as they should, part by part as above.
BootIsSound ==
    /\ \A l \in Launchers : run[l].at \in Steps /\ run[l].parent \in 0..MaxDogs
    /\ lock \in Launchers \cup {"free", "left"}
    /\ ActivatedOnce /\ NoteIsTrue /\ SecondIsAStray /\ ModesAgree
=============================================================================
