----------------------------- MODULE ReviewBatches -----------------------------
(***************************************************************************)
(* The review of training candidates in batches (review_grid_ui), its      *)
(* commit with a second look (review_batch_committer) and the record of    *)
(* the batch that can be undone (undo_state_store, a SQLite file).  The    *)
(* pages of several browser tabs share the records of Airtable and the     *)
(* file; each has a session of its own.  Airtable does not promise that a  *)
(* chunk is written as a whole, so a lost answer leaves any part of it.    *)
(***************************************************************************)
EXTENDS Integers, Sequences, FiniteSets

CONSTANTS
    Candidates,   \* records of Training_Review_Queue
    Tabs,         \* browser tabs, each with its session
    ChunkSize,    \* _BATCH_CHUNK_SIZE
    MaxBatches,   \* bound: batches submitted
    MaxFaults     \* bound: requests without an answer, failed file writes, restarts

ASSUME ReviewAssumption ==
    /\ IsFiniteSet(Candidates) /\ IsFiniteSet(Tabs)
    /\ ChunkSize \in Nat \ {0} /\ MaxBatches \in Nat /\ MaxFaults \in Nat

VARIABLES
    decided,  \* review_status of each record
    batches,  \* rows of review_undo_batches, the oldest first
    tabs,     \* session and running script of each tab
    proof,    \* ghost: what the reads of each batch have shown
    faults

reviewVars == <<decided, batches, tabs, proof, faults>>

Statuses == {"PENDING", "PASS", "BLOCK"}
NoJob == [kind |-> "none", bid |-> 0, want |-> <<>>, todo |-> {}, chunk |-> {},
          refused |-> FALSE, differs |-> {}, unsure |-> {}]
NewSession == [at |-> "away", mode |-> "PENDING", batch |-> {}, blocked |-> FALSE,
               undo |-> {}, undoBid |-> 0, undoTo |-> "PENDING", job |-> NoJob]

Fault == faults < MaxFaults /\ faults' = faults + 1
NoFault == UNCHANGED faults

\* An attempt that may fail: the fault is counted when it does.
Attempt(ok) == IF ok THEN NoFault ELSE Fault

-----------------------------------------------------------------------------
(* The record of the batches: the answers are about the newest row only.   *)

NewestIs(state) == batches # <<>> /\ batches[Len(batches)].state = state

Prepared(rows, want, back) ==
    Append([b \in DOMAIN rows |-> IF rows[b].state = "committed"
                                  THEN [rows[b] EXCEPT !.state = "superseded"] ELSE rows[b]],
           [state |-> "prepared", want |-> want, back |-> back])

\* mark_committed, mark_failed and mark_cancelled do not look at the state.
Marked(bid, state) == [batches EXCEPT ![bid].state = state]

-----------------------------------------------------------------------------
(* The page: recovery first, then what can be undone, then the batch.      *)

Decisions(ids, blocks) == [r \in ids |-> IF r \in blocks THEN "BLOCK" ELSE "PASS"]

Restored(s) ==
    IF s.undo = {} /\ NewestIs("committed")
    THEN LET newest == batches[Len(batches)]
         IN  [s EXCEPT !.undo = DOMAIN newest.want, !.undoBid = Len(batches),
                       !.undoTo = newest.back]
    ELSE s

Fetched(s, ok) ==
    IF s.batch # {} \/ ~ok THEN s
    ELSE [s EXCEPT !.batch = {r \in Candidates : decided[r] = s.mode}, !.blocked = FALSE]

Job(kind, bid, want) ==
    [NoJob EXCEPT !.kind = kind, !.bid = bid, !.want = want, !.todo = DOMAIN want]

Show(t) ==
    /\ tabs[t].at \in {"away", "shown"} /\ ~NewestIs("prepared")
    /\ \E ok \in BOOLEAN :
          /\ tabs[t].batch # {} => ok
          /\ Attempt(ok)
          /\ tabs' = [tabs EXCEPT ![t] = [Fetched(Restored(tabs[t]), ok) EXCEPT !.at = "shown"]]
    /\ UNCHANGED <<decided, batches, proof>>

Recover(t) ==
    /\ tabs[t].at \in {"away", "shown"} /\ NewestIs("prepared")
    /\ tabs' = [tabs EXCEPT ![t].at = "verifying",
                            ![t].job = Job("recover", Len(batches), batches[Len(batches)].want)]
    /\ UNCHANGED <<decided, batches, proof, faults>>

SwitchMode(t, m) ==
    /\ tabs[t].at = "shown" /\ m # tabs[t].mode
    /\ tabs' = [tabs EXCEPT ![t].mode = m, ![t].batch = {}, ![t].at = "away"]
    /\ UNCHANGED <<decided, batches, proof, faults>>

\* The record comes first: without it nothing is written to Airtable.
Submit(t, blocks) ==
    LET s == Restored(tabs[t])
        want == Decisions(s.batch, blocks)
    IN  /\ s.at = "shown" /\ ~NewestIs("prepared")
        /\ s.batch # {} /\ ~s.blocked /\ blocks \subseteq s.batch
        /\ Len(batches) < MaxBatches
        /\ \E recorded \in BOOLEAN :
              /\ Attempt(recorded)
              /\ IF recorded
                 THEN /\ batches' = Prepared(batches, want, s.mode)
                      /\ proof' = Append(proof, [held |-> FALSE, denied |-> FALSE])
                      /\ tabs' = [tabs EXCEPT ![t] = [s EXCEPT !.at = "saving",
                                     !.job = Job("save", Len(batches) + 1, want)]]
                 ELSE tabs' = [tabs EXCEPT ![t] = s] /\ UNCHANGED <<batches, proof>>
        /\ UNCHANGED decided

Undo(t) ==
    LET s == tabs[t] IN
    /\ s.at = "shown" /\ ~NewestIs("prepared") /\ s.undo # {}
    /\ tabs' = [tabs EXCEPT ![t].at = "saving",
                   ![t].job = Job("undo", s.undoBid, [r \in s.undo |-> s.undoTo])]
    /\ UNCHANGED <<decided, batches, proof, faults>>

-----------------------------------------------------------------------------
(* _save_all and _verify_all, a chunk at a time.                           *)

Chunks(todo) == {c \in SUBSET todo : \/ Cardinality(c) = ChunkSize
                                     \/ c = todo /\ c # {} /\ Cardinality(c) < ChunkSize}

Overwritten(part, want) == [r \in Candidates |-> IF r \in part THEN want[r] ELSE decided[r]]

\* The job after a chunk was saved; after the last one all are read again.
Saved(s, c) ==
    IF s.job.todo \subseteq c
    THEN [s EXCEPT !.at = "verifying", !.job.todo = DOMAIN s.job.want]
    ELSE [s EXCEPT !.at = "saving", !.job.todo = @ \ c]

SaveChunk(t) ==
    LET s == tabs[t] IN
    /\ s.at = "saving"
    /\ \E c \in Chunks(s.job.todo) :
          \/ /\ decided' = Overwritten(c, s.job.want)
             /\ tabs' = [tabs EXCEPT ![t] = Saved(s, c)]
             /\ UNCHANGED <<proof, faults>>
          \/ /\ Fault                                        \* 422: refused before it is written
             /\ tabs' = [tabs EXCEPT ![t].at = "judged", ![t].job.refused = TRUE]
             /\ proof' = IF s.job.kind = "save" THEN [proof EXCEPT ![s.job.bid].denied = TRUE]
                                                ELSE proof
             /\ UNCHANGED decided
          \/ /\ Fault                                        \* any other exception
             /\ \E part \in SUBSET c : decided' = Overwritten(part, s.job.want)
             /\ tabs' = [tabs EXCEPT ![t].at = "rechecking", ![t].job.chunk = c]
             /\ UNCHANGED proof

\* Mutant: a record without a value counts as one that differs.
Read_BlankDiffers(s, c, blank) ==
    [s.job EXCEPT !.differs = @ \cup blank, !.chunk = {}]

\* What a read of chunk c adds: blank are the records it says nothing of.
Read(s, c, blank) ==
    [s.job EXCEPT !.unsure = @ \cup blank, !.chunk = {},
                  !.differs = @ \cup {r \in c \ blank : decided[r] # s.job.want[r]}]

Blanks(c) == {blank \in SUBSET c : blank # {} => faults < MaxFaults}
Counted(blank) == IF blank = {} THEN NoFault ELSE Fault

\* The ghost's own view of a read, for the jobs that are about the newest decisions.
Seen(s, c, blank, last) ==
    IF s.job.kind \notin {"save", "recover"} THEN proof
    ELSE LET wrong == {r \in c \ blank : decided[r] # s.job.want[r]}
         IN  [proof EXCEPT ![s.job.bid].denied = @ \/ wrong # {},
                           ![s.job.bid].held = @ \/ (last /\ wrong \cup blank = {}
                                                     /\ s.job.differs \cup s.job.unsure = {})]

Recheck(t) ==
    LET s == tabs[t]
        c == s.job.chunk
    IN  /\ s.at = "rechecking"
        /\ \E blank \in Blanks(c) :
              /\ Counted(blank)
              /\ LET job == Read(s, c, blank)
                     s2  == [s EXCEPT !.job = job]
                 IN  tabs' = [tabs EXCEPT ![t] = IF job.differs \cup job.unsure = {}
                                                 THEN Saved(s2, c)
                                                 ELSE [s2 EXCEPT !.at = "judged"]]
              /\ proof' = Seen(s, c, blank, FALSE)
        /\ UNCHANGED <<decided, batches>>

VerifyChunk(t) ==
    LET s == tabs[t] IN
    /\ s.at = "verifying"
    /\ \E c \in Chunks(s.job.todo) : \E blank \in Blanks(c) :
          /\ Counted(blank)
          /\ LET last == s.job.todo \subseteq c
             IN  /\ tabs' = [tabs EXCEPT ![t].at = IF last THEN "judged" ELSE "verifying",
                                         ![t].job = [Read(s, c, blank) EXCEPT !.todo = @ \ c]]
                 /\ proof' = Seen(s, c, blank, last)
    /\ UNCHANGED <<decided, batches>>

-----------------------------------------------------------------------------
(* What the page does with the result.                                     *)

Good(job)  == ~job.refused /\ job.differs = {} /\ job.unsure = {}
Wrong(job) == job.refused \/ job.differs # {}

\* The row of job gets state, unless the file cannot be written.
Record(job, state, written) ==
    /\ Attempt(written)
    /\ batches' = IF written THEN Marked(job.bid, state) ELSE batches

FinishSave(t) ==
    LET s == tabs[t]
        done == [s EXCEPT !.job = NoJob]
    IN  /\ s.at = "judged" /\ s.job.kind = "save"
        /\ \/ \E written \in BOOLEAN :
                 /\ Good(s.job) /\ Record(s.job, "committed", written)
                 /\ tabs' = [tabs EXCEPT ![t] =
                       [done EXCEPT !.at = "away", !.undo = s.batch, !.undoTo = s.mode, !.batch = {},
                                    !.undoBid = IF written THEN s.job.bid ELSE @]]
           \/ \E written \in BOOLEAN :
                 /\ Wrong(s.job) /\ Record(s.job, "failed", written)
                 /\ tabs' = [tabs EXCEPT ![t] =
                       [done EXCEPT !.at = "shown",
                                    !.blocked = @ \/ (~s.job.refused /\ s.job.unsure # {})]]
           \/ /\ ~Good(s.job) /\ ~Wrong(s.job)
              /\ tabs' = [tabs EXCEPT ![t] = [done EXCEPT !.at = "shown", !.blocked = TRUE]]
              /\ UNCHANGED <<batches, faults>>
        /\ UNCHANGED <<decided, proof>>

FinishRecovery(t) ==
    LET s == tabs[t] IN
    /\ s.at = "judged" /\ s.job.kind = "recover"
    /\ \/ \E written \in BOOLEAN : Good(s.job) /\ Record(s.job, "committed", written)
       \/ \E written \in BOOLEAN : Wrong(s.job) /\ Record(s.job, "failed", written)
       \/ ~Good(s.job) /\ ~Wrong(s.job) /\ UNCHANGED <<batches, faults>>
    /\ tabs' = [tabs EXCEPT ![t].at = "away", ![t].job = NoJob]
    /\ UNCHANGED <<decided, proof>>

FinishUndo(t) ==
    LET s == tabs[t]
        done == [s EXCEPT !.at = "away", !.job = NoJob]
        forgotten == [done EXCEPT !.undo = {}, !.undoBid = 0, !.undoTo = "PENDING", !.batch = {}]
    IN  /\ s.at = "judged" /\ s.job.kind = "undo"
        /\ \/ \E written \in BOOLEAN :
                 /\ Good(s.job) /\ s.undoBid # 0 /\ Record(s.job, "cancelled", written)
                 /\ tabs' = [tabs EXCEPT ![t] = IF written THEN forgotten ELSE done]
           \/ /\ Good(s.job) /\ s.undoBid = 0
              /\ tabs' = [tabs EXCEPT ![t] = forgotten]
              /\ UNCHANGED <<batches, faults>>
           \/ /\ ~Good(s.job)
              /\ tabs' = [tabs EXCEPT ![t] = done]
              /\ UNCHANGED <<batches, faults>>
        /\ UNCHANGED <<decided, proof>>

\* The server of the pages restarts, or the browser loads the page again.
Restart ==
    /\ Fault /\ tabs' = [t \in Tabs |-> NewSession]
    /\ UNCHANGED <<decided, batches, proof>>

Reload(t) ==
    /\ Fault /\ tabs[t].at \in {"away", "shown"}
    /\ tabs' = [tabs EXCEPT ![t] = NewSession]
    /\ UNCHANGED <<decided, batches, proof>>

-----------------------------------------------------------------------------

ReviewInit ==
    /\ decided = [r \in Candidates |-> "PENDING"]
    /\ batches = <<>> /\ proof = <<>>
    /\ tabs = [t \in Tabs |-> NewSession]
    /\ faults = 0

TabStep(t) ==
    \/ Show(t) \/ Recover(t)
    \/ \E m \in Statuses : SwitchMode(t, m)
    \/ \E blocks \in SUBSET Candidates : Submit(t, blocks)
    \/ Undo(t)
    \/ SaveChunk(t) /\ UNCHANGED batches
    \/ Recheck(t) \/ VerifyChunk(t)
    \/ FinishSave(t) \/ FinishRecovery(t) \/ FinishUndo(t)
    \/ Reload(t)

ReviewNext == Restart \/ \E t \in Tabs : TabStep(t)

ReviewSpec == ReviewInit /\ [][ReviewNext]_reviewVars

-----------------------------------------------------------------------------

\* The types of the variables.
ReviewTypeOK ==
    /\ decided \in [Candidates -> Statuses]
    /\ Len(batches) <= MaxBatches /\ DOMAIN proof = DOMAIN batches
    /\ \A b \in DOMAIN batches :
          /\ batches[b].state \in {"prepared", "committed", "failed", "cancelled", "superseded"}
          /\ batches[b].want \in [DOMAIN batches[b].want -> {"PASS", "BLOCK"}]
          /\ batches[b].back \in Statuses
    /\ \A t \in Tabs :
          /\ tabs[t].at \in {"away", "shown", "saving", "rechecking", "verifying", "judged"}
          /\ tabs[t].batch \cup tabs[t].undo \subseteq Candidates
          /\ tabs[t].undoBid \in 0..Len(batches)

\* A batch is called committed only after one pass of reads has found every one
\* of its decisions: chunks of which the answer was lost, parts written, a
\* restart between the write and the mark never let one through unread.
CommittedWasRead ==
    \A b \in DOMAIN batches :
        batches[b].state \in {"committed", "superseded", "cancelled"} => proof[b].held

\* A batch is given up for good only when a chunk was refused or a read has
\* found another value; one that merely could not be checked stays prepared and
\* is checked again.
GivenUpWasSeen ==
    \A b \in DOMAIN batches : batches[b].state = "failed" => proof[b].denied

\* Every value the page has written belongs to a batch on record: its decision
\* or the state it is taken back to.
NothingUnrecorded ==
    \A r \in Candidates : decided[r] # "PENDING" =>
        \E b \in DOMAIN batches : /\ r \in DOMAIN batches[b].want
                                  /\ decided[r] \in {batches[b].want[r], batches[b].back}

\* The reviewed batches keep their word, part by part as above.
ReviewIsSound == ReviewTypeOK /\ CommittedWasRead /\ GivenUpWasSeen /\ NothingUnrecorded

=============================================================================
