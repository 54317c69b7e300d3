------------------------------ MODULE Estimates ------------------------------
(***************************************************************************)
(* The estimator on one day's blocks (estimate.rs, ticket_verdict.rs): the *)
(* batch of `worklog estimate` in a terminal, which asks the model about   *)
(* the day, takes minutes, writes statement by statement and folds         *)
(* neighbours of one ticket; the daemon's estimate of a single block,      *)
(* which calls the model without the lock; and the owner, who edits        *)
(* meanwhile.  The batch of the daemon holds the lock: it is a batch that  *)
(* no edit of the daemon comes in between.                                 *)
(***************************************************************************)
EXTENDS Naturals

CONSTANTS
    Absent,      \* no row, no ticket, no run
    LastBlock,   \* the day's blocks, in the order of their starts
    Keys,        \* Jira keys
    MeetingKey,  \* the key configured for internal meetings
    Meetings,    \* blocks whose events are all of the calendar
    Near,        \* pairs of blocks no more than TIMEOUT_MINUTES apart
    Batches,     \* terminals that may run `worklog estimate`
    Singles,     \* estimates of a single block that may be under way
    MaxEdits     \* bound: changes by the owner

Blocks == 1 .. LastBlock

Estimable == [mine : BOOLEAN,      \* the description is the owner's
              by : {"manual", "claude_p", "gap", Absent},
              ticket : Keys \cup {Absent},
              origin : {"manual", "auto", "event", Absent},
              personal : BOOLEAN,
              note : BOOLEAN,      \* it holds a rough note
              sent : BOOLEAN,      \* it has a worklog
              split : BOOLEAN]     \* a split among customers is saved for its start

Day == [Blocks -> Estimable \cup {Absent}]

Read == [by : {"manual", "claude_p", "gap", Absent}, ticket : Keys \cup {Absent}]

Batch == [at : {"replies", "fold", "verdict", "fold again"},
          todo : SUBSET Blocks,
          seen : [Blocks -> Read \cup {Absent}],   \* the rows as the fold read them
          pos : Blocks,            \* the fold has come this far
          picked : BOOLEAN]        \* Verdict changed a ticket

ASSUME EstimatesAssumption ==
    /\ LastBlock \in Nat \ {0} /\ MaxEdits \in Nat
    /\ Meetings \subseteq Blocks /\ Near \subseteq Blocks \X Blocks
    /\ Absent \notin Estimable /\ Absent \notin Read /\ Absent \notin Batch /\ Absent \notin Blocks \cup Keys
    /\ Absent \notin {"manual", "claude_p", "gap", "auto", "event"}

VARIABLES
    day,       \* block -> its row, or Absent
    batches,   \* terminal -> its batch, or Absent
    singles,   \* single estimate -> the block it was asked for, or Absent
    edits

estimateVars == <<day, batches, singles, edits>>

EstimatesTypeOK ==
    /\ day \in Day
    /\ batches \in [Batches -> Batch \cup {Absent}]
    /\ singles \in [Singles -> Blocks \cup {Absent}]
    /\ edits \in 0 .. MaxEdits

(* A day that was never estimated: blocks as inferred, and note blocks,    *)
(* which hold the owner's text.                                            *)
Unestimated ==
    {b \in Estimable : /\ ~b.sent /\ ~b.split
                       /\ b.note = b.mine /\ b.by = IF b.note THEN "manual" ELSE Absent
                       /\ b.origin = IF b.ticket = Absent THEN Absent ELSE "event"}

EstimatesInit ==
    /\ day \in [Blocks -> Unestimated]
    /\ batches = [r \in Batches |-> Absent]
    /\ singles = [j \in Singles |-> Absent]
    /\ edits = 0

-----------------------------------------------------------------------------
Exists(i) == day[i] # Absent

(* What an estimate writes: the ticket of the owner, or of the meeting     *)
(* found in the events, is kept.                                           *)
TicketIsKept(b) == b.origin = "manual" \/ (b.origin = "event" /\ b.ticket = MeetingKey)

Described(b, key) ==
    [b EXCEPT !.mine = FALSE, !.by = "claude_p",
              !.ticket = IF TicketIsKept(b) THEN b.ticket ELSE key,
              !.origin = IF TicketIsKept(b) \/ key = b.ticket THEN b.origin
                         ELSE IF key = Absent THEN Absent ELSE "auto"]

(* the WHERE of the batch's UPDATE: it changes no row that was estimated   *)
(* or written by hand since the batch read it                              *)
OverAnything(b) == TRUE   \* mutant

StillOpen(b) == b.by \notin {"manual", "claude_p"}

InBatch(r, stage) == batches[r] # Absent /\ batches[r].at = stage

IsNext(r, i) == i \in batches[r].todo /\ \A k \in batches[r].todo : i <= k

(* the replies come once the meetings are described and the prompts built  *)
AtReply(r, i) ==
    InBatch(r, "replies") /\ IsNext(r, i) /\ batches[r].todo \cap Meetings = {}

Later(r, i) == [batches EXCEPT ![r].todo = @ \ {i}]

Nothing == [i \in Blocks |-> Absent]

(* the prompts are built from one reading of the day *)
StartBatch(r) ==
    /\ batches[r] = Absent
    /\ batches' = [batches EXCEPT ![r] =
           [at |-> "replies", pos |-> 1, picked |-> FALSE, seen |-> Nothing,
            todo |-> {i \in Blocks : Exists(i) /\ ~day[i].personal /\ StillOpen(day[i])}]]
    /\ UNCHANGED <<day, singles, edits>>

(* a block of meetings gets their titles, not a model's words *)
DescribeMeeting(r, i) ==
    /\ InBatch(r, "replies") /\ i \in batches[r].todo \cap Meetings
    /\ day' = [day EXCEPT ![i] =
           IF Exists(i) /\ day[i].by # "manual"
           THEN [day[i] EXCEPT !.mine = FALSE, !.by = "claude_p"] ELSE day[i]]
    /\ batches' = Later(r, i)
    /\ UNCHANGED <<singles, edits>>

ApplyReply(r, i, key) ==
    /\ AtReply(r, i)
    /\ day' = [day EXCEPT ![i] =
           IF Exists(i) /\ StillOpen(day[i]) THEN Described(day[i], key) ELSE day[i]]
    /\ batches' = Later(r, i)
    /\ UNCHANGED <<singles, edits>>

(* no usable reply: mark_gap, whatever became of the block meanwhile *)
MarkGap(r, i) ==
    /\ AtReply(r, i)
    /\ day' = [day EXCEPT ![i] = IF Exists(i) THEN [day[i] EXCEPT !.by = "gap"] ELSE day[i]]
    /\ batches' = Later(r, i)
    /\ UNCHANGED <<singles, edits>>

(* merge_same_ticket_adjacent reads the day once more *)
AsRead == [i \in Blocks |-> IF Exists(i) THEN [by |-> day[i].by, ticket |-> day[i].ticket]
                            ELSE Absent]

StartFold(r) ==
    /\ batches[r] # Absent /\ batches[r].todo = {}
    /\ \/ batches[r].at = "replies" /\ batches' = [batches EXCEPT
              ![r].at = "fold", ![r].seen = AsRead, ![r].pos = 1]
       \/ batches[r].at = "verdict" /\ batches' = [batches EXCEPT
              ![r] = IF ~@.picked THEN Absent
                     ELSE [@ EXCEPT !.at = "fold again", !.seen = AsRead, !.pos = 1]]
    /\ UNCHANGED <<day, singles, edits>>

Folding(r) == InBatch(r, "fold") \/ InBatch(r, "fold again")

Following(r) == {i \in Blocks : i > batches[r].pos /\ batches[r].seen[i] # Absent}

(* The tickets and authors are those the fold read, the worklogs and       *)
(* splits those of now.                                                    *)
Unmanual(r, a, b) == batches[r].seen[a].by # "manual" /\ batches[r].seen[b].by # "manual"

RowMissing(r, a, b) ==
    Unmanual(r, a, b) /\ (~Exists(a) \/ (~day[a].sent /\ ~Exists(b)))

Foldable(r, a, b) ==
    /\ batches[r].seen[a].ticket # Absent
    /\ batches[r].seen[a].ticket = batches[r].seen[b].ticket
    /\ Unmanual(r, a, b)
    /\ \A i \in {a, b} : ~day[i].sent /\ ~day[i].split
    /\ <<a, b>> \in Near

(* The next pair of neighbours: the first takes the second's events, and   *)
(* its hand-set ticket; a row that is gone ends the run with an error.     *)
FoldNext(r) ==
    /\ Folding(r)
    /\ \E b \in Following(r) :
          /\ \A k \in Following(r) : b <= k
          /\ LET a == batches[r].pos IN
             IF batches[r].seen[a] # Absent /\ RowMissing(r, a, b)
             THEN batches' = [batches EXCEPT ![r] = Absent] /\ UNCHANGED day
             ELSE IF batches[r].seen[a] # Absent /\ Foldable(r, a, b)
             THEN /\ day' = [day EXCEPT
                         ![a].origin = IF day[b].origin = "manual" THEN "manual" ELSE @,
                         ![b] = Absent]
                  /\ batches' = [batches EXCEPT ![r].seen[b] = Absent]
             ELSE batches' = [batches EXCEPT ![r].pos = b] /\ UNCHANGED day
    /\ UNCHANGED <<singles, edits>>

EndFold(r) ==
    /\ Folding(r) /\ Following(r) = {}
    /\ batches' = [batches EXCEPT ![r] =
           IF @.at = "fold again" THEN Absent
           ELSE [@ EXCEPT !.at = "verdict", !.seen = Nothing, !.pos = 1,
                          !.todo = {i \in Blocks : /\ Exists(i) /\ ~day[i].personal
                                                   /\ ~day[i].sent}]]
    /\ UNCHANGED <<day, singles, edits>>

(* ticket_verdict::apply: Absent is no clear pick *)
VerdictPicks(r, i, key) ==
    /\ InBatch(r, "verdict") /\ IsNext(r, i)
    /\ LET open == /\ key # Absent /\ Exists(i) /\ day[i].origin \in {Absent, "auto"}
                   /\ <<day[i].ticket, day[i].origin>> # <<key, "auto">>
       IN  /\ day' = IF open THEN [day EXCEPT ![i].ticket = key, ![i].origin = "auto"] ELSE day
           /\ batches' = [batches EXCEPT ![r].todo = @ \ {i}, ![r].picked = @ \/ open]
    /\ UNCHANGED <<singles, edits>>

(* the terminal is closed *)
StopBatch(r) ==
    /\ batches[r] # Absent /\ batches' = [batches EXCEPT ![r] = Absent]
    /\ UNCHANGED <<day, singles, edits>>

BatchStep(r) ==
    \/ StartBatch(r) \/ StartFold(r) \/ FoldNext(r) \/ EndFold(r) \/ StopBatch(r)
    \/ \E i \in Blocks :
          \/ DescribeMeeting(r, i) \/ MarkGap(r, i)
          \/ \E key \in Keys \cup {Absent} : ApplyReply(r, i, key) \/ VerdictPicks(r, i, key)

-----------------------------------------------------------------------------
(* The daemon's estimate of one block, which the owner asked for. *)

PrepareSingle(j, i) ==
    /\ singles[j] = Absent /\ Exists(i) /\ ~day[i].personal /\ ~day[i].note
    /\ singles' = [singles EXCEPT ![j] = i]
    /\ UNCHANGED <<day, batches, edits>>

CommitSingle(j, key) ==
    /\ singles[j] # Absent
    /\ LET i == singles[j] IN
       day' = [day EXCEPT ![i] = IF Exists(i) THEN Described(day[i], key) ELSE day[i]]
    /\ singles' = [singles EXCEPT ![j] = Absent]
    /\ UNCHANGED <<batches, edits>>

SingleFails(j) ==
    /\ singles[j] # Absent
    /\ singles' = [singles EXCEPT ![j] = Absent]
    /\ UNCHANGED <<day, batches, edits>>

SingleStep(j) ==
    \/ SingleFails(j)
    \/ \E i \in Blocks : PrepareSingle(j, i)
    \/ \E key \in Keys \cup {Absent} : CommitSingle(j, key)

-----------------------------------------------------------------------------
(* The owner's changes, each one transaction; a sync and a rebuild stand   *)
(* here for what they do to the columns above.                             *)

OwnerSets(i, row) ==
    /\ Exists(i) /\ edits < MaxEdits /\ edits' = edits + 1
    /\ day' = [day EXCEPT ![i] = row]
    /\ UNCHANGED <<batches, singles>>

OwnerEdits(i) ==
    \/ OwnerSets(i, [day[i] EXCEPT !.mine = TRUE, !.by = "manual"])       \* set_description
    \/ OwnerSets(i, [day[i] EXCEPT !.by = "manual"])                      \* set_duration
    \/ \E key \in Keys : OwnerSets(i, [day[i] EXCEPT !.ticket = key, !.origin = "manual",
                                                     !.personal = FALSE]) \* assign_ticket
    \/ OwnerSets(i, [day[i] EXCEPT !.ticket = Absent, !.origin = "manual"])
    \/ \E p \in BOOLEAN : OwnerSets(i, [day[i] EXCEPT !.personal = p])    \* set_personal
    \/ OwnerSets(i, [day[i] EXCEPT !.sent = TRUE])                        \* a sync
    \/ OwnerSets(i, [day[i] EXCEPT !.split = TRUE])
    \/ OwnerSets(i, Absent)                                               \* delete_block

EstimatesNext ==
    \/ \E r \in Batches : BatchStep(r)
    \/ \E j \in Singles : SingleStep(j)
    \/ \E i \in Blocks : OwnerEdits(i)

EstimatesSpec == EstimatesInit /\ [][EstimatesNext]_estimateVars

-----------------------------------------------------------------------------
(* What the owner wrote while a batch or an estimate ran is not replaced   *)
(* by what the model made of the block before: his words only by an        *)
(* estimate of that block he asked for, or when a reply failed after the   *)
(* block was read (mark_gap takes the mark away), his ticket by nothing    *)
(* ("manual blocks MUST NOT be overwritten by re-estimation").             *)
OwnerEditsSurvive ==
    [][\A i \in Blocks :
          LET old == day[i]
              new == day'[i]
          IN  old # Absent /\ new # Absent /\ edits' = edits =>
                /\ old.mine /\ ~new.mine =>
                      old.by = "gap" \/ \E j \in Singles : singles[j] = i /\ singles'[j] = Absent
                /\ old.origin = "manual" => new.origin = "manual" /\ new.ticket = old.ticket]_estimateVars
==============================================================================
