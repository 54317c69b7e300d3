------------------------------ MODULE TempoSync ------------------------------
(***************************************************************************)
(* One day's blocks and lines, the worklogs in Tempo, and the processes    *)
(* that bring the second in step with the first: the sync runs of the      *)
(* daemon and of the CLI (collectors/tempo.rs) and the daemon's delete     *)
(* handler.  A sync reads and writes the database statement by statement,  *)
(* in no transaction, with requests to Tempo in between.  The daemon's     *)
(* sync holds the connection lock throughout, so the daemon's own edits    *)
(* wait for it; they do not wait for a `worklog sync` in a terminal.       *)
(***************************************************************************)
EXTENDS BlockRow, Integers, FiniteSetsExt

CONSTANTS
    MaxId,         \* bound: ids of the day's rows
    Minutes,       \* lengths a row may have
    Hours,         \* hours overrides of a line, in minutes
    AproTickets,   \* tickets of APRÓ's own, which keep the 15-minute floor
    Syncers,       \* processes that may run a sync
    Daemon,        \* the one of them whose sync holds the connection lock
    Tolerance,     \* SAME_HOURS_TOLERANCE_SECONDS, in minutes
    MaxWorklogs    \* bound: Tempo hands out no more ids than this

ASSUME SyncAssumption ==
    /\ Daemon \in Syncers /\ Worklogs = 1 .. MaxWorklogs /\ MaxWorklogs \in Nat
    /\ Minutes \subseteq Nat /\ Hours \subseteq Nat /\ Tolerance \in Nat
    /\ MaxId \in Nat

VARIABLES
    rows,     \* id -> Row or Null: the table `blocks`
    lastId,   \* AUTOINCREMENT: an id is never used twice
    line,     \* ticket -> stored text and hours override (tempo_line_texts)
    already,  \* ticket -> what the line was when it was found in Tempo, or Null
    tempo,    \* worklog id -> entry in Tempo, or Null
    issued,   \* the last id Tempo handed out
    hand,     \* ids of the entries the owner made in Tempo
    sync,     \* syncer -> where its run is
    del       \* the delete handler

vars == <<rows, lastId, line, already, tempo, issued, hand, sync, del>>

Blocks == 1 .. MaxId

Spoken == Texts \cup SUBSET Texts   \* a stored text, or the joined descriptions

Worklog == [ticket : Tickets, total : Nat, text : Spoken]

Basis == [total : Nat, text : Spoken]

Rows == [Blocks -> Row \cup {Null}]

Run == [at : {"idle", "groups", "check", "send", "reply"},
        todo : Rows,                      \* eligible rows, as read at the start
        legacy : Tickets \cup {Null},     \* the group being sent block by block
        ids : SUBSET Blocks,              \* rows the reply is written back to
        existing : Worklogs \cup {Null},  \* PUT that one, or POST
        entry : Worklog \cup {Null},      \* the payload
        got : Worklogs \cup {Null}]       \* the id in Tempo's reply

TypeOK ==
    /\ rows \in Rows
    /\ lastId \in 0 .. MaxId
    /\ line \in [Tickets -> [text : Texts \cup {Null}, manual : BOOLEAN,
                            hours : Hours \cup {Null}]]
    /\ already \in [Tickets -> Basis \cup {Null}]
    /\ tempo \in [Worklogs -> Worklog \cup {Null}]
    /\ issued \in 0 .. MaxWorklogs
    /\ hand \in SUBSET Worklogs
    /\ sync \in [Syncers -> Run]
    /\ del \in [at : {"idle", "remote", "local"}, id : Blocks \cup {Null},
                tempo : Worklogs \cup {Null}]

NoRows == [i \in Blocks |-> Null]

Idle == [at |-> "idle", todo |-> NoRows, legacy |-> Null, ids |-> {},
         existing |-> Null, entry |-> Null, got |-> Null]

NoLine == [text |-> Null, manual |-> FALSE, hours |-> Null]

NoDelete == [at |-> "idle", id |-> Null, tempo |-> Null]

Init ==
    /\ rows = NoRows /\ lastId = 0
    /\ line = [k \in Tickets |-> NoLine]
    /\ already = [k \in Tickets |-> Null]
    /\ tempo = [w \in Worklogs |-> Null] /\ issued = 0 /\ hand = {}
    /\ sync = [s \in Syncers |-> Idle]
    /\ del = NoDelete

-----------------------------------------------------------------------------
(* tempo_lines::build_line: what a line would say in Tempo. *)

Live == {i \in Blocks : rows[i] # Null}

Line(k) == {i \in Live : rows[i].ticket = k /\ ~rows[i].personal}

LineIds(k) == {rows[i].tempo : i \in Line(k)} \ {Null}

Covered(b) == b.start .. b.start + b.dur - 1

RoundFromThirty(m) == IF m < 15 THEN 0 ELSE ((m - 31) \div 30) * 30   \* mutant

RoundToHalfHour(m) == IF m < 15 THEN 0 ELSE ((m + 29) \div 30) * 30

RoundBillable(m) == IF m = 0 THEN 0 ELSE Max({30, RoundToHalfHour(m)})

Total(k) ==
    LET tracked == Cardinality(UNION {Covered(rows[i]) : i \in Line(k)})
    IN  IF line[k].hours # Null THEN line[k].hours
        ELSE IF k \in AproTickets THEN RoundToHalfHour(tracked)
        ELSE RoundBillable(tracked)

Descriptions(k) == {rows[i].text : i \in Line(k)} \ {Null}

TextOf(k) == IF line[k].text # Null THEN line[k].text ELSE Descriptions(k)

Content(k) == [ticket |-> k, total |-> Total(k), text |-> TextOf(k)]

BasisOf(k) == [total |-> Total(k), text |-> TextOf(k)]

LineUnmarked(k) == rows   \* mutant

(* finish_write: storing a line's text or hours marks its sent rows. *)
LineMarked(k) == [i \in Blocks |-> IF i \in Line(k) THEN MarkDirty(rows[i]) ELSE rows[i]]

-----------------------------------------------------------------------------
(* A sync run. *)

(* fetch_eligible_blocks *)
Eligible(i) == i \in Live /\ ~rows[i].personal /\ (~Synced(rows[i]) \/ rows[i].dirty)

Begin(s) ==
    /\ sync[s] = Idle
    /\ sync' = [sync EXCEPT ![s] =
           [Idle EXCEPT !.at = "groups",
                        !.todo = [i \in Blocks |->
                            IF Eligible(i) /\ rows[i].ticket # Null
                            THEN rows[i] ELSE Null]]]
    /\ UNCHANGED <<rows, lastId, line, already, tempo, issued, hand, del>>

Waiting(s, k) == {i \in Blocks : sync[s].todo[i] # Null /\ sync[s].todo[i].ticket = k}

Without(table, S) == [i \in Blocks |-> IF i \in S THEN Null ELSE table[i]]

(* classify_group *)
AllUnsynced(k) == LineIds(k) = {}
SharedId(k)    == Cardinality(LineIds(k)) = 1
NeverLegacy(k) == FALSE   \* mutant
MixedLegacy(k) == Cardinality(LineIds(k)) > 1

AtGroup(s, k) ==
    sync[s].at = "groups" /\ sync[s].legacy = Null /\ Waiting(s, k) # {}

Unsent == UNCHANGED <<rows, lastId, line, already, tempo, issued, hand, del>>

(* Nothing to send: the total rounds to nothing, or the line was found in  *)
(* Tempo and has not changed since.                                        *)
NothingToSend(k) ==
    Total(k) = 0 \/ (AllUnsynced(k) /\ already[k] = BasisOf(k))

SkipGroup(s, k) ==
    /\ AtGroup(s, k) /\ ~MixedLegacy(k) /\ Line(k) # {}
    /\ NothingToSend(k)
    /\ sync' = [sync EXCEPT ![s].todo = Without(@, Waiting(s, k))]
    /\ Unsent

(* The ticket's issue id cannot be resolved. *)
Unresolved(s, k) ==
    /\ AtGroup(s, k)
    /\ sync' = [sync EXCEPT ![s].todo = Without(@, Waiting(s, k))]
    /\ Unsent

(* The group is read; with no id yet, Tempo is asked first. *)
TakeGroup(s, k) ==
    /\ AtGroup(s, k) /\ ~MixedLegacy(k) /\ Line(k) # {}
    /\ ~NothingToSend(k)
    /\ sync' = [sync EXCEPT ![s] =
           [@ EXCEPT !.at = IF AllUnsynced(k) THEN "check" ELSE "send",
                     !.todo = Without(sync[s].todo, Waiting(s, k)),
                     !.ids = Line(k),
                     !.existing = IF AllUnsynced(k) THEN Null
                                  ELSE CHOOSE w \in LineIds(k) : TRUE,
                     !.entry = Content(k)]]
    /\ Unsent

(* check_line: an entry of the line's ticket and about its hours, that no  *)
(* row owns, is matched against the line's text.                           *)
Candidates(entry) ==
    {w \in Worklogs :
        /\ tempo[w] # Null /\ tempo[w].ticket = entry.ticket
        /\ tempo[w].total - entry.total \in -Tolerance .. Tolerance
        /\ \A i \in Live : rows[i].tempo # w}

FoundAndAdopted(s) ==   \* mutant
    /\ sync[s].at = "check" /\ Candidates(sync[s].entry) # {}
    /\ sync' = [sync EXCEPT ![s].at = "send",
                            ![s].existing = CHOOSE w \in Candidates(sync[s].entry) : TRUE]
    /\ Unsent

FoundInTempo(s) ==
    /\ sync[s].at = "check" /\ Candidates(sync[s].entry) # {}
    /\ already' = [already EXCEPT ![sync[s].entry.ticket] =
                      [total |-> sync[s].entry.total, text |-> sync[s].entry.text]]
    /\ sync' = [sync EXCEPT ![s] = [Idle EXCEPT !.at = "groups", !.todo = sync[s].todo]]
    /\ UNCHANGED <<rows, lastId, line, tempo, issued, hand, del>>

(* No match, or no answer in time. *)
NotFound(s) ==
    /\ sync[s].at = "check"
    /\ sync' = [sync EXCEPT ![s].at = "send"]
    /\ Unsent

(* A line without a stored text may get one from the model.  commit_       *)
(* generated stores it, but over a text written by hand meanwhile, and     *)
(* marks the sent rows, which the write-back clears.                       *)
Generate(s, t) ==
    LET k == sync[s].entry.ticket
    IN  /\ sync[s].at = "send" /\ sync[s].ids = Line(k)
        /\ sync[s].entry.text \notin Texts
        /\ sync' = [sync EXCEPT ![s].entry.text = t]
        /\ IF line[k].manual THEN UNCHANGED <<rows, line>>
           ELSE /\ line' = [line EXCEPT ![k].text = t]
                /\ rows' = LineMarked(k)
        /\ UNCHANGED <<lastId, already, tempo, issued, hand, del>>

(* A group with several ids is sent block by block, each row as it was     *)
(* when the run began.                                                     *)
TakeLegacy(s, i) ==
    LET b == sync[s].todo[i]
        legacy == IF Waiting(s, b.ticket) = {i} THEN Null ELSE b.ticket
    IN  /\ sync[s].at = "groups" /\ b # Null
        /\ \/ sync[s].legacy = b.ticket
           \/ sync[s].legacy = Null /\ MixedLegacy(b.ticket)
        /\ sync' = [sync EXCEPT ![s] =
               IF RoundToHalfHour(b.dur) = 0
               THEN [@ EXCEPT !.todo[i] = Null, !.legacy = legacy]
               ELSE [@ EXCEPT !.at = "send", !.todo[i] = Null, !.legacy = legacy,
                              !.ids = {i}, !.existing = b.tempo,
                              !.entry = [ticket |-> b.ticket,
                                         total |-> RoundToHalfHour(b.dur),
                                         text |-> IF b.text = Null THEN {} ELSE b.text]]]
        /\ Unsent

(* The request reaches Tempo, which carries it out. *)
Post(s) ==
    /\ sync[s].at = "send" /\ sync[s].existing = Null /\ issued < MaxWorklogs
    /\ issued' = issued + 1
    /\ tempo' = [tempo EXCEPT ![issued + 1] = sync[s].entry]
    /\ sync' = [sync EXCEPT ![s].at = "reply", ![s].got = issued + 1]
    /\ UNCHANGED <<rows, lastId, line, already, hand, del>>

PutWorklog(s) ==
    LET w == sync[s].existing
    IN  /\ sync[s].at = "send" /\ w # Null /\ tempo[w] # Null
        /\ tempo' = [tempo EXCEPT ![w] = sync[s].entry]
        /\ sync' = [sync EXCEPT ![s].at = "reply", ![s].got = w]
        /\ UNCHANGED <<rows, lastId, line, already, issued, hand, del>>

NextGroup(s) == [sync[s] EXCEPT !.at = "groups", !.ids = {}, !.existing = Null,
                                !.entry = Null, !.got = Null]

(* An error status, of a request Tempo did not carry out, or a success     *)
(* that names no id: the run reports it and goes on.                       *)
Refuse(s) ==
    /\ \/ sync[s].at = "send"
       \/ sync[s].at = "reply" /\ sync[s].existing = Null
    /\ sync' = [sync EXCEPT ![s] = NextGroup(s)]
    /\ Unsent

(* One UPDATE of the write-back. *)
WriteBack(s, i) ==
    /\ sync[s].at = "reply" /\ i \in sync[s].ids
    /\ rows' = IF rows[i] = Null THEN rows
               ELSE [rows EXCEPT ![i] = SentAs(@, sync[s].got)]
    /\ sync' = [sync EXCEPT ![s] =
           IF sync[s].ids = {i} THEN NextGroup(s) ELSE [@ EXCEPT !.ids = sync[s].ids \ {i}]]
    /\ UNCHANGED <<lastId, line, already, tempo, issued, hand, del>>

(* The end of a run: every group done; or, at any point, no answer from    *)
(* Tempo, no row left in a group, or the death of the process.             *)
Finish(s) ==
    /\ sync[s].at = "groups" /\ sync[s].todo = NoRows
    /\ sync' = [sync EXCEPT ![s] = Idle]
    /\ Unsent

Abort(s) ==
    /\ sync[s].at # "idle"
    /\ sync' = [sync EXCEPT ![s] = Idle]
    /\ Unsent

SyncStep(s) ==
    \/ Begin(s) \/ FoundInTempo(s) \/ NotFound(s)
    \/ \E k \in Tickets : SkipGroup(s, k) \/ TakeGroup(s, k)
    \/ \E t \in Texts : Generate(s, t)
    \/ Post(s) \/ PutWorklog(s) \/ Finish(s)
    \/ \E i \in Blocks : TakeLegacy(s, i) \/ WriteBack(s, i)

-----------------------------------------------------------------------------
(* The owner, through the daemon. *)

Unlocked == sync[Daemon] = Idle

RowWritten(i, row) ==
    /\ Unlocked
    /\ rows' = [rows EXCEPT ![i] = row]
    /\ UNCHANGED <<lastId, line, already, tempo, issued, hand, sync, del>>

(* ticket_log::log_time, an hour and forty minutes after the row before.   *)
LogTime(k, d, t) ==
    /\ Unlocked /\ lastId < MaxId
    /\ lastId' = lastId + 1
    /\ rows' = [rows EXCEPT ![lastId + 1] =
           [start |-> 100 * lastId, end |-> 100 * lastId + d, dur |-> d, ticket |-> k,
            origin |-> "manual", text |-> t, by |-> "manual", described |-> d,
            tempo |-> Null, dirty |-> FALSE, personal |-> FALSE, ignored |-> FALSE,
            exported |-> FALSE, events |-> {}]]
    /\ UNCHANGED <<line, already, tempo, issued, hand, sync, del>>

Resize(i, d) == rows[i] # Null /\ RowWritten(i, Resized(rows[i], d))

Reword(i, t) == rows[i] # Null /\ RowWritten(i, Reworded(rows[i], t))

Reassign(i, k) == rows[i] # Null /\ RowWritten(i, Assigned(rows[i], k))

SetPersonal(i, p) == rows[i] # Null /\ RowWritten(i, [rows[i] EXCEPT !.personal = p])

(* set_text, set_hours; a line left with neither loses its row, the mark   *)
(* that it was found in Tempo with it.                                     *)
StoreLine(k, stored) ==
    /\ Unlocked /\ Line(k) # {}
    /\ line' = [line EXCEPT ![k] = stored]
    /\ already' = IF stored = NoLine THEN [already EXCEPT ![k] = Null] ELSE already
    /\ rows' = LineMarked(k)
    /\ UNCHANGED <<lastId, tempo, issued, hand, sync, del>>

SetText(k, t) == StoreLine(k, [line[k] EXCEPT !.text = t, !.manual = t # Null])

SetHours(k, h) == StoreLine(k, [line[k] EXCEPT !.hours = h])

(* daemon::delete_block: the row is read under the lock, its worklog is    *)
(* deleted without it (an entry that is gone already is fine; without      *)
(* credentials it stays), the row is deleted under the lock again.         *)
DeleteFetch(i, credentials) ==
    /\ Unlocked /\ del = NoDelete /\ rows[i] # Null
    /\ del' = [at |-> IF Synced(rows[i]) /\ credentials THEN "remote" ELSE "local",
               id |-> i, tempo |-> rows[i].tempo]
    /\ UNCHANGED <<rows, lastId, line, already, tempo, issued, hand, sync>>

DeleteRemote ==
    /\ del.at = "remote"
    /\ tempo' = [tempo EXCEPT ![del.tempo] = Null]
    /\ del' = [del EXCEPT !.at = "local"]
    /\ UNCHANGED <<rows, lastId, line, already, issued, hand, sync>>

DeleteLocal ==
    /\ Unlocked /\ del.at = "local"
    /\ rows' = [rows EXCEPT ![del.id] = Null]
    /\ del' = NoDelete
    /\ UNCHANGED <<lastId, line, already, tempo, issued, hand, sync>>

DeleteAborts ==
    /\ del.at # "idle"
    /\ del' = NoDelete
    /\ UNCHANGED <<rows, lastId, line, already, tempo, issued, hand, sync>>

(* In Tempo's own UI. *)
EnterByHand(k, m, t) ==
    /\ issued < MaxWorklogs
    /\ issued' = issued + 1
    /\ tempo' = [tempo EXCEPT ![issued + 1] = [ticket |-> k, total |-> m, text |-> t]]
    /\ hand' = hand \cup {issued + 1}
    /\ UNCHANGED <<rows, lastId, line, already, sync, del>>

OwnerStep ==
    \/ \E i \in Blocks, d \in Minutes : Resize(i, d)
    \/ \E i \in Blocks, t \in Texts : Reword(i, t)
    \/ \E i \in Blocks, k \in Tickets : Reassign(i, k)
    \/ \E i \in Blocks, p \in BOOLEAN : SetPersonal(i, p)
    \/ \E k \in Tickets, d \in Minutes, t \in Texts : LogTime(k, d, t)
    \/ \E k \in Tickets, t \in Texts \cup {Null} : SetText(k, t)
    \/ \E k \in Tickets, h \in Hours \cup {Null} : SetHours(k, h)
    \/ \E i \in Blocks, credentials \in BOOLEAN : DeleteFetch(i, credentials)
    \/ \E k \in Tickets, m \in Minutes, t \in Texts : EnterByHand(k, m, t)

DeleteStep == DeleteRemote \/ DeleteLocal \/ DeleteAborts

Next ==
    \/ \E s \in Syncers :
          \/ SyncStep(s) \/ Refuse(s) \/ Abort(s)
          \/ \E k \in Tickets : Unresolved(s, k)
    \/ OwnerStep
    \/ DeleteStep

Spec == Init /\ [][Next]_vars

-----------------------------------------------------------------------------
(* Properties. *)

Quiet == (\A s \in Syncers : sync[s] = Idle) /\ del = NoDelete

(* Every row of the line was sent and none was edited since. *)
Settled(k) ==
    Line(k) # {} /\ \A i \in Line(k) : Synced(rows[i]) /\ ~rows[i].dirty

(* Between runs, a line with nothing left to send is in Tempo exactly as   *)
(* it is here, ticket, hours and text, whatever failed on the way: what is *)
(* not exact is eligible, so that another sync repairs it.  (tempo.rs:3)   *)
SettledLineIsExact ==
    Quiet => \A k \in Tickets :
        Settled(k) /\ SharedId(k) => \A w \in LineIds(k) : tempo[w] = Content(k)

(* No step of worklog's changes or deletes what the owner entered by hand. *)
HandEntriesUntouched ==
    [][\A w \in hand : tempo'[w] = tempo[w]]_vars

(* A sync loses track of no worklog: an id on some row before a step of a  *)
(* run is on some row after it.  (tempo.rs:15, "we never silently delete   *)
(* or merge their entries")                                                *)
SyncKeepsIds ==
    [][\A s \in Syncers : SyncStep(s) =>
          \A i \in Live : Synced(rows[i]) =>
              \E j \in Blocks : rows'[j] # Null /\ rows'[j].tempo = rows[i].tempo]_vars
=============================================================================
