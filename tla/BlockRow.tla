------------------------------ MODULE BlockRow ------------------------------
(***************************************************************************)
(* One row of the `blocks` table of worklog's database, and what each      *)
(* statement of block_service.rs, estimate.rs and collectors/tempo.rs      *)
(* writes into it.  The rows of block_events that link a block to its      *)
(* events are the row's field `events`.  Times and durations are minutes.  *)
(***************************************************************************)
EXTENDS Naturals, FiniteSets

CONSTANTS
    Tickets,    \* Jira keys
    Texts,      \* descriptions
    Worklogs,   \* Tempo worklog ids
    MeetingTicket, \* the key configured for internal meetings
    Events,     \* rows of the events table: [at, until, cal, key] records
    Null        \* SQL NULL (and the empty string, which the code treats alike)

ASSUME NullAssumption == Null \notin Tickets \cup Texts \cup Worklogs \cup Nat

Origins == {"event", "auto", "manual", Null}
Authors == {"claude_p", "manual", "gap", Null}

Row == [start     : Nat,
        end       : Nat,
        dur       : Nat,
        ticket    : Tickets \cup {Null},
        origin    : Origins,
        text      : Texts \cup {Null},
        by        : Authors,
        described : Nat \cup {Null},
        tempo     : Worklogs \cup {Null},
        dirty     : BOOLEAN,
        personal  : BOOLEAN,
        ignored   : BOOLEAN,
        exported  : BOOLEAN,
        events    : SUBSET Events]

ASSUME NoRowIsNull == Null \notin Row

(* block_service::is_synced: the row carries a Tempo worklog id. *)
Synced(b) == b.tempo # Null

(* MARK_DIRTY_IF_SYNCED: an unsynced row is picked up by the next sync     *)
(* anyway and keeps its flag.                                              *)
MarkDirtyAlways(b) == [b EXCEPT !.dirty = TRUE]   \* mutant

MarkDirty(b) == [b EXCEPT !.dirty = IF Synced(b) THEN TRUE ELSE b.dirty]

-----------------------------------------------------------------------------
(* What the owner's edits write. *)

Assigned(b, k) ==
    MarkDirty([b EXCEPT !.ticket = k, !.origin = "manual", !.personal = FALSE])

Cleared(b) == MarkDirty([b EXCEPT !.ticket = Null, !.origin = "manual"])

Resized(b, d) ==
    MarkDirty([b EXCEPT !.dur = d, !.end = b.start + d, !.by = "manual"])

Reworded(b, t) == MarkDirty([b EXCEPT !.text = t, !.by = "manual"])

Ignored(b) == [b EXCEPT !.ignored = TRUE, !.personal = TRUE]

Unignored(b) == [b EXCEPT !.ignored = FALSE, !.personal = FALSE]

(* split_block: the block keeps its first d minutes, the tail is a fresh   *)
(* unsynced row that inherits ticket, text and personal flag only.  The    *)
(* tail ends where the block's ended_at said, whatever its duration.       *)
FirstHalfKeepsEvents(b, d) == Resized(b, d)   \* mutant

FirstHalfUnmarked(b, d) ==   \* mutant
    [b EXCEPT !.dur = d, !.end = b.start + d, !.by = "manual",
              !.events = {e \in @ : e.at < b.start + d}]

FirstHalf(b, d) == Resized([b EXCEPT !.events = {e \in @ : e.at < b.start + d}], d)

SecondHalfSwapped(b, d) ==   \* mutant
    [b EXCEPT !.start = b.start + d, !.dur = d - b.dur, !.tempo = Null,
              !.dirty = FALSE, !.events = {e \in @ : e.at >= b.start + d}]

SecondHalf(b, d) ==
    [b EXCEPT !.start = b.start + d, !.dur = b.dur - d, !.by = "manual",
              !.described = Null, !.tempo = Null, !.dirty = FALSE,
              !.ignored = FALSE, !.exported = FALSE,
              !.events = {e \in @ : e.at >= b.start + d}]

(* merge_blocks: the primary takes the earliest start, the summed duration *)
(* and every event; its end is derived from the two.                       *)
Absorbing(b, start, total, events) ==
    MarkDirty([b EXCEPT !.start = start, !.dur = total, !.end = start + total,
                        !.events = @ \cup events])

(* What the estimator's UPDATE writes, for a block that spanned `span`     *)
(* minutes when its prompt was built: a ticket set by hand, or the meeting *)
(* ticket found in the events, is kept.                                    *)
TicketKept(b) ==
    b.origin = "manual" \/ (b.origin = "event" /\ b.ticket = MeetingTicket)

Estimated(b, t, d, k, span) ==
    [b EXCEPT !.text = t, !.dur = d, !.by = "claude_p", !.described = span,
              !.ticket = IF TicketKept(b) THEN @ ELSE k,
              !.origin = IF TicketKept(b) \/ k = b.ticket THEN @
                         ELSE IF k = Null THEN Null ELSE "auto"]

(* What a finished sync writes. *)
SentAs(b, w) == [b EXCEPT !.tempo = w, !.dirty = FALSE]

-----------------------------------------------------------------------------
Overlaps(s1, e1, s2, e2) == s1 < e2 /\ s2 < e1

(* A block the owner logged by hand: a rebuild leaves it alone. *)
HandLogged(b) == b.by = "manual" /\ b.events = {}

(* infer_carry::keeps_description: a text is dropped when the block's      *)
(* length left what the text was written for; a manual text never is.      *)
KeepsDescription(priorLength, newLength, by) ==
    \/ by = "manual"
    \/ LET longer  == IF priorLength > newLength THEN priorLength ELSE newLength
           shorter == IF priorLength > newLength THEN newLength ELSE priorLength
       IN  longer - shorter < 30 /\ longer * 2 <= shorter * 3
=============================================================================
