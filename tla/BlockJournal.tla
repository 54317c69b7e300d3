---------------------------- MODULE BlockJournal ----------------------------
(***************************************************************************)
(* One day's blocks, the owner's edits to them, the journal `undo` reads,  *)
(* and the writers that bypass the journal: the rebuild, the estimator,    *)
(* the sync and the billing export.                                        *)
(*                                                                         *)
(* Each action is one request served under the daemon's connection lock,   *)
(* or one CLI command, with the whole handler in the step: the journal     *)
(* entry, the write, the seal.                                             *)
(***************************************************************************)
EXTENDS BlockRow, Integers, Sequences, FiniteSetsExt

CONSTANTS
    Minutes,       \* lengths the owner and the estimator choose from
    HandStarts,    \* times of day the owner logs by hand at
    UndoDepth,     \* UNDO_DEPTH
    MaxId,         \* bound: no action uses a block id above it
    MaxMinutes,    \* bound: no merge sums to more
    Build(_)       \* infer_allocations::build_day_blocks: events to a sequence
                   \* of [start, end, ticket, cal, events] blocks

VARIABLES
    blocks,        \* id -> Row, or Null for an id not in the table
    nextId,        \* AUTOINCREMENT: an id is never used twice
    collected,     \* the events collected so far
    journal        \* block_undo, oldest entry first

vars == <<blocks, nextId, collected, journal>>

Ids == 1 .. MaxId

Built == {b \in [start : Nat, end : Nat, ticket : Tickets \cup {Null},
                 cal : BOOLEAN, events : (SUBSET Events) \ {{}}] : b.start <= b.end}

ASSUME BuildAssumption == \A E \in SUBSET Events : Build(E) \in Seq(Built)

ASSUME BoundsAssumption ==
    /\ UndoDepth \in Nat \ {0} /\ MaxId \in Nat /\ MaxMinutes \in Nat
    /\ Minutes \subseteq Nat /\ HandStarts \subseteq Nat
    /\ MeetingTicket \in Tickets
    /\ \A e \in Events : e.at \in Nat /\ e.key \in Tickets \cup {Null}

Table == [Ids -> Row \cup {Null}]

Entry == [before : Table, after : Table, created : SUBSET Ids]

RowsOf(table) == {i \in Ids : table[i] # Null}

Only(table, S) == [i \in Ids |-> IF i \in S THEN table[i] ELSE Null]

TypeOK ==
    /\ blocks \in Table
    /\ nextId \in 1 .. MaxId + 1
    /\ collected \in SUBSET Events
    /\ journal \in Seq(Entry)

Init ==
    /\ blocks = [i \in Ids |-> Null]
    /\ nextId = 1
    /\ collected = {}
    /\ journal = <<>>

-----------------------------------------------------------------------------
Live == RowsOf(blocks)

(* record, then seal: the rows before the change and the rows it left of   *)
(* them, trimmed to the newest UndoDepth entries.                          *)
Journaled(touched, table, created) ==
    LET entry == [before  |-> Only(blocks, touched),
                  after   |-> Only(table, touched),
                  created |-> created]
        all   == Append(journal, entry)
    IN  journal' = IF Len(all) > UndoDepth THEN Tail(all) ELSE all

Change(touched, table, created) ==
    /\ blocks' = table
    /\ Journaled(touched, table, created)
    /\ nextId' = nextId + Cardinality(created)
    /\ UNCHANGED collected

Edit(i, row) == Change({i}, [blocks EXCEPT ![i] = row], {})

-----------------------------------------------------------------------------
(* The owner's journaled changes. *)

AssignTicket(i, k) == Edit(i, Assigned(blocks[i], k))

ClearTicket(i) == Edit(i, Cleared(blocks[i]))

SetDuration(i, d) == Edit(i, Resized(blocks[i], d))

SetDescription(i, t) == Edit(i, Reworded(blocks[i], t))

SetPersonal(i, p) == Edit(i, [blocks[i] EXCEPT !.personal = p])

Ignore(i) ==
    /\ ~Synced(blocks[i]) /\ ~blocks[i].exported
    /\ Edit(i, Ignored(blocks[i]))

Unignore(i) == Edit(i, Unignored(blocks[i]))

DeleteBlock(i) == Change({i}, [blocks EXCEPT ![i] = Null], {})

MergeSynced(p, absorbed) ==   \* mutant
    /\ absorbed # {} /\ p \notin absorbed
    /\ Change(absorbed \cup {p}, Only(blocks, Ids \ absorbed), {})

Merge(p, absorbed) ==
    /\ absorbed # {} /\ p \notin absorbed
    /\ \A i \in absorbed : ~Synced(blocks[i])
    /\ LET all   == absorbed \cup {p}
           start == Min({blocks[i].start : i \in all})
           total == MapThenSumSet(LAMBDA i : blocks[i].dur, all)
       IN  /\ total \in 0 .. MaxMinutes
           /\ Change(all,
                  [Only(blocks, Ids \ absorbed) EXCEPT
                      ![p] = Absorbing(@, start, total,
                                       UNION {blocks[i].events : i \in absorbed})],
                  {})

Split(i, d) ==
    /\ 0 < d /\ d < blocks[i].dur
    /\ nextId <= MaxId
    /\ Change({i},
              [blocks EXCEPT ![i] = FirstHalf(@, d),
                             ![nextId] = SecondHalf(blocks[i], d)],
              {nextId})

OwnerChange ==
    \E i \in Live :
        \/ \E k \in Tickets : AssignTicket(i, k)
        \/ ClearTicket(i)
        \/ \E d \in Minutes : SetDuration(i, d)
        \/ \E t \in Texts : SetDescription(i, t)
        \/ \E p \in BOOLEAN : SetPersonal(i, p)
        \/ Ignore(i)
        \/ Unignore(i)
        \/ DeleteBlock(i)
        \/ \E S \in SUBSET Live : Merge(i, S)
        \/ \E d \in Minutes : Split(i, d)

-----------------------------------------------------------------------------
(* undo_last: refuse, discard a stale entry, or put the before-image back. *)

Newest == journal[Len(journal)]

Older == SubSeq(journal, 1, Len(journal) - 1)

LiveSynced(i) == i \in Live /\ Synced(blocks[i])

Refused(entry) ==
    \/ \E i \in RowsOf(entry.before) : Synced(entry.before[i]) \/ LiveSynced(i)
    \/ \E i \in entry.created : LiveSynced(i)

(* `comparable`: the columns a stale check looks at. *)
ComparableExport(row) == [row EXCEPT !.tempo = Null, !.events = {}]   \* mutant

Comparable(row) == [row EXCEPT !.tempo = Null, !.exported = FALSE, !.events = {}]

Stale(entry) ==
    \E i \in RowsOf(entry.before) :
        \/ (i \in Live) # (i \in RowsOf(entry.after))
        \/ /\ i \in Live
           /\ Comparable(blocks[i]) # Comparable(entry.after[i])

(* write_block and restore_satellites: a live block keeps its markers, a   *)
(* re-inserted one gets no Tempo id back.                                  *)
RewrittenWhole(entry, i) == entry.before[i]   \* mutant

Rewritten(entry, i) ==
    IF i \in Live
    THEN [entry.before[i] EXCEPT !.tempo = blocks[i].tempo,
                                 !.exported = blocks[i].exported]
    ELSE [entry.before[i] EXCEPT !.tempo = Null]

RestoredBesideTail(entry) ==   \* mutant
    [i \in Ids |-> IF i \in RowsOf(entry.before) THEN Rewritten(entry, i) ELSE blocks[i]]

Restored(entry) ==
    [i \in Ids |-> IF i \in RowsOf(entry.before) THEN Rewritten(entry, i)
                   ELSE IF i \in entry.created THEN Null ELSE blocks[i]]

UndoStale ==
    /\ journal # <<>> /\ ~Refused(Newest) /\ Stale(Newest)
    /\ journal' = Older
    /\ UNCHANGED <<blocks, nextId, collected>>

UndoRestores ==
    /\ journal # <<>> /\ ~Refused(Newest) /\ ~Stale(Newest)
    /\ blocks' = Restored(Newest)
    /\ journal' = Older
    /\ UNCHANGED <<nextId, collected>>

UndoLast == UndoStale \/ UndoRestores

-----------------------------------------------------------------------------
(* persist_blocks.  The day's blocks, but those logged by hand, are        *)
(* replaced by what the events build, and what the owner, the estimator    *)
(* and the sync put on a prior row is carried onto one new block.          *)

Kept == {i \in Live : HandLogged(blocks[i])}

Priors == Live \ Kept

PriorBefore(p, q) ==
    \/ blocks[p].start < blocks[q].start
    \/ blocks[p].start = blocks[q].start /\ p < q

(* cut_at_ticket_edges: a block covering priors of different tickets is    *)
(* cut where each later one began.                                         *)
TicketedOver(b) ==
    {p \in Priors : /\ blocks[p].ticket # Null
                    /\ Overlaps(blocks[p].start, blocks[p].end, b.start, b.end)}

TicketChanges(b) ==
    {q \in TicketedOver(b) :
        \E p \in TicketedOver(b) :
            /\ PriorBefore(p, q) /\ blocks[p].ticket # blocks[q].ticket
            /\ \A r \in TicketedOver(b) : ~(PriorBefore(p, r) /\ PriorBefore(r, q))}

Edges(b) ==
    {b.start, b.end} \cup
    {t \in {blocks[p].start : p \in TicketChanges(b)} : b.start < t /\ t < b.end}

Distance(e, t) == IF e.at > t THEN e.at - t ELSE t - e.at

Located(events) == {e \in events : e.project # Null}

Closer(e, f, t) ==
    \/ Distance(e, t) < Distance(f, t)
    \/ Distance(e, t) = Distance(f, t) /\ e.at < f.at

(* span_block: a piece with no event of its own in a folder borrows the    *)
(* nearest one.                                                            *)
PieceEvents(b, from, to) ==
    LET own == {e \in b.events : from <= e.at /\ e.at < to}
    IN  IF Located(own) # {} THEN own
        ELSE own \cup {CHOOSE e \in Located(b.events) :
                           \A f \in Located(b.events) : ~Closer(f, e, from)}

(* unique_jira_issue: a session's start or end has a say only among such.  *)
KeyOf(events) ==
    LET real == {e \in events : e.kind # "lifecycle"}
        keys == {e.key : e \in IF real = {} THEN events ELSE real} \ {Null}
    IN  IF Cardinality(keys) = 1 THEN CHOOSE k \in keys : TRUE ELSE Null

Gaps(b) ==
    {w \in Edges(b) \X Edges(b) :
        w[1] < w[2] /\ \A x \in Edges(b) : x <= w[1] \/ w[2] <= x}

Piece(b, from, to) ==
    LET events == PieceEvents(b, from, to)
    IN  [b EXCEPT !.start = from, !.end = to, !.events = events, !.ticket = KeyOf(events)]

CutNever(n, b) == {[built |-> b, of |-> n]}   \* mutant

IsCut(b) == ~b.cal /\ TicketChanges(b) # {}

(* Cut, a block with no event in a folder comes to no piece at all.        *)
Vanishes(b) == IsCut(b) /\ Located(b.events) = {}

Cut(n, b) ==
    IF ~IsCut(b) THEN {[built |-> b, of |-> n]}
    ELSE IF Vanishes(b) THEN {}
    ELSE {[built |-> Piece(b, w[1], w[2]), of |-> n] : w \in Gaps(b)}

Pieces ==
    LET day == Build(collected) IN UNION {Cut(n, day[n]) : n \in DOMAIN day}

(* The order persist_blocks inserts in. *)
PieceBefore(p, q) ==
    p.of < q.of \/ (p.of = q.of /\ p.built.start < q.built.start)

(* The prior row a piece carries, given what earlier pieces carried: the   *)
(* one with its exact start (the last such row), else an unclaimed one it  *)
(* overlaps, a ticketed one first.                                         *)
ExactPriors(p) == {i \in Priors : blocks[i].start = p.built.start}

Claimed(pieces, p, carried) ==
    {blocks[i].start : i \in {j \in Priors : \E q \in pieces :
        \/ q.built.start = blocks[j].start
        \/ PieceBefore(q, p) /\ carried[q] = j}}

OverlappingPriors(pieces, p, carried) ==   \* mutant
    {i \in Priors : Overlaps(blocks[i].start, blocks[i].end, p.built.start, p.built.end)}

OpenPriors(pieces, p, carried) ==
    {i \in Priors :
        /\ Overlaps(blocks[i].start, blocks[i].end, p.built.start, p.built.end)
        /\ blocks[i].start \notin Claimed(pieces, p, carried)}

FirstPrior(S) == CHOOSE i \in S : \A j \in S \ {i} : PriorBefore(i, j)

CarriedBy(pieces, p, carried) ==
    LET exact    == ExactPriors(p)
        open     == OpenPriors(pieces, p, carried)
        ticketed == {i \in open : blocks[i].ticket # Null}
    IN  CASE exact # {}                     -> CHOOSE i \in exact : \A j \in exact : j <= i
          [] exact = {} /\ ticketed # {}    -> FirstPrior(ticketed)
          [] exact = {} /\ ticketed = {} /\ open # {} -> FirstPrior(open)
          [] OTHER                          -> Null

(* The row inserted for a built block that carries prior row c, or Null. *)
FreshRow(b) ==
    [start |-> b.start, end |-> b.end, dur |-> b.end - b.start,
     ticket |-> b.ticket, origin |-> IF b.ticket = Null THEN Null ELSE "event",
     text |-> Null, by |-> Null, described |-> Null, tempo |-> Null,
     dirty |-> FALSE, personal |-> FALSE, ignored |-> FALSE,
     exported |-> FALSE, events |-> b.events]

CarryTicketUnmarked(row, c) ==   \* mutant
    IF c.origin = "manual" THEN [row EXCEPT !.ticket = c.ticket] ELSE row

CarryTicket(row, c) ==
    IF c.origin = "manual" \/ c.ticket # Null
    THEN [row EXCEPT !.ticket = c.ticket, !.origin = c.origin] ELSE row

CarryText(row, c) ==
    LET length == IF c.described = Null THEN c.end - c.start ELSE c.described
    IN  IF KeepsDescription(length, row.end - row.start, c.by)
        THEN [row EXCEPT !.text = c.text, !.by = c.by, !.described = c.described]
        ELSE row

CarriedRow(b, c) ==
    [CarryText(CarryTicket(FreshRow(b), c), c) EXCEPT
        !.tempo = c.tempo, !.exported = c.exported,
        !.ignored = c.ignored, !.personal = c.ignored]

NewRow(p, c) == IF c = Null THEN FreshRow(p.built) ELSE CarriedRow(p.built, blocks[c])

Rebuild ==
    /\ UNCHANGED <<collected, journal>>
    /\ LET pieces == Pieces
           id(p)  == nextId + Cardinality({q \in pieces : PieceBefore(q, p)})
           at(i)  == CHOOSE p \in pieces : id(p) = i
       IN  /\ nextId' = nextId + Cardinality(pieces)
           /\ nextId' \in 1 .. MaxId + 1
           /\ \E carried \in [pieces -> Priors \cup {Null}] :
                  /\ \A p \in pieces : carried[p] = CarriedBy(pieces, p, carried)
                  /\ blocks' = [i \in Ids |->
                        IF \E p \in pieces : id(p) = i THEN NewRow(at(i), carried[at(i)])
                        ELSE IF i \in Kept THEN blocks[i] ELSE Null]

-----------------------------------------------------------------------------
(* The other writers, none of them journaled. *)

Unjournaled(table) ==
    /\ blocks' = table
    /\ UNCHANGED <<nextId, collected, journal>>

(* A collector upserts an event. *)
Collect(e) ==
    /\ e \notin collected
    /\ collected' = collected \cup {e}
    /\ UNCHANGED <<blocks, nextId, journal>>

(* ticket_log::log_time *)
LogTime(k, start, d, t) ==
    /\ nextId <= MaxId
    /\ blocks' = [blocks EXCEPT ![nextId] =
                 [start |-> start, end |-> start + d, dur |-> d, ticket |-> k,
                  origin |-> "manual", text |-> t, by |-> "manual",
                  described |-> d, tempo |-> Null, dirty |-> FALSE,
                  personal |-> FALSE, ignored |-> FALSE, exported |-> FALSE,
                  events |-> {}]]
    /\ nextId' = nextId + 1
    /\ UNCHANGED <<collected, journal>>

(* The estimate of one block, asked for by the owner; round_minutes caps   *)
(* the claim at the block's span.                                          *)
Span(b) == b.end - b.start

EstimateBlock(i, t, d, k) ==
    /\ ~blocks[i].personal
    /\ d <= Span(blocks[i])
    /\ Unjournaled([blocks EXCEPT ![i] = Estimated(@, t, d, k, Span(@))])

(* A sync that sent the line of ticket k to worklog w: every block of the  *)
(* line, sent before or not, gets the id.  (TempoSync has the requests.)   *)
Line(k) == {i \in Live : blocks[i].ticket = k /\ ~blocks[i].personal}

LineIds(k) == {blocks[i].tempo : i \in Line(k)} \ {Null}

LineSent(k, w) ==
    /\ \E i \in Line(k) : ~Synced(blocks[i]) \/ blocks[i].dirty
    /\ IF LineIds(k) = {} THEN \A i \in Live : blocks[i].tempo # w
       ELSE LineIds(k) = {w}
    /\ Unjournaled([i \in Ids |-> IF i \in Line(k) THEN SentAs(blocks[i], w)
                                  ELSE blocks[i]])

MarkExported ==
    /\ \E i \in Live : ~blocks[i].exported
    /\ Unjournaled([i \in Ids |-> IF i \in Live THEN [blocks[i] EXCEPT !.exported = TRUE]
                                  ELSE Null])

OtherWriter ==
    \/ Rebuild
    \/ \E k \in Tickets, s \in HandStarts, d \in Minutes, t \in Texts :
           LogTime(k, s, d, t)
    \/ \E i \in Live, t \in Texts, d \in Minutes, k \in Tickets \cup {Null} :
           EstimateBlock(i, t, d, k)
    \/ \E k \in Tickets, w \in Worklogs : LineSent(k, w)
    \/ MarkExported

Next ==
    \/ OwnerChange
    \/ UndoLast
    \/ \E e \in Events : Collect(e)
    \/ OtherWriter

Spec == Init /\ [][Next]_vars

-----------------------------------------------------------------------------
(* Properties. *)

WorklogIds(table) == {table[i].tempo : i \in RowsOf(table)} \ {Null}

(* The time logged on a row fits between its start and its end, and only a *)
(* sent row is marked as edited: of the rows, and of those undo may put    *)
(* back.  (block_service.rs:297)                                           *)
RowOK(b) == b.start + b.dur <= b.end /\ (b.dirty => Synced(b))

GoodRow == {b \in Row : RowOK(b)}

GoodTable == [Ids -> GoodRow \cup {Null}]

GoodEntry == [before : GoodTable, after : GoodTable, created : SUBSET Ids]

RowsAreGood == blocks \in GoodTable /\ journal \in Seq(GoodEntry)

(* No change of the owner's, and no undo of one, drops a Tempo worklog id  *)
(* from the day, but a delete, which the daemon answers by deleting the    *)
(* worklog first.  (merge_blocks' refusal, undo_last's refusals)           *)
EditsKeepWorklogs ==
    [][(OwnerChange \/ UndoLast) =>
          \/ WorklogIds(blocks) \subseteq WorklogIds(blocks')
          \/ \E i \in Live : DeleteBlock(i)]_vars

(* Undo changes no sent or exported marker of a row that lives through it, *)
(* takes away no sent row, and brings no marker back with a row it         *)
(* re-inserts.  (spec 018 FR-28, undo.rs SKIP_COLUMNS)                     *)
UndoKeepsMarkers ==
    [][UndoLast =>
          /\ \A i \in Live \cap RowsOf(blocks') :
                /\ blocks'[i].tempo = blocks[i].tempo
                /\ blocks'[i].exported = blocks[i].exported
          /\ \A i \in Live \ RowsOf(blocks') : ~Synced(blocks[i])
          /\ \A i \in RowsOf(blocks') \ Live : ~Synced(blocks'[i])]_vars

LoggedMinutes(table) == MapThenSumSet(LAMBDA i : table[i].dur, RowsOf(table))

LinkedOnce(table) ==
    \A i, j \in RowsOf(table) : i # j => table[i].events \cap table[j].events = {}

(* Splitting and merging move logged time and linked events between rows:  *)
(* no minute is made or lost, no event comes to count in two rows.         *)
(* (merge_blocks, split_block)                                             *)
SplitAndMergeMoveTime ==
    [][\A i \in Live :
          (\E d \in Minutes : Split(i, d)) \/ (\E S \in SUBSET Live : Merge(i, S))
              => /\ LoggedMinutes(blocks') = LoggedMinutes(blocks)
                 /\ LinkedOnce(blocks) => LinkedOnce(blocks')]_vars

(* Undo never makes one event count in two rows.  (undo_test.rs:365)       *)
UndoLinksOnce == [][UndoRestores /\ LinkedOnce(blocks) => LinkedOnce(blocks')]_vars

TicketsOf(table) == {table[i].ticket : i \in RowsOf(table)} \ {Null}

(* The tickets on time the events still cover, by a block that is there    *)
(* after the cut.                                                          *)
RebuiltOver(i) ==
    \E n \in DOMAIN Build(collected) :
        LET b == Build(collected)[n]
        IN  ~Vanishes(b) /\ Overlaps(b.start, b.end, blocks[i].start, blocks[i].end)

(* On a day on which every row has a ticket, and events or the owner's     *)
(* word behind it, a rebuild loses no ticket: where two meet in one built  *)
(* block, the block is cut.  (infer_carry.rs:1; a block none of whose      *)
(* events has a folder cannot be cut, and vanishes)                        *)
FusedTicketsSurvive ==
    [][Rebuild /\ (\A i \in Live : /\ blocks[i].ticket # Null
                                   /\ HandLogged(blocks[i]) \/ blocks[i].events # {}) =>
          {blocks[i].ticket : i \in {j \in Live : RebuiltOver(j)}}
              \subseteq TicketsOf(blocks')]_vars

(* A rebuild leaves the rows it cannot rebuild from events alone: no time  *)
(* logged by hand goes with it.  (ticket_log.rs:1, infer.rs:564)           *)
LoggedTimeStays ==
    [][Rebuild => \A i \in Live : blocks[i].events = {} => i \in RowsOf(blocks')]_vars

DistinctStarts(pieces) ==
    \A p, q \in pieces : p # q => p.built.start # q.built.start

(* A rebuild of blocks that start at different minutes never lets two rows *)
(* inherit one worklog that a single row had.  (infer.rs:648)              *)
RebuildInheritsOnce ==
    [][Rebuild /\ DistinctStarts(Pieces) => \A w \in Worklogs :
          Cardinality({i \in RowsOf(blocks') : blocks'[i].tempo = w})
              <= Cardinality({i \in Live : blocks[i].tempo = w})]_vars

(* A rebuild forgets no edit that the next sync still has to send: a       *)
(* worklog with an edited row keeps one.  (schema.sql:100)                 *)
RebuildKeepsPending ==
    [][Rebuild => \A i \in Live : blocks[i].dirty =>
          \E j \in RowsOf(blocks') : blocks'[j].tempo = blocks[i].tempo /\ blocks'[j].dirty]_vars

(* No edit or undo changes the time, ticket or text of a sent row without  *)
(* marking it for the next sync, whichever of the day's other rows it      *)
(* takes along.  (MARK_DIRTY_IF_SYNCED; schema.sql:100)                    *)
EditsMarkSentRows ==
    [][(OwnerChange \/ UndoLast) => \A i \in Live \cap RowsOf(blocks') :
          /\ Synced(blocks[i])
          /\ \/ blocks'[i].dur # blocks[i].dur
             \/ blocks'[i].ticket # blocks[i].ticket
             \/ blocks'[i].text # blocks[i].text
          => blocks'[i].dirty]_vars
=============================================================================
