---------------------------- MODULE Compression ----------------------------
(***************************************************************************)
(* The compression of old days (purge.rs, block_digest.rs) and those who   *)
(* work on the same rows: rebuilds of a day, collectors, the owner.  Days  *)
(* are numbered; the horizon is the first day that is not old.  The daemon *)
(* does one thing at a time (the connection lock), commands in a terminal  *)
(* run beside it and beside each other.                                    *)
(*                                                                         *)
(* A block is its place on its day: a rebuild that brings it again keeps   *)
(* it.  Blocks logged by hand and the journal of `undo` are BlockJournal's;*)
(* the transcript cache, sessions, pins and tickets, which the compression *)
(* deletes in the same transaction, are left out.                          *)
(***************************************************************************)
EXTENDS Naturals, FiniteSets

CONSTANTS
    None,
    Terminals,     \* processes beside the daemon
    Daemon,
    Slots,         \* places of blocks: [day, start]
    Events,        \* events: [slot, day]: the block a rebuild puts the event
                   \* in, and its own day, a later one after midnight
    LastHorizon,   \* bound of the clock
    MaxCommands,   \* bound: rebuilds, collections and commands begun
    MaxFailures    \* bound: compressions that fail or are killed

Block == [links : SUBSET Events, card : (SUBSET Events) \cup {None}]

ASSUME CompressionAssumption ==
    /\ LastHorizon \in Nat \ {0} /\ MaxCommands \in Nat /\ MaxFailures \in Nat
    /\ Daemon \notin Terminals
    /\ (\A S \in SUBSET Events : S # None) /\ None \notin Block
    /\ \A s \in Slots : s.day \in Nat
    /\ \A e \in Events : e.slot \in Slots /\ e.day \in Nat

VARIABLES
    horizon,    \* block_digest::horizon of today
    events,     \* the rows of `events`
    rows,       \* slot -> its block: linked events and card, or None
    preprune,   \* the events in the snapshot file, or None: no file
    latch,      \* meta `last_prune_cutoff`, or None
    doing,      \* process -> what it does
    commands, failures

compressionVars == <<horizon, events, rows, preprune, latch, doing, commands, failures>>

Processes == Terminals \cup {Daemon}

Days == {s.day : s \in Slots} \cup {e.day : e \in Events}

Cutoffs == 0 .. LastHorizon

(* "day" is also the cutoff of a compression, the start of a collection *)
Doing == [at : {"idle", "clear", "snapshot", "delete", "latch", "check", "write", "collect"},
          day : Nat, seen : SUBSET Events]

AtRest == [at |-> "idle", day |-> 0, seen |-> {}]

CompressionTypeOK ==
    /\ horizon \in 1 .. LastHorizon
    /\ events \in SUBSET Events
    /\ rows \in [Slots -> Block \cup {None}]
    /\ preprune \in (SUBSET Events) \cup {None}
    /\ latch \in Cutoffs \cup {None}
    /\ doing \in [Processes -> Doing]
    /\ commands \in 0 .. MaxCommands /\ failures \in 0 .. MaxFailures

CompressionInit ==
    /\ horizon = 1
    /\ events \in SUBSET Events
    /\ rows = [s \in Slots |-> None]
    /\ preprune = None /\ latch = None
    /\ doing = [p \in Processes |-> AtRest]
    /\ commands = 0 /\ failures = 0

-----------------------------------------------------------------------------
Live(s) == rows[s] # None

Carded(s) == Live(s) /\ rows[s].card # None

(* block_digest::day_is_compressed *)
DayIsCompressed(d) == \E s \in Slots : s.day = d /\ Carded(s)

IsAt(p, stage) == doing[p].at = stage

Begins(p, stage, day, seen) ==
    /\ IsAt(p, "idle")
    /\ doing' = [doing EXCEPT ![p] = [at |-> stage, day |-> day, seen |-> seen]]

Commanded == commands < MaxCommands /\ commands' = commands + 1

Continues(p, stage) == doing' = [doing EXCEPT ![p].at = stage]

Finishes(p) == doing' = [doing EXCEPT ![p] = AtRest]

-----------------------------------------------------------------------------
(* The compression: purge::run. *)

(* prune_if_due, each PRUNE_CHECK_INTERVAL, for today's horizon *)
PruneIfDue ==
    /\ latch # horizon
    /\ Begins(Daemon, "clear", horizon, {})
    /\ UNCHANGED <<horizon, events, rows, preprune, latch, commands, failures>>

(* `worklog db purge`, or with `--days` for any cutoff *)
Purge(p, cutoff) ==
    /\ Commanded
    /\ Begins(p, "clear", cutoff, {})
    /\ UNCHANGED <<horizon, events, rows, preprune, latch, failures>>

NothingCleared(p) ==   \* mutant
    /\ IsAt(p, "clear")
    /\ Continues(p, "snapshot")
    /\ UNCHANGED <<horizon, events, rows, preprune, latch, commands, failures>>

(* the snapshot of the last run is removed *)
ClearSnapshot(p) ==
    /\ IsAt(p, "clear")
    /\ preprune' = None
    /\ Continues(p, "snapshot")
    /\ UNCHANGED <<horizon, events, rows, latch, commands, failures>>

(* VACUUM INTO refuses to overwrite a file *)
TakeSnapshot(p) ==
    /\ IsAt(p, "snapshot")
    /\ IF preprune = None THEN preprune' = events /\ Continues(p, "delete")
       ELSE Finishes(p) /\ UNCHANGED preprune
    /\ UNCHANGED <<horizon, events, rows, latch, commands, failures>>

BeforeHorizon(cutoff) == {e \in events : e.day < cutoff}   \* mutant

(* EVENT_IS_EXPIRED *)
Expired(cutoff) ==
    {e \in events : /\ e.day < cutoff
                    /\ \A s \in Slots : Live(s) /\ s.day >= cutoff => e \notin rows[s].links}

(* card_old_blocks, write_digest: a card, once written, is never replaced *)
CardOf(s, cutoff) ==
    IF s.day < cutoff /\ ~Carded(s) THEN rows[s].links ELSE rows[s].card

(* purge_rows: one transaction *)
PurgeRows(p) ==
    /\ IsAt(p, "delete")
    /\ LET gone == Expired(doing[p].day) IN
       /\ events' = events \ gone
       /\ rows' = [s \in Slots |->
              IF Live(s) THEN [links |-> rows[s].links \ gone, card |-> CardOf(s, doing[p].day)]
              ELSE None]
    /\ IF p = Daemon THEN Continues(p, "latch") ELSE Finishes(p)
    /\ UNCHANGED <<horizon, preprune, latch, commands, failures>>

SetLatch ==
    /\ IsAt(Daemon, "latch")
    /\ latch' = doing[Daemon].day
    /\ Finishes(Daemon)
    /\ UNCHANGED <<horizon, events, rows, preprune, commands, failures>>

(* An error, or the process is killed: the transaction is rolled back, and *)
(* the latch stays as it was.                                              *)
PruneFails(p) ==
    /\ \E stage \in {"clear", "snapshot", "delete", "latch"} : IsAt(p, stage)
    /\ failures < MaxFailures /\ failures' = failures + 1
    /\ Finishes(p)
    /\ UNCHANGED <<horizon, events, rows, preprune, latch, commands>>

PruneStep(p) == ClearSnapshot(p) \/ TakeSnapshot(p) \/ PurgeRows(p)

-----------------------------------------------------------------------------
(* A rebuild: infer_allocations::build_day_blocks reads the events, then   *)
(* persist_blocks asks for cards, and then its transaction begins.         *)

Rebuild(p, d) ==
    /\ Commanded
    /\ Begins(p, "check", d, events)
    /\ UNCHANGED <<horizon, events, rows, preprune, latch, failures>>

CheckDay(p) ==
    /\ IsAt(p, "check")
    /\ IF DayIsCompressed(doing[p].day) THEN Finishes(p) ELSE Continues(p, "write")
    /\ UNCHANGED <<horizon, events, rows, preprune, latch, commands, failures>>

(* the events that were read and go into the block *)
LinksOf(p, s) == {e \in doing[p].seen : e.slot = s}

LinksAreIgnored(p) == TRUE   \* mutant

(* the foreign key of block_events: every event is still there *)
LinksHold(p) ==
    \A s \in Slots : s.day = doing[p].day => LinksOf(p, s) \subseteq events

WriteDay(p) ==
    /\ IsAt(p, "write")
    /\ rows' = [s \in Slots |->
           IF s.day # doing[p].day \/ ~LinksHold(p) THEN rows[s]
           ELSE IF LinksOf(p, s) = {} THEN None
           ELSE [links |-> LinksOf(p, s) \cap events, card |-> None]]
    /\ Finishes(p)
    /\ UNCHANGED <<horizon, events, preprune, latch, commands, failures>>

RebuildStep(p) == CheckDay(p) \/ WriteDay(p)

-----------------------------------------------------------------------------
(* collect_since: not from before the horizon, as it was at the start *)
Collect(p, requested) ==
    /\ Commanded
    /\ Begins(p, "collect", IF requested > horizon THEN requested ELSE horizon, {})
    /\ UNCHANGED <<horizon, events, rows, preprune, latch, failures>>

CollectEvent(p, e) ==
    /\ IsAt(p, "collect") /\ e.day >= doing[p].day
    /\ events' = events \cup {e}
    /\ UNCHANGED <<horizon, rows, preprune, latch, doing, commands, failures>>

CollectEnds(p) ==
    /\ IsAt(p, "collect")
    /\ Finishes(p)
    /\ UNCHANGED <<horizon, events, rows, preprune, latch, commands, failures>>

(* block_service::delete_block, merge_blocks; elsewhere::move_into_block.  *)
(* They do not ask whether the day is compressed.                          *)
DeleteBlock(s) ==
    /\ Commanded /\ Live(s)
    /\ rows' = [rows EXCEPT ![s] = None]
    /\ UNCHANGED <<horizon, events, preprune, latch, doing, failures>>

MergeBlocks(s, absorbed) ==
    /\ Commanded /\ s # absorbed /\ s.day = absorbed.day /\ Live(s) /\ Live(absorbed)
    /\ rows' = [rows EXCEPT ![s].links = @ \cup rows[absorbed].links, ![absorbed] = None]
    /\ UNCHANGED <<horizon, events, preprune, latch, doing, failures>>

MoveIntoBlock(e, s) ==
    /\ Commanded /\ e \in events /\ Live(s)
    /\ rows' = [rows EXCEPT ![s].links = @ \cup {e}]
    /\ UNCHANGED <<horizon, events, preprune, latch, doing, failures>>

Midnight ==
    /\ horizon < LastHorizon /\ horizon' = horizon + 1
    /\ UNCHANGED <<events, rows, preprune, latch, doing, commands, failures>>

CompressionNext ==
    \/ PruneIfDue \/ SetLatch \/ Midnight
    \/ \E p \in Processes :
          \/ PruneStep(p) \/ PruneFails(p) \/ RebuildStep(p) \/ CollectEnds(p)
          \/ \E e \in Events : CollectEvent(p, e)
          \/ \E d \in Days : Rebuild(p, d)
    \/ \E p \in Terminals :
          \/ \E c \in Cutoffs : Purge(p, c)
          \/ \E d \in Days : Collect(p, d)
    \/ \E s \in Slots :
          \/ DeleteBlock(s)
          \/ \E t \in Slots : MergeBlocks(s, t)
          \/ \E e \in Events : MoveIntoBlock(e, s)

CompressionSpec == CompressionInit /\ [][CompressionNext]_compressionVars

(* The loop of spawn_prune_loop never ends; what was begun is carried on.  *)
CompressionFairness ==
    /\ WF_compressionVars(PruneIfDue) /\ WF_compressionVars(SetLatch)
    /\ WF_compressionVars(PruneStep(Daemon) \/ RebuildStep(Daemon))
    /\ WF_compressionVars(Midnight)

-----------------------------------------------------------------------------
(* What a block showed of its work is not lost when the raw events are     *)
(* deleted: a block keeps each of its events, or it has a card, and the    *)
(* card holds them unless it is older than they are; whatever runs beside  *)
(* the compression, for blocks that began before midnight, and for events  *)
(* the owner moved into another day (EVENT_IS_EXPIRED; cards first).       *)
EvidenceOutlivesEvents ==
    [][\A s \in Slots :
          LET lost == rows[s].links \ events'
          IN  Live(s) /\ Live(s)' /\ lost # {} =>
                 /\ Carded(s)'
                 /\ Carded(s) \/ lost \subseteq rows'[s].card]_compressionVars

(* A rebuild does not undo a compression that came while it ran: a card    *)
(* with an event of its day that the rebuild had read and that has been    *)
(* deleted since is still there after it (day_is_compressed is asked       *)
(* before the transaction begins; the foreign key of block_events).        *)
CompressionIsNotUndone ==
    [][\A p \in Processes, s \in Slots :
          (/\ IsAt(p, "write") /\ doing'[p] = AtRest /\ Carded(s)
           /\ \E e \in (rows[s].card \cap doing[p].seen) \ events :
                 e.slot.day = doing[p].day /\ s.day = doing[p].day)
          => rows'[s] = rows[s]]_compressionVars

(* After failures, kills and a snapshot left behind the compression for    *)
(* the day's horizon is done in the end (the latch is set only then).      *)
PruneIsRetried == []<>(latch = horizon)
=============================================================================
