# worklog, in TLA+

worklog turns what a developer's tools record (commits, shell commands, Claude
sessions, calendar entries, Jira and GitHub activity) into *blocks* of a day's
work, lets the owner correct them, and sends them to Tempo, one *worklog* per
ticket and day. This directory models the part of it that decides which minutes
are billed to which ticket, and checks that no sequence of edits, undos,
rebuilds, estimates, syncs and failures loses or duplicates them; and the parts
that work unattended around it: the 17:00 run, the jobs that have a model write
texts, the compression of old days, the helper's supervisor and the updater.

Source paths below are relative to `src/rust/crates/worklog-core/src/`.

## The system

| component | state | operations | talks to |
|---|---|---|---|
| collectors (`collectors/*`, `hook_run.rs`, `browser_ingest.rs`) | table `events` | upsert events, at any time and in any order | the rebuild |
| day rebuild (`infer.rs`, `infer_carry.rs`) | `blocks`, `block_events` | cluster the day's events, cut, replace the day's blocks, carry the owner's state over | every collect, the CLI, the daemon |
| project lanes (`infer_lanes.rs`, `infer_evidence.rs`, `infer_lane_tags.rs`) | none, a function of the day | who owns each minute, what a short stretch is worth, a folder's customers | the rebuild |
| allocation windows (`infer_allocations.rs`, `overlap_store.rs`, `overlaps.rs`) | `overlap_allocations` | save and delete a window with its shares, re-cut the day's work inside it | web UI, the rebuild |
| block edits (`block_service.rs`, `ticket_log.rs`) | `blocks` | ticket, length, text, personal, ignore, delete, merge, split, export mark; log time | web UI through the daemon |
| undo (`undo.rs`) | `block_undo`, newest 50 entries | record, seal, undo_last | every edit |
| estimator (`estimate.rs`) | text, minutes, ticket of a block | prepare, model call without the lock, commit | the daemon's button, the CLI |
| Tempo lines (`tempo_lines.rs`, `tempo_match.rs`) | `tempo_line_texts` | text and hours of one ticket's day; marks its sent blocks | web UI, sync |
| Tempo sync (`collectors/tempo.rs`) | `tempo_worklog_id`, `dirty` | a day's groups: POST, PUT, per-block sends, write-back, remote delete | Tempo over HTTP |
| auto-send (`auto_send.rs`) | plan in `meta`, outcome per line | the 17:00 run, its retries and its rollover | sync |
| model jobs (`line_text*.rs`, `note_writer.rs`, `redescribe.rs`) | line texts, note texts | prepare, invoke, commit; a tracker of running jobs | daemon |
| compression (`purge.rs`, `block_digest.rs`) | digest cards, snapshot file, latch | one transaction that squeezes old days, when the horizon moves | undo, rebuild, collectors |
| daemon (`daemon.rs`) | one connection under one lock | every route; delete in three phases | all of the above |
| verdict helper, self-update (`verdict_supervisor.rs`, `updater/`) | a child process; installed files | start, watch, restart; download, verify, swap | daemon |

`PROJECT.json` lists the rest (billing and tenant arithmetic, routing, sessions,
statistics, standup, services, the web UI, the browser extension) with the
reason each is or is not modelled.

Processes: the daemon serves requests concurrently but has one SQLite connection
behind one lock (`with_conn`, daemon.rs:2706); the command line opens the same
database from its own process. A request that only edits blocks runs whole
under the lock. Estimates, deletes and model jobs release it around a network or
model call. A sync in the daemon keeps it for the whole run; one in a terminal
keeps nothing, reads and writes statement by statement, and shares only the
database with the daemon: it goes on in the middle of a tick of the 17:00 run.

What is hard, and which properties matter, per component:

* edits and undo: long mixed sequences; the journal is older than what a
  rebuild, an estimate or a sync wrote since. No sent worklog may lose its last
  row, no time or event may be counted twice, undo must retrace.
* rebuild: everything the owner, the estimator and the sync put on a row must
  land on exactly one of the new rows; rebuilding twice must change nothing.
* lanes and windows: one minute, one folder. Customers, session bookkeeping and the
  owner's own windows may divide or move time, and must neither make nor lose any.
* sync: lost answers, crashes between POST and write-back, edits during a run.
  What the database says was sent must be what Tempo holds, or be eligible.
* the entries the owner made in Tempo must never be touched.
* auto-send: a plan that outlives crashes, retries and midnight. Every planned
  line ends sent or listed as not sent, a retry sends none anew whose answer came,
  none that turned ready later goes out unattended.
* model jobs and estimators: minutes pass between what a job read and what it
  writes. The owner's words and tickets of the meantime survive; a text that no
  longer says what was done is written again; a check never vouches for another
  text.
* compression: deletes raw events for good while rebuilds, collections and
  commands run. What is deleted is on a card first, a card is not lost to a
  rebuild, and a killed run is repeated.
* updater: two renames that are not one. There is always a whole program, and
  one that runs unless a kill hit the gap.
* supervisor: a helper that keeps crashing, daemons that die and leave helpers
  behind. Restarts are rationed and the owner can always get out.

`PROJECT.json` lists every hazard at its line with the properties aimed at it.

## Modules

| module | models |
|---|---|
| `BlockRow` | one row of `blocks`, and what each UPDATE or INSERT of block_service, estimate and tempo writes into it |
| `Infer` | the pure clustering of infer.rs: clusters by silence, cuts at changes of folder |
| `Lanes` | extends `Infer`: the owner of every minute, his stretches, their customers, the rest of the day; the owner's windows and their shares |
| `BlockJournal` | one day: all edits, the journal, undo_last, persist_blocks, the estimator's and the sync's writes; `Build` is a constant |
| `TempoSync` | one day's rows and lines, Tempo, sync runs of several processes step by step, the delete handler |
| `TicketLine` | a day's ticket lines, their stored texts, and the jobs that write texts: pass, Regenerate, rewrite |
| `LineReview` | abstract: what the Review list promises of a line |
| `AutoSend` | extends `TicketLine`: the clock, the daemon's ticks, plan, outcomes, rollover, Tempo, each send step by step, the owner's syncs beside the ticks and his confirmations; implements `LineReview` |
| `ProgramSlot` | abstract: what the updater promises of the installed program |
| `Updater` | self-update step by step in several terminals, kills anywhere; implements `ProgramSlot` |
| `VerdictSupervisor` | the helper's supervisor, the settings file behind its switch, the daemon's life around it |
| `Compression` | the compression of old days, beside rebuilds, collections, commands, deletes, merges, moves |
| `Estimates` | the estimators of a day and of one block, against the owner |
| `BlockJournalProofs`, `TempoSyncProofs`, `AutoSendProofs` | TLAPS proofs about the module named |
| `UndoProofs` | TLAPS proofs about undo, split and merge, with the histories of `MCBlockJournal`, from `BlockJournalProofs` |
| `ServicesProofs` | TLAPS proofs about the updater, the supervisor, the compression, the estimators, and `MCServices` together |
| `InferProofs` | TLAPS proofs about the clustering, of `MCLanes`' days and of any day |
| `LanesProofs` | TLAPS proofs about the owners' stretches and their customers' pieces, and the owner's windows, of any day and of `MCLanes`' days, from `InferProofs` |
| `FoldLemmas` | what the sums, left folds and enumerations compute that the other proofs meet |
| `MCLanes`, `MCBlockJournal`, `MCTempoSync`, `MCAutoSend`, `MCServices` | small instances for TLC |

`BlockRow` is extended by both state machines, so that they agree on what an
edit writes. `MCBlockJournal` composes `BlockJournal` with `Infer` by giving
`Build` the clustering's result on its small days. `MCAutoSend` composes ticks, jobs,
the owner and the clock. `MCServices` holds four parts that share no state in the
program either: a behaviour is one of a single part.

### State and actions against the code

`BlockJournal`. `blocks` is the table as a function from ids to rows or `Null`
(SQL NULL and "no row" alike); a row's `events` are its `block_events`.
`nextId` is AUTOINCREMENT. `collected` is the events table. `journal` is
`block_undo`: each entry has the touched rows before (`record`) and after
(`seal`) the change and the ids it created. Times are minutes of the day.
Each action is a whole handler: journal entry, write, seal, trim.
`UndoStale`/`UndoRestores` are undo_last's outcomes that write; its refusals
change nothing. `Rebuild` is persist_blocks: `Pieces` is the built day after
cut_at_ticket_edges (`Piece` is span_block, with the event it borrows; `Vanishes` says
of which blocks no piece is left), `CarriedBy` the prior row each piece inherits from,
`CarriedRow` the INSERT. `EstimateBlock`, `LineSent`, `MarkExported`, `LogTime`
and `Collect` are the writers that bypass the journal.

`Infer`. `Closes`, `Consume`, `Clusters` are build_blocks_sequential's pass;
`SegmentStarts`, `Collapsed`, `CutsAt`, `SubBlock` are split_by_project. They are
recursive functions and folds, so that modules with proofs may use them.

`Lanes`. `BuildDay` is build_day_blocks, a function of the day's events and the saved
windows; the actions are what changes either (`Collect`, `Allocate`, `Withdraw`), since
each ends in a rebuild. The day is prepared (`Located`, `Tagged`, `Counted`), `OwnerRuns`
gives every minute its lane, `FoldShortRuns` and `MergeByEvidence` decide which stretches
are worth a block, `ProjectBlocks` builds those, the meetings and the leftovers,
`DivideBlock` divides a block among customers, `PlaceFolderless` links the riders,
`SplitWindow` deals a window out. A lane is <<folder, tag>>, and a folder is a number, its
place in the order of names, since the code breaks ties by name and deals shares out
in that order. Shares are tenths. `Allocate` is the handler with its checks: a share
needs activity in the window, an overlapping window is replaced.

`TempoSync`. A run is a record: `todo` is the snapshot of eligible rows
(fetch_eligible_blocks), `at` where the run waits ("groups": between groups;
"check": Tempo is asked for an existing entry; "send": the payload is built;
"reply": Tempo answered, `ids` are the rows still to be updated). `Begin`,
`SkipGroup`, `TakeGroup`, `FoundInTempo`, `NotFound`, `Generate`, `TakeLegacy`,
`Post`, `PutWorklog`, `WriteBack`, `Finish` follow sync_day_with_matcher in order;
`Refuse`, `Abort`, `Unresolved` are its failures. `Post` carries the request out at
Tempo; an `Abort` right after it is both the lost answer and the crash. The three
phases of delete_block are `DeleteFetch`, `DeleteRemote`, `DeleteLocal`. `Unlocked`
is the connection lock: the daemon's own sync excludes the daemon's edits, a
terminal's sync does not. `EnterByHand` is Tempo's own page.

`TicketLine`. `stored` is `tempo_line_texts`, a row per line or `Null`; `work` sums a
line's blocks up to what auto_send asks of them (every ticket confirmed, something
unsent, a worklog there); `version` numbers the line's sets of descriptions, which is
what source_hash tells apart. A job is a record of what it read: found pending
(`StartPass`, `StartForced`), prompt built (`Prepare`), answered (`Answered`),
committed (`Commit`, `CommitRewrite`), with the lock between but not during.
`Finish` is finish_write: it drops a row with neither text nor hours and marks sent
blocks, and every writer goes through it, as in the code.

`AutoSend`. `TickBegin` is run_if_due down to its loop: rollover of an old plan, the
recap, the guard on the hour and the switch, the day's plan. The loop passes lines
over (`PassOver`, `NothingToSend`) or sends them, `TickEnd` is the recap after it.
`sends` has a record for each sync under way, the tick's and those of `Terminals`, and
all take the same steps: `Lists` (the eligible blocks), `Reads` (the line's blocks,
their worklog id, the text), `Requests` (the check, a text written if there is none,
the POST or PUT, carried out), `WritesBack`. `Finds` is the check's hit, `Fails` what is
refused, unreachable or broken off at any of these places, with `AnswerLost` where a
POST was carried out. `Ends` records what a tick's send came to (set_outcome), over
whatever the row has become. The daemon holds its lock for the whole tick, so `Edit`,
`Confirm` and the commits of jobs wait for `tick = Null`; a terminal's sync waits for
nothing. `Crash` may fall anywhere, between write-back and outcome too.

`Updater`. `dest`, `previous`, `staged` are files, `runs` the processes with their place
in run_update and swap_with_rollback, one step per file operation or trial. `Killed` may
happen at every step; the kernel frees the lock. `mishaps` records what the code has no
answer to, so that properties can say "unless". `past` is a history.

`VerdictSupervisor`. `enabled`, `proc`, `restarts`, `failed` are the fields of Supervisor;
`SetEnabled`, `Retry`, `Tick`, `Launch`, `Kill` its methods. Ages of restarts count
health checks. Requests that write the settings file take upsert's steps: read, create
(which empties the file), write, and for the switch apply. `Gone` is the daemon's end;
its live helper becomes an `orphan`.

`Compression`. `rows` holds each block's linked events and its card; `preprune` is the
snapshot file, `latch` the meta row. `doing` is where each process stands: the daemon
does one thing at a time, terminals any. `ClearSnapshot`, `TakeSnapshot`, `PurgeRows`,
`SetLatch` are the run; `Rebuild`, `CheckDay`, `WriteDay` a rebuild taken apart where a
compression can come between; `Collect` to `CollectEnds` a collection from its start.

`Estimates`. A batch is a record: which blocks are left, the tickets and authors the fold
read, how far it is. `StartBatch`, `DescribeMeeting`, `ApplyReply`, `MarkGap`, `StartFold`,
`FoldNext`, `EndFold`, `VerdictPicks` follow estimate_day_with_verdict; `PrepareSingle`,
`CommitSingle`, `SingleFails` are the daemon's estimate_block. `mine` says whose words
the description is; no column of the table does, which is the point.

### Abstractions

* Texts, tickets and worklog ids are model values. A model's answer is any value
  of the small set, or no answer.
* `EstimateBlock` is one step in `BlockJournal`; `Estimates` has its phases and the
  batch, and nothing of the journal.
* `TakeGroup` reads the group's rows, resolves the issue and reads the line in one
  step. With one process at a time this is exact; with two it hides
  interleavings between statements that are microseconds apart.
* Two prior rows that start at the same time are ordered by id in `PriorBefore`;
  the query leaves the order of such rows open.
* Minutes, not seconds: every constant of the code involved is whole minutes.
* A line's text in `TempoSync` is a stored text or the *set* of its rows'
  texts; the order and the wording of the joined text are left out.
* Left out of `BlockJournal`: personal folders, session skips, elsewhere links, the
  flagged bit, note columns, digest cards and compressed days, change-log and
  search refreshes, customer shares. None feeds back into the columns modelled,
  except compressed days, where undo and the estimators refuse.
* `TicketLine` stores a generated text together with its check, as the daemon does
  under one lock. `AutoSend` takes a sync of a line in four steps, a POST's check together
  with the request; the write-back row by row, and groups of several ids, are
  `TempoSync`'s. A sync on the day page is a terminal's that meets no tick and no edit.
* `Estimates` leaves out lengths and hours, the refusal of compressed days, and
  rebuilds; the daemon's own batch, which keeps the lock throughout, is a batch during
  which the owner does nothing. A folded pair is written in one step.
* `Compression` keys a block by its day and start, and takes a card for the set of
  events it was built from. A rebuild may link what is later than its day's window
  (infer.rs:471), so it has more outcomes than the code's. The owner's moved events,
  which the rebuild links again in its transaction (infer.rs:811), are left to
  `MoveIntoBlock`: taken right after the rebuild, it reaches the same states.
* `Updater` takes signature and hash checks for the question whether bytes are those
  of a release. A slow machine may fail a trial of a good program; a *quirky* release
  runs when staged and not when installed.

## Runs

| run | asks | result |
|---|---|---|
| `MCLanes` | a day of up to 4 of 14 batches in two work folders and two of the owner's own, sessions of two customers, a meeting; up to 2 of 3 windows, saved and taken back in any order | customers only divide a folder's minutes; bookkeeping, helpers and what has no folder give and take none; windows neither make nor lose a minute, and move time of work only; a cut by folder loses no event |
| `MCDay` | all writers, 4 steps from a freshly built day of two blocks with one ticket; 3 from one without any folder, and from one whose block ends in an event that rides along; late events fuse blocks | types; rows stay good; edits and undo keep worklogs, mark sent rows, keep markers; rebuild keeps tickets, hands each worklog to one row, is stable |
| `MCOwnerUndo` | the owner alone, 5 steps, journal of 2 | undo walks back exactly; split and merge move time and events, neither making nor losing any |
| `MCSync` | one syncer, 3 runs, 2 changes (length, text, line text, line hours), failures and crashes anywhere | types; between runs a settled line is in Tempo exactly |
| `MCLegacy` | two tickets, sent rows reassigned, made personal or deleted, entries by hand, 2 runs | a sync loses no id; the owner's entries are untouched |
| `MCAutoSend` | one line, two days, two evenings; 3 changes out of edits, turns of the switch, entries by hand, syncs in a terminal beside the ticks, confirmations, crashes; one job, one lost answer | types; checks fit their texts; stale texts are pending; a second worklog only after a lost answer or where two syncs meet; hand texts survive; the line table implements `LineReview`; the day's run is the one planned; every planned line ends |
| `MCServices` | two updaters over three releases; two requests, crashing helpers and daemons; three blocks on two days with an event past midnight, three commands, one failure; two blocks, a batch, a single estimate, two edits | types; whole programs only, never left broken, the daemon runs what is installed, `ProgramSlot` implemented; never stuck, one helper, rationed restarts, crashes answered; evidence outlives events, compression is not undone and is done in the end; the owner's edits survive |
| `VLogged`, `VPending`, `VUndoDelete`, `VEditDuringSync`, `VRemainder` | each one claim of a comment or test | violated; see Known deviations |

Bounds. `MaxSteps` 4 in `MCDay` is long enough for edit, sync, collect, rebuild,
and for resize, sync, delete, rebuild, which is how a worklog could be inherited
twice; each mutant in `PROJECT.json` is found within it. `Days` gives the days without
folders and with a rider one step less: a late event or an edit, a rebuild, and one
more is what these are for (two ticketed folderless blocks fused; a piece that borrows
beside an event of its own). The day of the other runs of the
journal is one block. `MaxId` is large enough that no rebuild in the run is blocked by it. `Minutes` holds one length chosen against
the day: 65 makes the first block reach into the second, 6 halves a block.
`UndoDepth` 2 lets the trim happen. `MaxWorklogs`, `MaxRuns`, `MaxChanges` let every
group state occur, mixed ids included. `SYMMETRY` is used on worklog ids only, where
no property is temporal beyond a single step. `CHECK_DEADLOCK FALSE`: every run
stops at its step bound, and the system itself may rest at any time.

`MCLanes`: the batches are what one collector brings at once, placed so that they meet:
a prompt and its session's heartbeats, two customers' turns in one folder, a denser other
folder over them, a personal prompt and a sliver after it, bookkeeping of one folder in
another's stretch, shell commands outside all folders. Four of them are any three that
meet with one more; five were run once, with the same result (8034 days and windows).
The windows overlap each other, so that they replace each other or follow, and their
shares round.

`MCAutoSend`: one line is enough, since every statement of auto_send and tempo_lines
names its line and the plan only sums over them; two days let a plan roll over.
`MaxChanges` 3 lets the owner edit, sync and confirm, or a crash fall between a lost
answer and a retry. `Terminals` is one: with the tick that makes two that meet, in every
order of their steps, and a sync begun counts as one change, its further steps as none.
Lines begin with no text, words of the owner, or a text that passed its check; the
other grades arise from jobs. Ticks, jobs and the clock are not bounded. `LastDay` bounds the
clock: a plan of the last day has no rollover, so `PlannedLinesEnd` speaks of earlier
days. `MaxVersion` 1 is one change of the descriptions, `MaxLost` 1 one lost answer.

`MCServices`: `LastVersion` 3 with a patch from 1 to 2 and release 2 quirky makes a
terminal with an old program meet a newer release; `MaxStarts` 2 runs overlap or
follow each other. `RESTART_LIMIT` 1 and `RESTART_WINDOW` 2 stand for 3 restarts in
ten checks: the budget is spent, and it comes back, in few steps; the proofs are for
every limit and window. `MCEvents` has a morning, an evening whose event comes after
midnight, and the next day; `LastHorizon` 2 puts the horizon between and past them.
`MaxEdits` 2 with two neighbouring blocks, one of meetings, is an edit before and one
during the batch.

The MC modules add `steps`, `trail` (the tables before each change not undone
yet) and `rebuilt`: histories for `UndoWalksBack` and `RebuildIsStable` that no
action of the system reads.

Fairness. Only what a loop of the daemon guarantees, and the clock:

* `AutoSend`: `TickBegin` (the loop of spawn_auto_send_loop never ends and a failed tick
  does not stop it), `TickStep` (requests have timeouts, so a tick and its sends run to
  their end), `Evening` and `Midnight`. None for the owner, his terminals' syncs, the jobs,
  or Tempo's success.
* `VerdictSupervisor`: `Tick` (the minute's health check), `DaemonExits` (an orderly stop
  ends), each request that has begun.
* `Compression`: `PruneIfDue` (the six-hour loop, with pruning enabled), the daemon's
  steps once begun, `Midnight`. A failure is possible at each step, boundedly often.
* `Updater` and `Estimates` have none: both run when asked and may be killed.
* `BlockJournal`, `TempoSync`: none. Nothing in them runs by itself.

Operators marked `mutant` are wrong versions of the definition after them. `PROJECT.json`
pairs each property with one: with the wrong version in place TLC must find
the property violated, which shows that the run reaches the case.

## Known deviations

Where a comment or a test of the repository says one thing and the code does
another. The first five are runs.

1. **Logged time disappears** (`VLogged`). ticket_log.rs:1: "marked manual so
   estimate, auto-merge and re-inference leave it alone". The per-block estimate
   rewrites `estimated_by`, after which a rebuild deletes the row.
2. **A rebuild forgets unsent edits** (`VPending`). The sync id is carried to the
   new row, `dirty` is not (infer.rs:769, schema.sql:100).
3. **Undo of a delete after a rebuild** (`VUndoDelete`) puts the old row beside the
   rebuilt one: the entry's after-image says "no such row", and there is none
   (undo.rs:154, undo_test.rs:365).
4. **An edit during a terminal's sync is lost** (`VEditDuringSync`): the write-back
   clears the flag of whatever the row has become (collectors/tempo.rs:652).
5. **The rest of a block changes its folder** (`VRemainder`). "The parts outside the
   window stay the block's own" (infer_allocations.rs:116): a part without events
   borrows the nearest of the block's, and takes a session's start in another folder
   too (infer_allocations.rs:204), which then decides its folder (infer.rs:128).
   It needs no session's start where leftovers of several folders share a block: of
   folder 1's events at 0:11 and 0:12 and folder 2's, twice at 0:13 and at 0:14, the
   clustering makes one block of folder 2, and a window from 0:13 on leaves a rest of
   folder 1.

The same models show these, which have no run of their own:

* Deleting one block deletes its line's worklog, and the other blocks of the line
  stay marked as sent ("keeps the two stores in step", daemon.rs:1609).
* Blocks can overlap ("every owned minute is counted once and blocks never overlap",
  infer_lanes.rs:9). A stretch none of its own folder's events earned is dropped
  (infer_evidence.rs:219); the other folders' events in it are clustered by themselves
  (infer_lanes.rs:257), and the cluster's credit or silence reaches into the next
  stretch. A personal prompt at 0:04, one work event at 0:19 and another personal
  folder's at 0:20, 0:24, 0:27 and 0:31 are enough. Such a block may also hold the
  events of two customers.
* A folder with nothing but a session's start counts as active when a window is
  saved, and its share is then time without an event (overlaps.rs:181).

6. A sent block moved to another ticket, or made personal, leaves the old line's
   entry counting it, with no dirty row left to correct it.
7. No answer after a POST, or a crash before the write-back: the next run POSTs
   again (collectors/tempo.rs:3, "re-syncing is safe and cheap").
8. A sync between the read and the local delete of delete_block sends the row that
   is then deleted.
9. An estimate rewrites a sent row and leaves `dirty` alone.
10. `set_personal(false)` leaves an ignored row ignored but not personal
    (schema.sql:110, "Always paired").
11. A half of a split with none of the events looks logged by hand and stays
    beside the rebuilt block: its minutes count twice.
12. Two built blocks that start in the same minute (a meeting and work) both
    inherit the prior row of that start (infer.rs:667).
13. A ticketed row that a rebuild joins with an unticketed one can lose its
    ticket: only edges between two tickets are cut (infer_carry.rs:18).
14. An estimate that makes a merge's entry stale lets the undo after it take back
    the split before the merge, whose tail is in the merged row.

`FusedTicketsSurvive` and `RebuildInheritsOnce` are stated so that 1, 11-13 and 33
are out of their way: the first asks that every row has a ticket, and events or
the owner's word behind it, and speaks of rows that a built block covers of which
something is left; the second asks that the built blocks start at different minutes
(`DistinctStarts`). `RebuildIsStable` excepts 33 too.

### The later models show

15. A tick sends a planned line without asking again whether it is ready: a ticket
    or text that is no longer confirmed goes out (auto_send.rs:55). A planned line whose
    blocks have left is marked sent with nothing in Tempo.
16. Clearing a line's text, with no hours set, deletes its row and with it the
    outcome and the confirmation; the line is open again.
17. The rollover lists a line as "could not be reached" also when it was never tried.
18. Descriptions that change and change back between the two times a pass takes the
    lock leave a text from the ones in between that is not pending (the model's
    versions never come back).
19. A Regenerate overwrites words typed while it ran: `force` skips the guard.
20. `mark_gap` (estimate.rs:1501) takes the owner's mark off a block he edited while the
    batch ran; the next batch then overwrites his words, against "manual blocks MUST
    NOT be overwritten by re-estimation" (estimate.rs:720).
21. The fold of neighbours uses tickets and authors as it first read them: a block the
    owner has edited since is folded away, another's ticket can become "manual" without
    his having set it, and personal blocks are not excepted. The length a single
    estimate writes is capped by the span when its prompt was built.
22. Killed between its two renames, the updater leaves no program in place, though
    mod.rs:38 and install.rs:3 call the swap atomic; the program is in `.previous`. Killed
    after the second one, before its trial, it may leave a release that does not run; the
    next update then makes that one the backup and deletes the one that ran.
23. An updater compiled from an old version installs the same release again after
    another terminal has: `.previous` is then the same release. A daemon the service
    manager restarts between swap and roll-back keeps running the program rolled back.
24. `envfile::upsert` reads, empties and writes the file without a lock ("leaving
    every other line untouched", envfile.rs:49): two writers lose a line, a crash in
    between loses all. The switch in the file may differ from the supervisor's.
25. A switch-on in flight during shutdown starts a helper that outlives the daemon
    (verdict_supervisor.rs:343); the next daemon with the switch on removes it.
26. A compression repeated after a crash between its commit and its latch, and any
    later one, replaces `worklog.db.preprune`, the only copy of what the first deleted
    (purge.rs:10). Two at once can delete with no snapshot on disk.
27. merge_blocks and move_into_block do not ask whether the day is compressed: an
    absorbed block's card goes with it, and an event moved into a block that has a card
    is deleted later without being on any.
28. Deleting the blocks that have cards makes a day rebuildable, and a rebuild then
    deletes the others. An undo from before a compression brings back a block with
    neither events nor card.
29. `db purge --days N` below the horizon deletes events that the next collection
    brings back without blocks, and so can a collection that runs over midnight
    (cli.rs:1571, "never reach back past the pruner's cutoff").
30. A rebuild past its check replaces a card made since, if all the card's events are
    still there (a block over midnight): the next compression makes the card again. If
    the rebuild read the day before its events were collected, rows with cards go.
31. A sync in a terminal and a tick that meet both POST the same line, with no answer
    lost: each reads that its blocks have no worklog (collectors/tempo.rs:366) and passes
    its check (collectors/tempo.rs:484) before either has stored an id
    (collectors/tempo.rs:652). `NoSecondWorklog` says so.
32. The slower of the two may be the tick: its request times out after the terminal's
    sync has brought the line out, and set_outcome (auto_send.rs:219) lists the line as
    unreachable, though "A line that failed an auto-send and now went through is sent,
    awaiting review" (collectors/tempo.rs:662). `LineReview` allows this move to a send
    under way only (`MovesAtEnd`).
33. "Rebuilding a day must never lose the tickets on its blocks" (infer_carry.rs:1): on a
    day without folders (infer_lanes.rs:154) a late event fuses two ticketed blocks, the
    rebuild cuts the block between their tickets, and both pieces vanish with
    their tickets, since span_block finds no event with a folder to borrow
    (infer_allocations.rs:202). The next rebuild, with no tickets to cut at, brings the
    fused block back without them. The test of fused blocks
    (`fused_blocks_keep_both_tickets`) has a folder on every event.

## Proofs

Eight modules: seven about the components they are named for, by invariants of the state
machines and by lemmas about their operators, and one of shared lemmas.

`BlockJournalProofs` proves, for every set of tickets, texts, worklog ids and events,
every journal depth and id bound, and **every** `Build` that returns a sequence of
blocks with a start, an end no earlier and at least one event:

* `TypesHold`: `Spec => []TypeOK`.
* `RowsStayGood`: `Spec => []RowsAreGood`. In the table and in every journal image,
  a row's logged time fits between its start and its end, and `dirty` is set on sent
  rows only. Both halves are what later computations lean on: merge and split
  derive ends from durations, and the sync decides POST or PUT by the id.
* `UndoLeavesMarkersAlone`: `Spec => UndoKeepsMarkers`. Undo changes no
  sent or exported mark of a living row, removes no sent row, revives none.

The inductive invariant `IInv` is `RowsAreGood` with the bounds of `nextId` and
`collected`. It has to speak of the journal: undo copies rows of it into the table,
so a table-only invariant is not preserved. The argument: each statement's
lemma (`ResizedGood`, `SecondHalfGood`, `AbsorbingGood`, ...) maps good rows to good
rows; `ChangeGood` lifts one to a journaled change, `RestoredGood` to undo,
`RebuildGood` to a rebuild, whose pieces are shown to be well formed in
`PieceType` (an event to borrow exists: there is a least distance, and an earliest event
at it; of a block that has none no piece is left).
`NextGood` collects them; `Invariance` is the temporal step.

Assumptions: `NullAssumption`, `NoRowIsNull`, `BuildAssumption`, `BoundsAssumption`.
TLC evaluates each on the days it runs.

It goes on from there, under the same assumptions: no edit of the
owner, undo included, changes which worklogs the rows hold (`WorklogsStay`), and one
that changes a sent row marks it `dirty` (`SentRowsAreMarked`). What has to be known
beyond `IInv` is `FreshIds`: no row, living or in a journal image, has an id that
AUTOINCREMENT has yet to give out. So the half a split writes takes no row's place;
a merge absorbs unsent rows only; and undo, which might put an old row back over a
sent one, refuses as soon as a row it would touch is sent. That a rebuild keeps
`FreshIds` rests on its making finitely many pieces. `InheritedOnce` is
`Spec => RebuildInheritsOnce`: a kept row keeps its own worklog, a new one has that of
the prior row its piece starts with, so with different starts the rows that hold a
worklog afterwards map one to one into those that held it before.

`UndoProofs` is about `MCBlockJournal`, whose `trail` remembers the tables the owner
edited. Two of its theorems each rest on what the journal knows of the day:

* `UndoRetraces`: `MCSpec => UndoWalksBack`. The invariant `Walk`: the newest entries
  of the journal are the owner's steps along the trail, one entry a step. Such a step's
  entry holds what the rows it touched were before (`record`) and after (`seal`), all
  other rows are the same on both sides, and what it created has ids nobody had
  before (`FreshIds`). The newest seal is therefore the table, the entry is not stale,
  and the restored table is the one before, but for the sync's marks, which undo keeps.
* `UndoneLinksStayApart`: `UndoLinksOnce`, for writers that leave the links to the
  journal's steps (the owner, time by hand, the collector, the sync, the export), from
  any of the run's `Days`, if its blocks share no event. The invariant `Past`: there are tables, one before
  each journal entry and one after the last, in each of which no event counts twice;
  each entry leads from one to the next, and the last is the day but for marks. A writer
  outside the journal changes every table of the past alike. After a rebuild this
  does not hold, and neither does the property (`VUndoDelete`); beside the estimator it is
  left to TLC, since a stale entry then drops out from between two others.

The third, `TimeIsMoved`, is `Spec => SplitAndMergeMoveTime`. Taking a block out of a
sum takes its minutes off, whatever order the sum is taken in
(`OneOut`, `Together`); so a split, which gives its second half what it takes from the
first, keeps the sum over the two, and a merge, whose row is as long as all it absorbs,
keeps it over the group.

`TempoSyncProofs`, for any rows, tickets and worklog ids. `HandEntriesStay`, for any number
of processes: no step changes or removes an entry made on Tempo's own page. The
invariant is that every id the program holds, in a row, in a run's snapshot, between
an answer and its write-back or in a delete under way, is one Tempo gave to the program
(`OwnIds`). `SyncLosesNoId` is stated for the daemon as the only syncer: its lock keeps
the run's rows as it read them (`Tracked`), so the id it writes back replaces none. With
a sync in a terminal beside it this does not follow.

`SettledLinesAreExact` has the same condition, and that rows stay in their line
(`LinesKeepRows`: no delete under way, ticket and `personal` of a row never change); it is
written into the theorem as `Spec /\ [][LinesKeepRows]_vars`. Deviations 2 and 6 are what
happens otherwise. The invariant `ExactInv`: a line has one worklog and no other line has it;
a run that took a line as it still is holds exactly what the line says and the id its rows
have; once Tempo has taken it, and until the write-back, Tempo has what will be
marked as sent; what the run took that is no longer so is `dirty`, which no step but a
write-back of this very content takes away. That the owner's edits
wait for the daemon's lock keeps the second part true. The condition cannot be left out: a
row that moves away after a PUT whose answer was lost leaves a settled line whose entry
still counts it.

`AutoSendProofs`, for any lines, days, texts, jobs and lost answers. The inductive
invariant `Inv` adds to `TypeOK`: a stored generated text was written from descriptions no
newer than the line's and no older than those its source hash stands for, its check
is its own, and outcome, error and confirmation agree (`RowFits`); a job has read its
basis before the descriptions it wrote from, and those before now (`JobFits`); as long as
a line's blocks have no worklog, each POST is accounted for by a lost answer or by a sync
that still awaits one (`TempoFits`); the line a tick sends is still on its list, and
nobody has confirmed it meanwhile (`RunFits`).
`StaleTextIsPending` follows: if the basis is the present version, what lies between it and the present is the present. `NoSecondWorklog` is `TempoFits` read at
the moment of a POST: where the blocks have no worklog and no other sync awaits an
answer, all earlier POSTs were lost. `TempoFits` is kept because an edit that takes a
line's blocks away is known to the syncs under way: they mark no block of the line then.
`LinesImplementReview` shows `Init` and every step against `LineReview`, stutters
included. The line a tick is sending is `busy`: beside it only another sync's
write-back moves the row (`MovesBeside`), and `MovesAtEnd` is what the late outcome may do,
which `RunFits` keeps from a confirmed line. `RunsAreOneADay` is
about `MCAutoSend`, whose `ran` remembers the lines of each day's run: its invariant
(`RunInv`) says that the plan kept in the settings is the day's run or what is left of it,
that no later day has been run, and that what a tick still has to send is of that run.

`ServicesProofs` begins with the updater, for any number of updaters, releases,
patches. The invariant (`UpdaterInv`) says that a run past its first stage holds the lock, and what is in the three files at each stage.
`WholeProgramsOnly` rests on it; `NeverLeftBroken` and `DaemonRunsInstalled` strengthen it
further with what runs when tried and what `mishaps` has recorded. `SwapImplementsSlot`
refines `ProgramSlot`: `ClearBackup` and `BackUp` are stutters, `Swap` installs, `PutBack`
restores, because while its place is empty the program is the one in the backup.

Then the three parts that stand beside the updater, and the four together:

* The supervisor, for any restart limit and window: `NeverStuck` and `OneHelper` are
  inductive together with "a daemon that is down owns nothing"; `RestartsAreRationed`
  because the restarts nobody asked for that lie within the window are all in the
  supervisor's own list, whose recent part it counts before it restarts.
* The compression, for any days, events, processes: a block's links are among the
  events (the foreign key), so only the deletion can take a linked event away, and the
  same transaction has made the cards before. `CompressionIsNotUndone`: the rebuild's
  links would include an event that is gone, so its transaction fails.
* The estimators, for any blocks, batches and edits: the invariant says that the mark
  of the owner's words is there, or a failed reply has put another in its place
  (`Protected`), which is what the WHERE of the batch's UPDATE relies on.
* `ServicesAreTyped`: the types of all four, whichever part a behaviour is one of.

`InferProofs` is about the clustering. `BlocksShareNothing` is for any day: of
finitely many events with ids of their own, the clustering makes blocks with a
start, an end no earlier and at least one event, and no event gets into two of them.
That is what the journal's proofs take of `Build`, the types of its fields aside:
`BuildAssumption`, and the hypothesis of `UndoneLinksStayApart`.
`CutsLoseNothing` is `SplitLosesNothing` in every state of `MCLanes`: whatever days the
constant holds, the pieces of a cluster, one after the other, are its events. The argument
for these two:

* The order of the events is an enumeration, by the number of events before each
  (`EventsInOrder`): the smallest event goes first, and exactly one is the next.
* The pass over it (`Cluster`) is a left fold: after each event, the finished clusters and
  the open one are disjoint and hold only events already passed.
* A cut is made only where five minutes stand between it and the last cut, and
  between it and the end. The cuts therefore increase, each piece is an
  interval between two neighbouring cuts, and no two pieces meet. The dropping of
  short pieces, which would lose events, never drops one.

`ClusteringSeesTimesAndFolders` compares two days whose events correspond one to one
(`Likeness`): with the same ids, times, folders and calendar marks the clustering makes the
same blocks, of corresponding events, whatever the events say besides. Customers and tags,
kinds and sessions do not reach it: each pass (order, clusters, cuts, pieces) takes
days that correspond to results that correspond.

`LanesProofs` says to whom the minutes of a day belong. `OneOwnerAMinute` is for any
finite set of votes: the stretches that come out share no minute, none is empty, and
each owner has a vote in the day. `CustomersDivide` is for any folder's block: its
customers' pieces begin where it begins, end where it ends, and each begins where the
one before ends. `StretchesAreDivided` puts the two together for every day that
`MCLanes`' batches, whatever they are, can make. The argument:

* A minute's owner is null or a key among the votes, because the latest act and the busiest
  key are each the end of a total order (`EndsExist`). Bridging adds no other.
* The stretches of such a sequence are a *chain*: each ends before the next begins
  (`StretchesAre`: the last minute of a stretch is before the next change of owner).
* Folding short runs and merging neighbours are passes that append a run or let the last one
  end where the new one does (`Grows`): both keep the chain, with gaps or without
  (`GrowsOn`, `FoldKeeps`). A sliver goes to a neighbour, to the owner on both sides, or to
  nobody (`GivenAway`, `SandwichIs`): what is left is a chain.
* Of a customer split, `Tile` makes the chain one without gaps, from the first
  minute to the last; absorbing weak sub-runs and merging keep that (`WeakOneIs`,
  `MergeTiles`).
* Every sub-run's customer has an event in the folder, so that `span_block` finds one to
  borrow and returns a block for each (`SpanIsOne`). The code's
  fallback for a customer without events (infer_lane_tags.rs:68) is never taken.

What they do not say is that blocks never overlap, which is false: the leftovers of a
day, clustered apart, can reach into a stretch (Known deviations).

`RidersOnlyRide` is `RidersAddNoTime` in every state of `MCLanes`, whatever its batches
are. It compares two whole days, after the sessions have been located: a session's
bookkeeping may name the folder of what the session did, and that is not riding.

* Every block the clustering makes is of calendar events only or of none (`BlocksPure`),
  so a block of events that do not ride, unless it is a meeting, has only events of
  folders, none of them bookkeeping (`Good`). That holds of stretches' blocks, leftovers
  and customers' pieces (`ProjectGood`).
* Adding riders to such a block changes neither its ends nor the folders that lead in it
  (`WithRiders`): they cast no vote.
* The blocks are therefore, folder by folder, those of the events that count and do not
  ride (`MinutesAre`), also when these are all folderless and the day is clustered
  whole. That set is the same without the events left out: they are not what makes a
  session attended (`MereLeaveAlone`).

`CustomersOnlyDivide` is `TagsOnlyDivide` in every state of `MCLanes`. It too compares two
whole days, the one there was and the one without customers, which `Resembles` it: its
events correspond, with the same times, folders, kinds and sessions.

* A session is located by the order of its events, which customers do not enter: the
  last event before and the first after correspond (`SameEnds`, `SameLocated`). Without
  customers nothing is tagged, so taking customer and tag off one day gives the other
  (`BareDay`).
* What is attended, who owns a stretch and what is left over are the same on both
  (`SameCounted`, `SameVotes`), and what is clustered makes corresponding blocks
  (`ClusteringSeesTimesAndFolders`), with the same leading folders (`SameLeaders`).
* What is divided is of one folder: a stretch's block, or any block of a day with fewer than
  two folders. Its pieces are that folder's too and tile it (`OneFolderDivided`).
  Blocks of leftovers may mix folders, and are not divided.

`WindowsOnlyMoveWork` is `WindowsMoveWorkOnly` in every state of `MCLanes`, for any
windows and shares: no worked minute is lost or made, meetings stay, the owner's own minutes
stay his. The last part, that work is where it was and every folder keeps its minutes
outside the windows, is for days of blocks of one folder each and without session
bookkeeping; on others it is false, see the fifth deviation.

* The inductive invariant is `Dealable`: every folder with a share of a saved window is one
  of work, with an event of the day. The handler checks activity when a window is saved, a
  folder active in a session's name only has an event of that name (`LocatedFromRows`),
  and a day only gains events. Without it a piece would find no event to borrow, and its
  minutes would be lost (infer_allocations.rs:137).
* Dealing is exact. The shares' bounds rise from nothing to all of the time
  (`BoundsAre`): the last is all of it by the code's own exception, the others are
  rounded. Each minute of the intervals has one first bound beyond it, so it lies in one
  folder's part (`SplitIs`, `FirstBeyond`).
* One window *keeps* a day (`WindowKeeps`): what it reaches is dealt out, the rest of each
  block stands beside (`OutsideIs`), and a part with events, or an event to borrow, is a block
  however short (`SpanAt`; the mutant drops that). `Keeps` composes (`KeepsOn`), over
  the windows in the order of their starts (`CutInTurn`).
* The merge of touching blocks *runs* blocks *together* (`MergeRuns`): each goes on in a
  longer one of the same lanes, meetings as they were. The day keeps its minutes, and who
  leads them (`RunMeetings`, `RunOwn`, `RunFolders`).
* Before any window either no block has a folder, or every block that is not a meeting has
  a lane (`ProjectsAreLed`). What is merged is then of one lane, and that lane's folder leads
  it before and after (`LedByLane`), so that the owner's own is not run into work.

`FoldLemmas` holds what these need to know of the definitions themselves.
The library's folds are a CHOOSE of a function that calls itself, so the lemmas prove that
there is one and only one, by the smallest number for which there were not
(`SmallestNat`, from the well-foundedness of the naturals). The prover cannot instantiate a
lemma for any operator: it is stated for the one step function the proofs fold
with, or for a function in its place.

Assumptions: each module's named `ASSUME`s, which TLC evaluates: values that
stand for "none" are none of the values of the type, and bounds are naturals
(`DayAssumption` of `MCBlockJournal`: the first days' blocks are of known events and fit under
the id bound, and no day is spared more steps than there are; `NullIsNoPlan` of `MCAutoSend`).

For the days of `MCLanes` it is `BatchesAssumption` of `Lanes`: the events are finitely
many, with ids of their own (the primary key), times in minutes, folders and customers
that are numbers, no tag before `tag_sessions`, and calendar events with neither folder nor
session (gcal.rs:364); and `WindowsAssumption`: what validate_shares and the handler let
through, a span with a share above nothing for each of some folders (daemon.rs:1951, 2032).
That the shares sum to one is not needed.

Model-checked only: of the rebuild, `FusedTicketsSurvive` and
`RebuildIsStable`, which hold of what the clustering makes of a day and not of every
`Build`; `SettledLineIsExact` beyond its theorem's conditions; and all liveness (`PlannedLinesEnd`,
`CrashIsAnswered`, `PruneIsDone`), which this prover does not reach. That the clustering
loses no event (each is in some block unless its cluster is too short) is checked on
small days.

## Not modelled

* Two processes interleaving inside one edit or rebuild (persist_blocks', set_ignored's,
  merge's and split's reads before their transaction; infer.rs:587). The daemon's
  requests are serial; a rebuild in a terminal at that moment is not covered.
* Of lanes and windows: the list of overlaps shown to the owner, the carry of tenant
  shares over a re-cut (infer_carry_shares.rs), duplicate shell rows, seconds (a share
  is rounded to a minute), and events dismissed or routed elsewhere after a window
  was saved.
* The texts of the billing export and of notes (line_text_phases.rs, redescribe.rs,
  note_writer.rs): `TicketLine`'s and `Estimates`' three phases over other tables.
* Pulling worklogs from Tempo (tempo_remote.rs), fetching and parsing of every
  collector, prompts and replies of every model call: I/O and wording.
* Customer resolution, tenant shares, reports, statistics, standup, search, the task
  board: read-only functions of the tables and the configuration.
* OAuth, secrets, unit files, the web host, the web UI, the wizard, the hook: process
  control, files and presentation.

Worth doing next: an abstract specification of the sync (a line's entry follows the line,
or the line is eligible) with `TempoSync` as its refinement for one syncer.
