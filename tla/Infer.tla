-------------------------------- MODULE Infer --------------------------------
(***************************************************************************)
(* infer.rs, the pure clustering: a day's events to blocks.  An event is a *)
(* record with id (its row, which breaks ties of the sort), at, until (its *)
(* `end()`), cal (from a calendar), project (its folder or Null), key (its *)
(* Jira key or Null) and kind ("lifecycle" is a session's start or end).   *)
(* Times are minutes of the day.                                           *)
(***************************************************************************)
EXTENDS Integers, Sequences, FiniteSets, SequencesExt

CONSTANT Null

TIMEOUT_MINUTES   == 30
CREDIT_MINUTES    == 2
MIN_BLOCK_MINUTES == 5

Earlier(d, e) == d.at < e.at \/ (d.at = e.at /\ d.id < e.id)

InOrder(E) ==
    [n \in 1 .. Cardinality(E) |->
        CHOOSE e \in E : Cardinality({d \in E : Earlier(d, e)}) = n - 1]

-----------------------------------------------------------------------------
(* build_blocks_sequential: a pass over the events in order, closing the   *)
(* open cluster at a meeting or after TIMEOUT_MINUTES of silence.          *)

NewCluster(e) == [start |-> e.at, end |-> e.until, cal |-> e.cal, events |-> <<e>>]

Extended(c, e) == [c EXCEPT !.end = Max({e.until, @}), !.events = Append(@, e)]

Closes(c, e) == e.cal \/ c.cal \/ e.at - c.end > TIMEOUT_MINUTES

Consume(clusters, e) ==
    IF clusters = <<>> THEN <<NewCluster(e)>>
    ELSE IF Closes(Last(clusters), e) THEN Append(clusters, NewCluster(e))
    ELSE Append(Front(clusters), Extended(Last(clusters), e))

Clusters(E) == FoldLeft(Consume, <<>>, InOrder(E))

LongEnough(b) == b.end - b.start >= MIN_BLOCK_MINUTES

-----------------------------------------------------------------------------
(* split_by_project: a cluster is cut where the work moves to another      *)
(* folder, when both sides are worth a block.                              *)

(* The folder each event counts for: its own, else the one before it.      *)
FolderAt(evs) ==
    LET f[n \in 1 .. Len(evs)] ==
            IF evs[n].project # Null THEN evs[n].project
            ELSE IF n = 1 THEN Null ELSE f[n - 1]
    IN  f

Ascending(S) ==
    [n \in 1 .. Cardinality(S) |-> CHOOSE m \in S : Cardinality({k \in S : k < m}) = n - 1]

(* project_segments: the indices where the folder changes. *)
SegmentStarts(folder) ==
    Ascending({n \in DOMAIN folder : n = 1 \/ folder[n] # folder[n - 1]})

EventSpanPadded(evs, first, last) ==   \* mutant
    IF first > last THEN 0 ELSE evs[last].until + CREDIT_MINUTES - evs[first].at

EventSpan(evs, first, last) ==
    IF first > last THEN 0 ELSE Max({0, evs[last].until - evs[first].at})

(* collapse_brief_interruptions: A, a few minutes of B, A is one stretch   *)
(* of A.  The scan skips the interruption and the segment after it.        *)
BriefDetour(evs, folder, segs, i) ==
    /\ 1 < i /\ i < Len(segs)
    /\ folder[segs[i - 1]] = folder[segs[i + 1]]
    /\ EventSpan(evs, segs[i], segs[i + 1] - 1) < MIN_BLOCK_MINUTES

Collapsed(evs, folder, segs) ==
    LET visited[i \in 1 .. Len(segs)] ==
            i = 1 \/ ~visited[i - 1] \/ ~BriefDetour(evs, folder, segs, i - 1)
    IN  Ascending({segs[i] : i \in {j \in DOMAIN segs :
                      visited[j] /\ ~BriefDetour(evs, folder, segs, j)}})

Segments(evs, folder) == Collapsed(evs, folder, SegmentStarts(folder))

(* The cuts: the left side is the work since the last cut, the right side  *)
(* the segment that begins here.                                           *)
CutsAt(evs, segs) ==
    LET upTo(i) == IF i = Len(segs) THEN Len(evs) ELSE segs[i + 1] - 1
        cut(cuts, i) ==
            IF /\ EventSpan(evs, Last(cuts), segs[i] - 1) >= MIN_BLOCK_MINUTES
               /\ EventSpan(evs, segs[i], upTo(i)) >= MIN_BLOCK_MINUTES
            THEN Append(cuts, segs[i]) ELSE cuts
    IN  FoldLeft(cut, <<1>>, [j \in 1 .. Len(segs) - 1 |-> j + 1])

(* build_sub_block *)
SubBlock(c, first, last) ==
    [start |-> c.events[first].at, end |-> Max({c.events[n].until : n \in first .. last}),
     cal |-> FALSE, events |-> SubSeq(c.events, first, last)]

SplitAt(c, cuts) ==
    LET last(n) == IF n = Len(cuts) THEN Len(c.events) ELSE cuts[n + 1] - 1
        piece   == [n \in DOMAIN cuts |-> SubBlock(c, cuts[n], last(n))]
        kept    == Ascending({n \in DOMAIN cuts : LongEnough(piece[n])})
    IN  IF c.cal \/ Len(cuts) = 1 THEN <<c>>
        ELSE [m \in DOMAIN kept |-> piece[kept[m]]]

SplitByProject(c) == SplitAt(c, CutsAt(c.events, Segments(c.events, FolderAt(c.events))))

(* unique_jira_issue: a session's start or end has a say only among such.  *)
UniqueTicket(E) ==
    LET real == {e \in E : e.kind # "lifecycle"}
        keys == {e.key : e \in IF real = {} THEN E ELSE real} \ {Null}
    IN  IF Cardinality(keys) = 1 THEN CHOOSE k \in keys : TRUE ELSE Null

Block(c) == [start |-> c.start, end |-> c.end, ticket |-> UniqueTicket(ToSet(c.events)),
             cal |-> c.cal, events |-> ToSet(c.events)]

Blocks(pieces) == [n \in DOMAIN pieces |-> Block(pieces[n])]

(* build_blocks_sequential: one pass over events, finalize dropping what   *)
(* is too short.  Lanes decides which events it is given.                  *)
BuildBlocks(E) ==
    LET finalized(day, c) ==
            IF LongEnough(c) THEN day \o Blocks(SplitByProject(c)) ELSE day
    IN  FoldLeft(finalized, <<>>, Clusters(E))

(* place_folderless, attach_riding_event: an event that decides nothing is *)
(* linked to the block around it.                                          *)
PlaceFolderless(blocks, riders) ==
    LET around(e) == {i \in DOMAIN blocks :
                        ~blocks[i].cal /\ blocks[i].start <= e.at /\ e.at < blocks[i].end}
        placed(i) == {e \in riders : around(e) # {} /\ i = Min(around(e))}
        with(b, R) == IF R = {} THEN b
                      ELSE [b EXCEPT !.events = @ \cup R, !.ticket = UniqueTicket(b.events \cup R)]
    IN  [i \in DOMAIN blocks |-> with(blocks[i], placed(i))]
=============================================================================
