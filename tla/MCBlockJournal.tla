--------------------------- MODULE MCBlockJournal ---------------------------
(***************************************************************************)
(* Small days for BlockJournal: a bound on the number of steps, two        *)
(* histories the properties compare with, and the set of writers a run     *)
(* lets act.                                                               *)
(***************************************************************************)
EXTENDS BlockJournal, TLC

CONSTANTS
    MaxSteps,   \* bound: steps of a behaviour
    Days,       \* what may be collected before the first rebuild, each with
                \* the number of steps its behaviours are shorter by
    Writers     \* a subset of {"owner", "hand", "collect", "rebuild",
                \*              "estimate", "sync", "export"}

ASSUME DayAssumption ==
    \A day \in DOMAIN Days : /\ day \subseteq Events /\ Len(Build(day)) <= MaxId
                              /\ Days[day] \in 0 .. MaxSteps

VARIABLES
    steps,
    trail,      \* the tables before each owner's change not undone yet,
                \* emptied when another writer changes the blocks
    rebuilt     \* TRUE iff the last step was a rebuild and every block it built stayed

(* Worklog ids are interchangeable. *)
Symmetry == Permutations(Worklogs)

mcVars == <<vars, steps, trail, rebuilt>>

I == INSTANCE Infer

-----------------------------------------------------------------------------
Seen(id, at, folder, ticket) ==
    [id |-> id, at |-> at, until |-> at + I!CREDIT_MINUTES, cal |-> FALSE,
     project |-> folder, key |-> ticket, kind |-> "other"]

OtherTicket == CHOOSE k \in Tickets : Tickets # {MeetingTicket} => k # MeetingTicket

(* One repository's work at 0:00 and 0:10 (a block of 12 minutes), and at  *)
(* 1:00 and 1:10; an event at 0:35 joins the two.                          *)
OneBlock   == {Seen(1, 0, 1, Null), Seen(2, 10, 1, Null)}

Keyed      == {Seen(1, 0, 1, MeetingTicket), Seen(2, 10, 1, MeetingTicket),
               Seen(3, 60, 1, Null), Seen(4, 70, 1, Null)}

Joining    == {Seen(5, 35, 1, Null), Seen(6, 35, Null, Null)}

(* The same times with no folder anywhere, a ticket named in each block.   *)
Folderless == {Seen(11, 0, Null, MeetingTicket), Seen(12, 10, Null, Null),
               Seen(13, 60, Null, OtherTicket), Seen(14, 70, Null, Null)}

(* One block to 1:06, with an event that rides along at its end.           *)
WithRider  == {Seen(1, 0, 1, MeetingTicket), Seen(22, 32, 1, Null),
               Seen(23, 64, 1, Null), Seen(24, 65, Null, Null)}

OneDay     == [day \in {OneBlock} |-> 0]

ThreeDays  == [day \in {Keyed, Folderless, WithRider} |-> IF day = Keyed THEN 0 ELSE 1]

AllEvents  == (UNION DOMAIN ThreeDays) \cup Joining

(* build_blocks_by_project where the day has one folder at most: events    *)
(* in none ride, unless there are no others.  (Lanes has the whole of it)  *)
Clustered(E) == IF Located(E) = {} THEN E ELSE Located(E)

BuiltDays ==
    [E \in SUBSET Events |->
        I!PlaceFolderless(I!BuildBlocks(Clustered(E)), E \ Clustered(E))]

InferBuild(E) == BuiltDays[E]

-----------------------------------------------------------------------------
(* A day just built for the first time. *)
MCInit ==
    /\ collected \in DOMAIN Days
    /\ LET day == Build(collected)
       IN  /\ nextId = Len(day) + 1
           /\ blocks = [i \in Ids |-> IF i \in DOMAIN day THEN FreshRow(day[i]) ELSE Null]
    /\ journal = <<>>
    /\ steps = Days[collected] /\ trail = <<>> /\ rebuilt = FALSE

Acts(writer) == writer \in Writers /\ steps < MaxSteps /\ steps' = steps + 1

Late == Events \ UNION DOMAIN Days

AllStay == \A n \in DOMAIN Build(collected) : ~Vanishes(Build(collected)[n])

Front1(s) == SubSeq(s, 1, Len(s) - 1)

MCOwner ==
    /\ Acts("owner") /\ rebuilt' = FALSE
    /\ \/ OwnerChange /\ trail' = Append(trail, blocks)
       \/ UndoRestores /\ trail' = IF trail = <<>> THEN <<>> ELSE Front1(trail)
       \/ UndoStale /\ UNCHANGED trail

MCOther ==
    /\ trail' = <<>>
    /\ \/ Acts("rebuild") /\ Rebuild /\ rebuilt' = AllStay
       \/ /\ Acts("hand") /\ rebuilt' = FALSE
          /\ \E k \in Tickets, s \in HandStarts, d \in Minutes, t \in Texts :
                LogTime(k, s, d, t)
       \/ /\ Acts("estimate") /\ rebuilt' = FALSE
          /\ \E i \in Live, t \in Texts, d \in Minutes, k \in Tickets \cup {Null} :
                EstimateBlock(i, t, d, k)
       \/ /\ Acts("sync") /\ rebuilt' = FALSE
          /\ \E k \in Tickets, w \in Worklogs : LineSent(k, w)
       \/ Acts("collect") /\ rebuilt' = FALSE /\ \E e \in Late : Collect(e)

MCExport == Acts("export") /\ MarkExported /\ rebuilt' = FALSE /\ UNCHANGED trail

MCNext == MCOwner \/ MCOther \/ MCExport

MCSpec == MCInit /\ [][MCNext]_mcVars

-----------------------------------------------------------------------------
(* Properties that need the histories. *)

SameButMarkers(s, t) ==
    /\ RowsOf(s) = RowsOf(t)
    /\ \A i \in RowsOf(s) : /\ Comparable(s[i]) = Comparable(t[i])
                            /\ s[i].events = t[i].events

(* While nobody else writes, undo retraces the owner's own steps: each     *)
(* undo puts the day back exactly as it was before the newest change not   *)
(* undone yet, links to events included, and none is discarded as stale.   *)
(* (undo.rs: "puts the newest entry back")                                 *)
UndoWalksBack ==
    [][/\ UndoRestores /\ trail # <<>> => SameButMarkers(blocks', trail[Len(trail)])
       /\ UndoStale => trail = <<>>]_vars

(* Rebuilding a day that has just been rebuilt changes nothing but ids,    *)
(* unless a block of it vanished.  (infer_carry.rs:18, infer.rs:648)       *)
RebuildIsStable ==
    [][Rebuild /\ rebuilt =>
          /\ {blocks'[i] : i \in RowsOf(blocks')} = {blocks[i] : i \in Live}
          /\ Cardinality(RowsOf(blocks')) = Cardinality(Live)]_vars
=============================================================================
