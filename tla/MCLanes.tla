------------------------------ MODULE MCLanes ------------------------------
(***************************************************************************)
(* A day of two work folders, 1 and 2, and two of the owner's own, 3 and   *)
(* 4, whose events come in batches; sessions 1 and 2 work for different    *)
(* customers in folder 1.                                                  *)
(***************************************************************************)
EXTENDS Lanes

(* n events of one kind, gap minutes apart. *)
Every(gap, n, id, at, project, kind, session, customer) ==
    {Event(id + k, at + gap * k, project, kind, session, customer) : k \in 0 .. n - 1}

MCBatches ==
    { Every(1, 1,  10,  0, 1, "turn",      1, 1),
      Every(4, 5,  20,  3, 1, "heartbeat", 1, 1),
      Every(2, 3,  30,  8, 1, "hand",      2, 2),
      Every(4, 7,  40,  2, 2, "other",     Null, 0),
      Every(1, 1,  50, 12, 2, "turn",      3, 1),
      Every(1, 1,  60,  4, 3, "turn",      Null, 0),
      Every(1, 1,  70, 19, 1, "other",     Null, 0),
      Every(4, 2,  80, 20, 4, "other",     Null, 0),
      Every(4, 2,  90, 27, 4, "other",     Null, 0),
      Every(9, 2, 100,  5, 2, "lifecycle", 3, 2),
      Every(9, 2, 110,  6, Null, "hand",   Null, 0),
      Every(3, 3, 120, 30, 3, "helper",    1, 1),
      Every(3, 4, 130, 34, 1, "git",       2, 2),
      {Appointment(140, 10, 15)} }

Share(n, m) == [p \in {1, 2} |-> IF p = 1 THEN n ELSE m]

MCWindows ==
    { [start |-> 4,  end |-> 20, shares |-> Share(7, 3)],
      [start |-> 10, end |-> 31, shares |-> [p \in {2} |-> Whole]],
      [start |-> 24, end |-> 40, shares |-> Share(5, 5)] }

-----------------------------------------------------------------------------
(* Properties. *)

Covered(blocks) == UNION {b.start .. b.end - 1 : b \in blocks}

Worked(day) == {b \in ToSet(day) : ~b.cal}

Of(p, day) == {b \in Worked(day) : p \in DominantFolders(b)}

OfWork(day) == {b \in Worked(day) : IsWorkBlock(b)}

Folders == 1 .. 4

FoldersOf(day) == UNION {DominantFolders(b) : b \in Worked(day)}

SameMinutes(day, other) ==
    \A p \in FoldersOf(day) \cup FoldersOf(other) : Covered(Of(p, day)) = Covered(Of(p, other))

Anonymous(e) == [e EXCEPT !.customer = 0]

(* Customers only divide a folder's minutes: every folder has the minutes  *)
(* it would have if no session named a customer.  (divide_block)           *)
TagsOnlyDivide ==
    SameMinutes(BuildDay(collected, {}), BuildDay({Anonymous(e) : e \in collected}, {}))

(* Session bookkeeping, the owner's own helpers and what happened outside  *)
(* all folders: they may say which folder a session worked in.             *)
Mere(e) ==
    \/ e.kind = "helper"
    \/ ~e.cal /\ (e.kind = "lifecycle" \/ (e.project = Null /\ e.session = Null))

(* But they add no minute to any folder and take none away.                *)
(* (build_blocks_by_project, is_lifecycle)                                 *)
RidersAddNoTime ==
    LET day == Tagged(Located(collected))
    IN  SameMinutes(BuildBlocksByProject(day), BuildBlocksByProject({e \in day : ~Mere(e)}))

Dragged == UNION {w.start .. w.end - 1 : w \in windows}

RemaindersStay(auto, day) ==
    \A p \in Folders : Covered(Of(p, day)) \ Dragged = Covered(Of(p, auto)) \ Dragged

OnlyWorkMoves(auto, day) ==
    /\ Covered(OfWork(day)) = Covered(OfWork(auto))
    /\ Covered(Worked(day) \ OfWork(day)) = Covered(Worked(auto) \ OfWork(auto))
    /\ RemaindersStay(auto, day)

Meetings(day) == {b \in ToSet(day) : b.cal}

OfOneFolder(b) ==
    \A d, e \in b.events : d.project = e.project \/ Null \in {d.project, e.project}

(* Cutting a cluster where the folder changes leaves no event out and none *)
(* in two blocks, though each piece must be long enough on its own.        *)
(* (split_by_project, build_sub_block)                                     *)
SplitLosesNothing ==
    LET events(pieces) == FlattenSeq([m \in DOMAIN pieces |-> pieces[m].events])
    IN  \A c \in ToSet(Clusters(collected)) : LongEnough(c) => events(SplitByProject(c)) = c.events

NothingLost(auto, day) ==
    /\ Covered(Worked(day)) = Covered(Worked(auto))
    /\ Meetings(day) = Meetings(auto)
    /\ Covered(Worked(auto) \ OfWork(auto)) \subseteq Covered(Worked(day) \ OfWork(day))

MovesWork(auto, day) ==
    /\ NothingLost(auto, day)
    /\ (/\ \A e \in collected : e.kind # "lifecycle"
        /\ \A b \in Worked(auto) : OfOneFolder(b)) => OnlyWorkMoves(auto, day)

(* Saved windows move time between work folders: no worked minute is lost  *)
(* or made, the meetings are the same, and the owner's own minutes stay    *)
(* his.  On a day of blocks of one folder each, without session            *)
(* bookkeeping, they do nothing else: work is where it was, and outside    *)
(* the windows every folder keeps its minutes.  Other days are             *)
(* WindowsStayInside's.  (apply_split)                                     *)
WindowsMoveWorkOnly == MovesWork(BuildDay(collected, {}), BuildDay(collected, windows))

(* "The parts outside the window stay the block's own."                    *)
(* (infer_allocations.rs:116, split_window)                                *)
WindowsStayInside == RemaindersStay(BuildDay(collected, {}), BuildDay(collected, windows))

=============================================================================
