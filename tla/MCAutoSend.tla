----------------------------- MODULE MCAutoSend -----------------------------
(***************************************************************************)
(* AutoSend on lines of one or two days.  A run names the owner's changes  *)
(* and the failures that may happen in it, and bounds how many of them do; *)
(* ticks, jobs and the clock are not bounded.                              *)
(***************************************************************************)
EXTENDS AutoSend

CONSTANTS
    Tickets,
    LineDays,    \* the days with lines
    Changes,     \* names of the steps the owner and the failures may take
    MaxChanges   \* bound: how many they take

ASSUME NullIsNoPlan ==
    /\ \A S \in SUBSET Lines : Null # S
    /\ Null \notin [day : Days, lines : SUBSET Lines]

VARIABLES
    changes,
    ran          \* day -> the lines its first evening tick planned: a history

mcVars == <<vars, changes, ran>>

MCLines == LineDays \X Tickets

MCDayOf == [l \in MCLines |-> l[1]]

Does(change) ==
    change \in Changes /\ changes < MaxChanges /\ changes' = changes + 1

(* The day's work is there, its tickets and texts ready or not. *)
Arrived == [sure |-> TRUE, unsent |-> TRUE, id |-> FALSE]

FirstTexts ==
    {Null} \cup {[Blank EXCEPT !.text = t, !.manual = TRUE] : t \in OwnTexts \ Unsafe}
           \cup {WithGenerated(Blank, [desc |-> 0, grade |-> "passed"], 0)}

MCInit ==
    /\ work = [l \in Lines |-> Arrived]
    /\ version = [l \in Lines |-> 0]
    /\ stored \in [Lines -> FirstTexts]
    /\ jobs = [j \in Jobs |-> Null]
    /\ clock = [day |-> 1, evening |-> FALSE]
    /\ enabled \in BOOLEAN
    /\ plan = Null /\ recap = 0 /\ tick = Null
    /\ sends = [s \in Senders |-> Null]
    /\ tempo = [l \in Lines |-> NothingSent]
    /\ byHand = {}
    /\ changes = 0 /\ ran = [d \in Days |-> Null]

FirstRun ==
    ran' = IF plan' # Null /\ plan'.day = Today /\ ran[Today] = Null
           THEN [ran EXCEPT ![Today] = plan'.lines] ELSE ran

Step(name, action) == Does(name) /\ action /\ UNCHANGED ran

MCNext ==
    \/ (TickBegin \/ TickStep \/ SyncGoesOn \/ JobsGoOn \/ Evening \/ Midnight) /\ FirstRun
          /\ UNCHANGED changes
    \/ Step("edit", Edits)
    \/ Step("toggle", Toggle)
    \/ Step("hand", \E l \in Lines : EnterByHand(l))
    \/ Step("sync", SyncBegins)
    \/ Step("confirm", (\E l \in Lines : Confirm({l})) \/ \E d \in Days : Confirm(LinesOf(d)))
    \/ Step("crash", Crash)

MCSpec == MCInit /\ [][MCNext]_mcVars

MCFairSpec == MCSpec /\ Fairness

-----------------------------------------------------------------------------
(* The run of a day is the one its first evening tick planned: a line that *)
(* turns ready later, after retries, crashes and turns of the switch, is   *)
(* not sent unattended (PLAN_KEY; FR-27a of the spec).                     *)
OneRunADay ==
    [][\A l \in Busy' \ Busy :
          ran[DayOf[l]] # Null /\ l \in ran[DayOf[l]] /\ tick.day = DayOf[l]]_mcVars
=============================================================================
