------------------------------ MODULE AutoSend ------------------------------
(***************************************************************************)
(* The 17:00 run (auto_send.rs): every quarter of an hour the daemon       *)
(* ticks; the first tick of the evening plans the day, each tick sends the *)
(* planned lines that have no outcome, the first tick of a later day       *)
(* closes an old plan.  A tick holds the connection lock from its first    *)
(* statement to its last, requests to Tempo included, so the daemon's      *)
(* edits and jobs wait for it.  A sync in a terminal has a connection of   *)
(* its own: it goes on beside a tick, and the owner edits beside it.       *)
(***************************************************************************)
EXTENDS TicketLine, FiniteSets

CONSTANTS
    Daemon,      \* the tick, as one who sends
    Terminals,   \* the owner's syncs that may be under way at once
    DayOf,       \* line -> its day
    LastDay,     \* bound: the clock stops in the evening of this day
    MaxLost      \* bound: answers to POSTs of one line that are lost

ASSUME DayAssumption == LastDay \in Nat \ {0} /\ MaxLost \in Nat /\ DayOf \in [Lines -> 1 .. LastDay]

Senders == Terminals \cup {Daemon}

(* A sync of one line between its first read and its end.                  *)
Send == [line : Lines,
         at : {"listed", "read", "sent"},
         id : BOOLEAN,                        \* the blocks it read had a worklog
         blocks : {"all", "some", "none"},    \* which of the line's blocks it read
         basis : Versions \cup {Null}]        \* what it read, if it has to write the text

ASSUME SenderAssumption ==
    /\ IsFiniteSet(Terminals) /\ Daemon \notin Terminals
    /\ Null \notin Send

VARIABLES
    clock,     \* the day, and whether it is 17:00 yet
    enabled,   \* the Settings switch
    plan,      \* meta `auto_send_plan`: a day and its lines, or Null
    recap,     \* meta `recap_built_for`: a day, 0 for none
    tick,      \* the tick under way, with the day it read at its start, or Null
    sends,     \* sender -> the line it sends and how far it is, or Null
    tempo,     \* line -> worklogs Tempo made for its blocks, and answers lost
    byHand     \* lines whose work the owner entered in Tempo himself

autoVars == <<clock, enabled, plan, recap, tick, sends, tempo, byHand>>

vars == <<lineVars, autoVars>>

Days == 1 .. LastDay

Today == clock.day

LinesOf(d) == {l \in Lines : DayOf[l] = d}

TypeOK ==
    /\ LinesTypeOK
    /\ clock \in [day : Days, evening : BOOLEAN]
    /\ enabled \in BOOLEAN
    /\ plan \in [day : Days, lines : SUBSET Lines] \cup {Null}
    /\ recap \in 0 .. LastDay
    /\ tick \in [day : Days, todo : SUBSET Lines, unreachable : BOOLEAN] \cup {Null}
    /\ sends \in [Senders -> Send \cup {Null}]
    /\ tempo \in [Lines -> [posts : Nat, lost : Nat]]
    /\ byHand \in SUBSET Lines

NothingSent == [posts |-> 0, lost |-> 0]

Init ==
    /\ LinesInit
    /\ clock = [day |-> 1, evening |-> FALSE]
    /\ enabled \in BOOLEAN
    /\ plan = Null /\ recap = 0 /\ tick = Null
    /\ sends = [s \in Senders |-> Null]
    /\ tempo = [l \in Lines |-> NothingSent]
    /\ byHand = {}

-----------------------------------------------------------------------------
(* Lines with no outcome: pending.  "unreachable" alone is tried again.    *)

Open(l) ==
    stored[l] # Null /\ ~stored[l].sent /\ stored[l].error \in {Null, "unreachable"}

(* `SET send_error = NULL, auto_sent_at = COALESCE(...) WHERE send_error   *)
(* IS NOT NULL`                                                            *)
ErrorCleared(row) ==
    IF row # Null /\ row.error # Null THEN [row EXCEPT !.error = Null, !.sent = TRUE] ELSE row

(* set_outcome *)
Outcome(row, error) ==
    IF row = Null THEN Null ELSE [row EXCEPT !.sent = (error = Null), !.error = error]

-----------------------------------------------------------------------------
(* Sending one line: sync_day_with_invoker_for with only_issue, or one     *)
(* group of a sync of the day.  Its statements and requests are steps of   *)
(* their own: a terminal and a tick take them in any order.                *)

Unsent(l) == work[l] # Null /\ work[l].unsent

(* A tick comes to a planned line: its next one is any, the order is that  *)
(* of the plan.                                                            *)
AtLine(l) == tick # Null /\ sends[Daemon] = Null /\ l \in tick.todo

Done(l) == [tick EXCEPT !.todo = @ \ {l}]

At(s, stage) == sends[s] # Null /\ sends[s].at = stage

LineOf(s) == sends[s].line

(* It POSTs, or has: the blocks it read, still the line's, had no worklog. *)
Anew(s) == ~sends[s].id /\ sends[s].blocks # "none"

Awaits(s, l) == At(s, "sent") /\ LineOf(s) = l /\ Anew(s)

(* fetch_eligible_blocks *)
Lists(s, l) ==
    /\ sends[s] = Null /\ Unsent(l)
    /\ s = Daemon => AtLine(l) /\ Open(l)
    /\ sends' = [sends EXCEPT ![s] = [line |-> l, at |-> "listed", id |-> FALSE,
                                      blocks |-> "none", basis |-> Null]]
    /\ UNCHANGED <<lineVars, clock, enabled, plan, recap, tick, tempo, byHand>>

(* fetch_blocks_for_issue, classify_group, line_for.  A tick has no model  *)
(* to write a missing text with.                                           *)
Reads(s) ==
    /\ At(s, "listed")
    /\ LET l == LineOf(s) IN
       /\ work[l] # Null
       /\ sends' = [sends EXCEPT ![s] =
              [line |-> l, at |-> "read", id |-> work[l].id, blocks |-> "all",
               basis |-> IF s # Daemon /\ TextOf(l) = Null THEN version[l] ELSE Null]]
    /\ UNCHANGED <<lineVars, clock, enabled, plan, recap, tick, tempo, byHand>>

(* commit_generated without force, for a text written to a prompt that is  *)
(* no older than what was read; the source hash is taken before the prompt *)
StoresText(s) ==
    /\ sends[s].basis # Null /\ ~Manual(LineOf(s))
    /\ \E basis, desc \in Versions :
           /\ sends[s].basis <= basis /\ basis <= desc /\ desc <= version[LineOf(s)]
           /\ Finish(LineOf(s), WithGenerated(Ensured(LineOf(s)),
                                    [desc |-> desc, grade |-> "unchecked"], basis))

(* The check of a POST finds nothing or is not made, a missing text is     *)
(* written if a model answers, Tempo carries the request out: a worklog is *)
(* made or replaced.                                                       *)
Requests(s) ==
    /\ At(s, "read")
    /\ tempo' = IF Anew(s) THEN [tempo EXCEPT ![LineOf(s)].posts = @ + 1] ELSE tempo
    /\ StoresText(s) \/ UNCHANGED <<stored, work>>
    /\ sends' = [sends EXCEPT ![s] = [@ EXCEPT !.at = "sent", !.basis = Null]]
    /\ UNCHANGED <<version, jobs, clock, enabled, plan, recap, tick, byHand>>

(* A sync ends.  What a tick's comes to is recorded (set_outcome).         *)
Ends(s, row, error) ==
    /\ sends' = [sends EXCEPT ![s] = Null]
    /\ stored' = [stored EXCEPT ![LineOf(s)] = IF s = Daemon THEN Outcome(row, error) ELSE row]
    /\ tick' = IF s = Daemon
               THEN [Done(LineOf(s)) EXCEPT !.unreachable = @ \/ error = "unreachable"]
               ELSE tick

FlagCleared(s) ==   \* mutant
    IF sends[s].blocks = "none" THEN work ELSE [work EXCEPT ![LineOf(s)].unsent = FALSE]

(* `SET tempo_worklog_id = ?, dirty = 0` of the blocks that were read: one *)
(* that came to the line since has no worklog yet                          *)
WrittenBack(s) ==
    IF sends[s].blocks = "none" THEN work
    ELSE [work EXCEPT ![LineOf(s)].id = TRUE,
                      ![LineOf(s)].unsent = @ /\ sends[s].blocks = "some"]

WritesBack(s) ==
    /\ At(s, "sent")
    /\ work' = WrittenBack(s)
    /\ Ends(s, ErrorCleared(stored[LineOf(s)]), Null)
    /\ UNCHANGED <<version, jobs, clock, enabled, plan, recap, tempo, byHand>>

(* check_line before a POST: an entry of the owner's own, or one that no   *)
(* block has the id of (mark_already)                                      *)
Unclaimed(l) ==
    l \in byHand \/ tempo[l].posts > (IF work[l] # Null /\ work[l].id THEN 1 ELSE 0)

Finds(s) ==
    /\ At(s, "read") /\ ~sends[s].id /\ Unclaimed(LineOf(s))
    /\ Ends(s, Ensured(LineOf(s)), Null)
    /\ UNCHANGED <<work, version, jobs, clock, enabled, plan, recap, tempo, byHand>>

(* no answer came, or none with an id, to a request that was carried out *)
AnswerLost(s) ==
    LET l == LineOf(s) IN
    IF Awaits(s, l)
    THEN tempo[l].lost < MaxLost /\ tempo' = [tempo EXCEPT ![l].lost = @ + 1]
    ELSE tempo' = tempo

(* Tempo or Jira refuses or is not reached, the owner stops his sync *)
Fails(s, error) ==
    /\ sends[s] # Null
    /\ AnswerLost(s)
    /\ Ends(s, stored[LineOf(s)], error)
    /\ UNCHANGED <<work, version, jobs, clock, enabled, plan, recap, byHand>>

GoesOn(s) ==
    \/ Reads(s) \/ Requests(s) \/ WritesBack(s) \/ Finds(s)
    \/ \E e \in {"unreachable", "rejected"} : Fails(s, e)

-----------------------------------------------------------------------------
(* The plan. *)

TextOK(l) ==
    /\ TextOf(l) # Null
    /\ stored[l].manual \/ stored[l].check = "passed"

(* ready_lines *)
Ready(l) ==
    /\ work[l] # Null /\ work[l].sure /\ work[l].unsent
    /\ TextOK(l)
    /\ ~stored[l].sent /\ stored[l].error = Null

PlanStale == plan # Null /\ plan.day # Today

NothingMarked == stored   \* mutant

(* The day of the plan is over: its open lines are Not sent. *)
RolledOver ==
    [l \in Lines |->
        IF PlanStale /\ l \in plan.lines /\ Open(l) /\ stored[l].error = Null
        THEN [stored[l] EXCEPT !.error = "unreachable"] ELSE stored[l]]

PlanAnew == [day |-> Today, lines |-> {l \in LinesOf(Today) : Ready(l)}]   \* mutant

PlanForToday ==
    IF plan # Null /\ ~PlanStale THEN plan
    ELSE [day |-> Today, lines |-> {l \in LinesOf(Today) : Ready(l)}]

(* run_if_due down to the loop; a rollover recap that fails keeps the plan *)
TickBegin ==
    /\ tick = Null
    /\ stored' = RolledOver
    /\ \E built \in BOOLEAN :
           LET wanted == PlanStale /\ enabled /\ recap # plan.day IN
           /\ built => wanted
           /\ recap' = IF built THEN plan.day ELSE recap
           /\ IF enabled /\ clock.evening
              THEN /\ plan' = PlanForToday
                   /\ tick' = [day |-> Today, todo |-> PlanForToday.lines,
                              unreachable |-> FALSE]
              ELSE /\ plan' = IF PlanStale /\ (built \/ ~wanted) THEN Null ELSE plan
                   /\ tick' = Null
    /\ UNCHANGED <<work, version, jobs, clock, enabled, sends, tempo, byHand>>

-----------------------------------------------------------------------------
(* The loop over the planned lines, under the lock. *)

(* it has an outcome *)
PassOver(l) ==
    /\ AtLine(l) /\ ~Open(l)
    /\ tick' = Done(l)
    /\ UNCHANGED <<lineVars, clock, enabled, plan, recap, sends, tempo, byHand>>

(* nothing of the line is eligible: no result is a rejection *)
NothingToSend(l) ==
    /\ AtLine(l) /\ Open(l) /\ ~Unsent(l)
    /\ stored' = [stored EXCEPT ![l] = Outcome(@, Null)]
    /\ tick' = Done(l)
    /\ UNCHANGED <<work, version, jobs, clock, enabled, plan, recap, sends, tempo, byHand>>

(* the end of run_if_due: the recap, unless Tempo was unreachable *)
TickEnd ==
    /\ tick # Null /\ tick.todo = {}
    /\ tick' = Null
    /\ \/ recap' = recap
       \/ ~tick.unreachable /\ recap' = tick.day
    /\ UNCHANGED <<lineVars, clock, enabled, plan, sends, tempo, byHand>>

TickStep ==
    \/ \E l \in Lines : PassOver(l) \/ NothingToSend(l) \/ Lists(Daemon, l)
    \/ GoesOn(Daemon)
    \/ TickEnd

(* The daemon dies, and its jobs with it: before it knows the answer, or   *)
(* between the write-back and the outcome.                                 *)
Crash ==
    /\ tick' = Null /\ jobs' = [j \in Jobs |-> Null]
    /\ sends' = [sends EXCEPT ![Daemon] = Null]
    /\ \/ sends[Daemon] = Null /\ UNCHANGED <<work, stored, tempo>>
       \/ sends[Daemon] # Null /\ AnswerLost(Daemon) /\ UNCHANGED <<work, stored>>
       \/ /\ At(Daemon, "sent")
          /\ work' = WrittenBack(Daemon)
          /\ stored' = [stored EXCEPT ![LineOf(Daemon)] = ErrorCleared(@)]
          /\ tempo' = tempo
    /\ UNCHANGED <<version, clock, enabled, plan, recap, byHand>>

-----------------------------------------------------------------------------
(* The owner. *)

(* `worklog sync`.  A sync on the day page takes the same steps under the  *)
(* lock: it is a terminal's that meets no tick and no edit.                *)
SyncBegins == \E t \in Terminals, l \in Lines : Lists(t, l)

SyncGoesOn == \E t \in Terminals : GoesOn(t)

ConfirmsEverything(l) == stored[l] # Null   \* mutant

Confirmable(l) ==
    stored[l] # Null /\ stored[l].sent /\ stored[l].error = Null /\ ~stored[l].confirmed

(* confirm: one line of a day, or all *)
Confirm(S) ==
    /\ tick = Null /\ \E l \in S : Confirmable(l)
    /\ stored' = [l \in Lines |-> IF l \in S /\ Confirmable(l)
                                  THEN [stored[l] EXCEPT !.confirmed = TRUE] ELSE stored[l]]
    /\ UNCHANGED <<work, version, jobs, autoVars>>

Toggle ==
    /\ enabled' = ~enabled
    /\ UNCHANGED <<lineVars, clock, plan, recap, tick, sends, tempo, byHand>>

EnterByHand(l) ==
    /\ l \notin byHand /\ byHand' = byHand \cup {l}
    /\ UNCHANGED <<lineVars, clock, enabled, plan, recap, tick, sends, tempo>>

Edit(l) ==
    /\ tick = Null /\ LineEdit(l)
    /\ UNCHANGED autoVars

(* a sync under way wrote down the blocks it read *)
KnowsOf(l, part) ==
    [s \in Senders |-> IF sends[s] # Null /\ LineOf(s) = l /\ sends[s].blocks # "none"
                       THEN [sends[s] EXCEPT !.blocks = part] ELSE sends[s]]

BlockArrives(l, sure) ==
    /\ tick = Null /\ WorkArrives(l, sure)
    /\ sends' = KnowsOf(l, "some")
    /\ UNCHANGED <<clock, enabled, plan, recap, tick, tempo, byHand>>

(* What Tempo holds for blocks that leave a line is no longer the line's.  *)
BlocksLeave(l) ==
    /\ tick = Null /\ WorkLeaves(l)
    /\ sends' = KnowsOf(l, "none")
    /\ tempo' = [tempo EXCEPT ![l] = NothingSent]
    /\ UNCHANGED <<clock, enabled, plan, recap, tick, byHand>>

Edits ==
    \E l \in Lines : Edit(l) \/ BlocksLeave(l) \/ \E b \in BOOLEAN : BlockArrives(l, b)

(* model calls go on during a tick, the statements around them do not *)
JobsGoOn ==
    /\ \E j \in Jobs : Answered(j) \/ Unanswered(j) \/ (tick = Null /\ JobStep(j))
    /\ UNCHANGED autoVars

Evening ==
    /\ ~clock.evening /\ clock' = [clock EXCEPT !.evening = TRUE]
    /\ UNCHANGED <<lineVars, enabled, plan, recap, tick, sends, tempo, byHand>>

Midnight ==
    /\ clock.evening /\ Today < LastDay
    /\ clock' = [day |-> Today + 1, evening |-> FALSE]
    /\ UNCHANGED <<lineVars, enabled, plan, recap, tick, sends, tempo, byHand>>

Owner ==
    \/ Edits \/ Toggle \/ SyncBegins
    \/ \E l \in Lines : EnterByHand(l) \/ Confirm({l})
    \/ \E d \in Days : Confirm(LinesOf(d))

Next ==
    Owner \/ SyncGoesOn \/ JobsGoOn \/ TickBegin \/ TickStep \/ Crash \/ Evening \/ Midnight

Spec == Init /\ [][Next]_vars

(* The loop of spawn_auto_send_loop never ends and a tick runs to its end, *)
(* each request having a timeout; the clock moves on.                      *)
Fairness == WF_vars(TickBegin) /\ WF_vars(TickStep) /\ WF_vars(Evening) /\ WF_vars(Midnight)

-----------------------------------------------------------------------------
(* A sync makes Tempo a second worklog for a line's blocks only if the     *)
(* answers to the earlier ones were lost, or if it met another sync of     *)
(* the line: that one still waits for its answer, or it has stored the id  *)
(* since this one read that there was none.  Whatever retries, crashes and *)
(* edits come between, a line whose send was recorded is updated, not sent *)
(* anew (classify_group; FR-34 of the spec).                               *)
NoSecondWorklog ==
    [][\A s \in Senders :
          (At(s, "read") /\ Anew(s) /\ sends'[s] # Null /\ sends'[s].at = "sent") =>
              LET l == LineOf(s) IN
              \/ tempo[l].posts = tempo[l].lost
              \/ work[l].id
              \/ \E t \in Senders : Awaits(t, l)]_vars

(* Outcome and error exclude each other, and only a line that was sent     *)
(* can be confirmed: Review's two kinds of lines are disjoint.             *)
OutcomesAreDisjoint ==
    \A l \in Lines : stored[l] # Null =>
        /\ ~(stored[l].sent /\ stored[l].error # Null)
        /\ stored[l].confirmed => stored[l].sent

(* auto_send::review_lines, seen as phases of a line *)
PhaseOf(row) ==
    IF row = Null \/ (~row.sent /\ row.error = Null) THEN "open"
    ELSE IF row.error # Null THEN "failed"
    ELSE IF row.confirmed THEN "confirmed" ELSE "sent"

(* the line a tick is busy with *)
Busy == {l \in Lines : sends[Daemon] # Null /\ LineOf(Daemon) = l}

Review == INSTANCE LineReview WITH phase <- [l \in Lines |-> PhaseOf(stored[l])], busy <- Busy

(* The line table implements the promise of the Review list.               *)
ImplementsReview == Review!Spec

(* The plan does not outlive its day unsettled: every planned line ends up *)
(* sent or with an error, whatever Tempo does and whenever the daemon dies *)
(* or the switch is turned, or the owner removes its text (FR-27b).        *)
PlannedLinesEnd ==
    \A l \in Lines : DayOf[l] < LastDay =>
        ((plan # Null /\ l \in plan.lines) ~> (stored[l] = Null \/ PhaseOf(stored[l]) # "open"))
=============================================================================
