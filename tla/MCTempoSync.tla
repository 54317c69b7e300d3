---------------------------- MODULE MCTempoSync ----------------------------
(***************************************************************************)
(* TempoSync on a day of one or two lines.  A run names the owner's        *)
(* changes and the failures that may happen in it, and bounds how many of  *)
(* each do.                                                                *)
(***************************************************************************)
EXTENDS TempoSync

CONSTANTS
    Changes,     \* a subset of {"resize", "reword", "assign", "personal", "text",
                 \*              "hours", "delete", "hand"}
    MaxChanges,  \* bound: changes by the owner, logged blocks not counted
    MaxRuns      \* bound: sync runs started

VARIABLES changes, runs

mcVars == <<vars, changes, runs>>

MCWorklogs == 1 .. MaxWorklogs

MCInit == Init /\ changes = 0 /\ runs = 0

Does(change) ==
    change \in Changes /\ changes < MaxChanges /\ changes' = changes + 1

MCOwner ==
    /\ UNCHANGED runs
    /\ \/ Does("resize") /\ \E i \in Blocks, d \in Minutes : Resize(i, d)
       \/ Does("reword") /\ \E i \in Blocks, t \in Texts : Reword(i, t)
       \/ Does("assign") /\ \E i \in Blocks, k \in Tickets : Reassign(i, k)
       \/ Does("personal") /\ \E i \in Blocks, p \in BOOLEAN : SetPersonal(i, p)
       \/ Does("text") /\ \E k \in Tickets, t \in Texts \cup {Null} : SetText(k, t)
       \/ Does("hours") /\ \E k \in Tickets, h \in Hours \cup {Null} : SetHours(k, h)
       \/ Does("hand") /\ \E k \in Tickets, m \in Hours, t \in Texts : EnterByHand(k, m, t)
       \/ Does("delete") /\ \E i \in Blocks, credentials \in BOOLEAN :
                               DeleteFetch(i, credentials)
       \/ /\ UNCHANGED changes
          /\ \/ \E k \in Tickets, d \in Minutes, t \in Texts : LogTime(k, d, t)
             \/ DeleteStep

MCSync ==
    /\ UNCHANGED changes
    /\ \E s \in Syncers :
          \/ runs < MaxRuns /\ runs' = runs + 1 /\ Begin(s)
          \/ /\ UNCHANGED runs
             /\ ~(sync[s] = Idle)
             /\ SyncStep(s) \/ Refuse(s) \/ Abort(s) \/ \E k \in Tickets : Unresolved(s, k)

MCNext == MCOwner \/ MCSync

MCSpec == MCInit /\ [][MCNext]_mcVars
=============================================================================
