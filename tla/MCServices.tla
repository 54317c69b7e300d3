----------------------------- MODULE MCServices -----------------------------
(***************************************************************************)
(* Four parts that share no state: the updater, the supervisor of the      *)
(* Verdict helper, the compression of old days, the estimator.  A          *)
(* behaviour is one of a single part; the others stay where they start.    *)
(***************************************************************************)
EXTENDS Updater, VerdictSupervisor, Compression, Estimates

CONSTANT MaxStarts   \* bound: runs of self-update

VARIABLES
    part,
    starts     \* how many runs of self-update were started

mcVars == <<part, updaterVars, starts, supervisorVars, compressionVars, estimateVars>>

MCPatches == {<<1, 2>>}

MCNear == {<<1, 2>>}

Evening == [day |-> 0, start |-> 1]

Morning == [day |-> 0, start |-> 0]

NextDay == [day |-> 1, start |-> 0]

MCSlots == {Morning, Evening, NextDay}

(* the evening's event comes after midnight *)
MCEvents == {[slot |-> Morning, day |-> 0], [slot |-> Evening, day |-> 1],
             [slot |-> NextDay, day |-> 1]}

UpdaterPart ==
    /\ part = "updater" /\ UpdaterNext
    /\ starts' = starts + Cardinality({p \in Updaters : runs[p] = Null /\ runs'[p] # Null})
    /\ starts' <= MaxStarts
    /\ UNCHANGED <<supervisorVars, compressionVars, estimateVars>>

SupervisorPart ==
    /\ part = "supervisor" /\ SupervisorNext
    /\ UNCHANGED <<updaterVars, starts, compressionVars, estimateVars>>

CompressionPart ==
    /\ part = "compression" /\ CompressionNext
    /\ UNCHANGED <<updaterVars, starts, supervisorVars, estimateVars>>

EstimatesPart ==
    /\ part = "estimates" /\ EstimatesNext
    /\ UNCHANGED <<updaterVars, starts, supervisorVars, compressionVars>>

MCInit ==
    /\ part \in {"updater", "supervisor", "compression", "estimates"}
    /\ UpdaterInit /\ (part # "updater" => dest = Release(1) /\ running = Null)
    /\ starts = 0
    /\ SupervisorInit
    /\ part # "supervisor" => env = "missing" /\ ~orphan
    /\ CompressionInit
    /\ events = IF part = "compression" THEN Events ELSE {}
    /\ EstimatesInit
    /\ \A i \in Blocks : ~day[i].personal /\ (day[i].ticket = MeetingKey \/ day[i].note)
    /\ part # "estimates" => \A i \in Blocks : day[i].ticket = MeetingKey /\ day[i].note

MCNext == (UpdaterPart \/ SupervisorPart \/ CompressionPart \/ EstimatesPart) /\ UNCHANGED part

MCSpec ==
    /\ MCInit /\ [][MCNext]_mcVars
    /\ part = "supervisor" => SupervisorFairness
    /\ part = "compression" => CompressionFairness

TypeOK == UpdaterTypeOK /\ SupervisorTypeOK /\ CompressionTypeOK /\ EstimatesTypeOK

(* After failures, kills and a snapshot left behind the compression for    *)
(* the day's horizon is done in the end (the latch is set only then).      *)
PruneIsDone == part = "compression" => PruneIsRetried
=============================================================================
