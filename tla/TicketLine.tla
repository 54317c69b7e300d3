----------------------------- MODULE TicketLine -----------------------------
(***************************************************************************)
(* A day's ticket lines, the text and hours stored for each (the table     *)
(* tempo_line_texts), and the jobs that write line texts with a model call *)
(* outside the connection lock: the pass over a day's pending lines, the   *)
(* owner's Regenerate, and the rewrite from an instruction                 *)
(* (tempo_lines.rs, daemon_tempo_lines.rs, tempo_line_redescribe.rs,       *)
(* line_check.rs).                                                         *)
(***************************************************************************)
EXTENDS Naturals

CONSTANTS
    Null,
    Lines,       \* ticket lines: the key (day, jira_issue)
    OwnTexts,    \* texts the owner may type
    Unsafe,      \* those of them that static_check flags
    Jobs,        \* model jobs that may be under way at once
    MaxVersion   \* bound: times a line's descriptions change

Versions == 0 .. MaxVersion

(* A text a model wrote from the descriptions of a version, and what the   *)
(* two checks say of it.                                                   *)
Grades == {"passed", "needs_look", "unchecked"}

Generated == [desc : Versions, grade : Grades]

Texts == OwnTexts \cup Generated

Checks == {"passed", "needs_look", Null}

Work == [sure : BOOLEAN,     \* block_ready holds of every block
         unsent : BOOLEAN,   \* some block is dirty or has no worklog
         id : BOOLEAN]       \* the blocks that were sent have a worklog

StoredRow == [text : Texts \cup {Null}, manual : BOOLEAN, basis : Versions \cup {Null},
              hours : BOOLEAN, check : Checks,
              sent : BOOLEAN, error : {"unreachable", "rejected", Null},
              confirmed : BOOLEAN]

Job == [kind : {"pass", "forced", "rewrite"}, line : Lines,
        at : {"prepare", "call", "commit"},
        basis : Versions,                    \* source_hash when it was found pending
        desc : Versions,                     \* the descriptions the prompt was built from
        seen : Texts \cup {Null},            \* a rewrite: the stored text it read
        text : Texts \cup {Null}]            \* the model's text

ASSUME LineAssumption ==
    /\ Unsafe \subseteq OwnTexts /\ MaxVersion \in Nat
    /\ \A S \in {Texts, Versions, Work, StoredRow, Job} : Null \notin S
    /\ Null \notin Grades \cup {"unreachable", "rejected"}

VARIABLES
    work,      \* line -> what its blocks come to, or Null: no block is on it
    version,   \* line -> the number of its present set of descriptions
    stored,    \* line -> its row of tempo_line_texts, or Null
    jobs       \* job -> what it has read and where it is, or Null

lineVars == <<work, version, stored, jobs>>

LinesTypeOK ==
    /\ work \in [Lines -> Work \cup {Null}]
    /\ version \in [Lines -> Versions]
    /\ stored \in [Lines -> StoredRow \cup {Null}]
    /\ jobs \in [Jobs -> Job \cup {Null}]

LinesInit ==
    /\ work = [l \in Lines |-> Null]
    /\ version = [l \in Lines |-> 0]
    /\ stored = [l \in Lines |-> Null]
    /\ jobs = [j \in Jobs |-> Null]

Blank == [text |-> Null, manual |-> FALSE, basis |-> Null, hours |-> FALSE,
          check |-> Null, sent |-> FALSE, error |-> Null, confirmed |-> FALSE]

-----------------------------------------------------------------------------
(* Writing a line. *)

TextOf(l) == IF stored[l] = Null THEN Null ELSE stored[l].text

Manual(l) == stored[l] # Null /\ stored[l].manual

(* ensure_row *)
Ensured(l) == IF stored[l] = Null THEN Blank ELSE stored[l]

Resynced(w) == IF w # Null /\ w.id THEN [w EXCEPT !.unsent = TRUE] ELSE w

(* finish_write: a row with neither text nor hours goes, and with it what  *)
(* auto-send and the review kept there; the line's sent blocks are marked. *)
Finish(l, row) ==
    /\ stored' = [stored EXCEPT ![l] = IF row.text = Null /\ ~row.hours THEN Null ELSE row]
    /\ work' = [work EXCEPT ![l] = Resynced(@)]

StaticCheck(t) == IF t \in Unsafe THEN "needs_look" ELSE Null

SetTextKeepsCheck(l, t) ==   \* mutant
    /\ work[l] # Null
    /\ Finish(l, [Ensured(l) EXCEPT !.text = t, !.manual = (t # Null), !.basis = Null])
    /\ UNCHANGED <<version, jobs>>

(* set_text; t = Null is the blank text that clears it *)
SetText(l, t) ==
    /\ work[l] # Null
    /\ Finish(l, [Ensured(l) EXCEPT !.text = t, !.manual = (t # Null), !.basis = Null,
                                    !.check = StaticCheck(t)])
    /\ UNCHANGED <<version, jobs>>

(* set_hours, write_hours *)
SetHours(l, set) ==
    /\ work[l] # Null
    /\ Finish(l, [Ensured(l) EXCEPT !.hours = set])
    /\ UNCHANGED <<version, jobs>>

StoresAnyGrade(row, text, basis) ==   \* mutant
    [row EXCEPT !.text = text, !.manual = FALSE, !.basis = basis, !.check = text.grade]

(* commit_generated, then set_check *)
WithGenerated(row, text, basis) ==
    [row EXCEPT !.text = text, !.manual = FALSE, !.basis = basis,
                !.check = IF text.grade = "unchecked" THEN Null ELSE text.grade]

-----------------------------------------------------------------------------
(* The jobs.  Each reads under the lock, calls the model without it, and   *)
(* commits under the lock.                                                 *)

(* pending_generation without force *)
Pending(l) ==
    /\ work[l] # Null
    /\ ~(Manual(l) /\ TextOf(l) # Null)
    /\ TextOf(l) # Null => stored[l].basis # version[l]

NewJob(kind, l) ==
    [kind |-> kind, line |-> l, at |-> "prepare", basis |-> version[l],
     desc |-> version[l], seen |-> Null, text |-> Null]

Start(j, job) == jobs[j] = Null /\ jobs' = [jobs EXCEPT ![j] = job]

(* generate_tempo_lines: the pass after an estimate, one line of it *)
StartPass(j, l) ==
    /\ Pending(l)
    /\ Start(j, NewJob("pass", l))
    /\ UNCHANGED <<work, version, stored>>

(* the route of Regenerate *)
StartForced(j, l) ==
    /\ work[l] # Null
    /\ Start(j, NewJob("forced", l))
    /\ UNCHANGED <<work, version, stored>>

(* generate_tempo_lines_with takes the lock a second time for the prompt;  *)
(* a line that lost its blocks in between has none                         *)
Prepare(j) ==
    /\ jobs[j] # Null /\ jobs[j].at = "prepare"
    /\ LET l == jobs[j].line IN
       jobs' = [jobs EXCEPT ![j] =
           IF work[l] = Null THEN Null
           ELSE [@ EXCEPT !.at = "call", !.desc = version[l]]]
    /\ UNCHANGED <<work, version, stored>>

(* tempo_line_redescribe::prepare *)
StartRewrite(j, l) ==
    /\ work[l] # Null
    /\ Start(j, [NewJob("rewrite", l) EXCEPT !.at = "call", !.seen = TextOf(l)])
    /\ UNCHANGED <<work, version, stored>>

(* The model's answer, checked (check_with_regenerate; static_check for a  *)
(* line of meetings).  A rewrite is stored as the owner's own words.       *)
Answered(j) ==
    /\ jobs[j] # Null /\ jobs[j].at = "call"
    /\ \E t \in IF jobs[j].kind = "rewrite" THEN OwnTexts
                ELSE {[desc |-> jobs[j].desc, grade |-> g] : g \in Grades} :
           jobs' = [jobs EXCEPT ![j] = [@ EXCEPT !.at = "commit", !.text = t]]
    /\ UNCHANGED <<work, version, stored>>

(* No usable answer: the pass leaves the line as it is, the others fail. *)
Unanswered(j) ==
    /\ jobs[j] # Null /\ jobs[j].at = "call"
    /\ jobs' = [jobs EXCEPT ![j] = Null]
    /\ UNCHANGED <<work, version, stored>>

Committing(j, kinds) == jobs[j] # Null /\ jobs[j].at = "commit" /\ jobs[j].kind \in kinds

OverwritesAnything(job) == TRUE   \* mutant

(* commit_generated: "a hand-written text is kept unless `force`" *)
MayOverwrite(job) == job.kind = "forced" \/ ~Manual(job.line)

BasisAtCommit(job) == version[job.line]   \* mutant

BasisOf(job) == job.basis

Commit(j) ==
    /\ Committing(j, {"pass", "forced"})
    /\ LET job == jobs[j] IN
       IF MayOverwrite(job)
       THEN Finish(job.line, WithGenerated(Ensured(job.line), job.text, BasisOf(job)))
       ELSE UNCHANGED <<work, stored>>
    /\ jobs' = [jobs EXCEPT ![j] = Null]
    /\ UNCHANGED version

(* `text IS ?4`: the owner saw the text that is replaced *)
StillAsSeen(job) == TextOf(job.line) = job.seen

(* tempo_line_redescribe::commit, one transaction *)
CommitRewrite(j) ==
    /\ Committing(j, {"rewrite"})
    /\ LET job == jobs[j] IN
       IF work[job.line] # Null /\ StillAsSeen(job)
       THEN Finish(job.line, [Ensured(job.line) EXCEPT
                !.text = job.text, !.manual = TRUE, !.basis = Null, !.check = Null])
       ELSE UNCHANGED <<work, stored>>
    /\ jobs' = [jobs EXCEPT ![j] = Null]
    /\ UNCHANGED version

JobStep(j) ==
    Prepare(j) \/ Answered(j) \/ Unanswered(j) \/ Commit(j) \/ CommitRewrite(j)

-----------------------------------------------------------------------------
(* What edits of blocks come to on a line. *)

NewVersion(l) ==
    version[l] < MaxVersion /\ version' = [version EXCEPT ![l] = @ + 1]

(* a block comes to a line that has none, or joins its blocks, not sent *)
WorkArrives(l, sure) ==
    /\ NewVersion(l)
    /\ work' = [work EXCEPT ![l] =
           IF @ = Null THEN [sure |-> sure, unsent |-> TRUE, id |-> FALSE]
           ELSE [@ EXCEPT !.sure = work[l].sure /\ sure, !.unsent = TRUE]]
    /\ UNCHANGED <<stored, jobs>>

(* its blocks go to another ticket, or become personal, or are deleted *)
WorkLeaves(l) ==
    /\ work[l] # Null
    /\ work' = [work EXCEPT ![l] = Null]
    /\ UNCHANGED <<version, stored, jobs>>

(* descriptions change: by the owner, who marks sent blocks, or by an      *)
(* estimate, which does not                                                *)
WorkReworded(l, marked) ==
    /\ work[l] # Null /\ NewVersion(l)
    /\ work' = [work EXCEPT ![l] = IF marked THEN Resynced(@) ELSE @]
    /\ UNCHANGED <<stored, jobs>>

(* the owner sets the ticket of every block, or Verdict picks it *)
TicketConfirmed(l) ==
    /\ work[l] # Null /\ ~work[l].sure
    /\ work' = [work EXCEPT ![l].sure = TRUE]
    /\ UNCHANGED <<version, stored, jobs>>

(* the edits that leave a line the blocks it has *)
LineEdit(l) ==
    \/ \E t \in OwnTexts \cup {Null} : SetText(l, t)
    \/ \E b \in BOOLEAN : SetHours(l, b) \/ WorkReworded(l, b)
    \/ TicketConfirmed(l)
    \/ \E j \in Jobs : StartPass(j, l) \/ StartForced(j, l) \/ StartRewrite(j, l)

-----------------------------------------------------------------------------
(* A line whose check is "passed" holds the very text the two checks were  *)
(* asked about: no later text inherits the verdict of an earlier one       *)
(* (commit_generated clears check_status, set_text and the rewrite too).   *)
CheckFitsText ==
    \A l \in Lines :
        stored[l] # Null /\ stored[l].check = "passed" =>
            /\ ~stored[l].manual
            /\ stored[l].text \in Generated /\ stored[l].text.grade = "passed"

(* A generated text that was not written from the line's present           *)
(* descriptions is pending, so the next pass writes it again, even when    *)
(* the descriptions changed between the two times the pass took the lock,  *)
(* or while the model was writing (source_hash, pending_generation).       *)
StaleTextIsPending ==
    \A l \in Lines :
        (work[l] # Null /\ ~Manual(l) /\ TextOf(l) \in Generated)
            => (TextOf(l).desc # version[l] => Pending(l))

(* Words of the owner that came after a job had begun are not overwritten  *)
(* by it: a stored manual text changes only by the owner, by a rewrite of  *)
(* that very text, or by a Regenerate he asked for (commit_generated,      *)
(* tempo_line_redescribe::commit).                                         *)
HandTextSurvives ==
    [][\A j \in Jobs, l \in Lines :
          (jobs[j] # Null /\ jobs[j].line = l /\ jobs'[j] = Null /\ jobs[j].kind # "forced"
              /\ Manual(l) /\ TextOf(l)' # TextOf(l))
          => jobs[j].kind = "rewrite" /\ jobs[j].seen = TextOf(l)]_lineVars
=============================================================================
