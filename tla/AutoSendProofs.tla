--------------------------- MODULE AutoSendProofs ---------------------------
(***************************************************************************)
(* Theorems about AutoSend: any number of lines, days, jobs under way and  *)
(* texts, and any number of lost answers and changed descriptions.  The    *)
(* last one is about the runs of MCAutoSend, which start from lines that   *)
(* are ready or not and remember what each day's run planned.              *)
(***************************************************************************)
EXTENDS MCAutoSend, FiniteSetTheorems, TLAPS

(* What holds of a line's row, its present descriptions being those of     *)
(* version v: a generated text was written from descriptions no newer than *)
(* v and no older than the ones its source hash stands for.                *)
TextFits(row, v) ==
    ~row.manual /\ row.text \in Generated =>
        row.basis \in Versions /\ row.basis <= row.text.desc /\ row.text.desc <= v

CheckFits(row) ==
    row.check = "passed" =>
        ~row.manual /\ row.text \in Generated /\ row.text.grade = "passed"

OutcomeFits(row) == (row.sent => row.error = Null) /\ (row.confirmed => row.sent)

RowFits(row, v) ==
    row # Null => TextFits(row, v) /\ CheckFits(row) /\ OutcomeFits(row)

JobFits(job, versions) ==
    job # Null =>
        /\ job.basis <= job.desc /\ job.desc <= versions[job.line]
        /\ job.at = "commit" /\ job.kind # "rewrite" =>
               job.text \in Generated /\ job.text.desc = job.desc

(* What Tempo was sent, for a line whose blocks have no worklog yet: every *)
(* worklog it made is one whose answer was lost or is still awaited.  A    *)
(* line without blocks has none that a sync knows of.                      *)
HasId(l) == work[l] # Null /\ work[l].id

Posted(l) == {s \in Senders : Awaits(s, l)}

TempoFits(l) ==
    /\ ~HasId(l) => tempo[l].posts = tempo[l].lost + Cardinality(Posted(l))
    /\ work[l] = Null =>
           \A s \in Senders : sends[s] # Null /\ LineOf(s) = l => sends[s].blocks = "none"

(* The run sends within a tick, and no line that was confirmed.            *)
RunFits ==
    sends[Daemon] # Null =>
        /\ tick # Null /\ LineOf(Daemon) \in tick.todo
        /\ PhaseOf(stored[LineOf(Daemon)]) # "confirmed"

Inv ==
    /\ TypeOK
    /\ \A l \in Lines : RowFits(stored[l], version[l])
    /\ \A j \in Jobs : JobFits(jobs[j], version)
    /\ \A l \in Lines : TempoFits(l)
    /\ RunFits

-----------------------------------------------------------------------------
(* Rows. *)

MayMove(p, q) ==
    \/ q = p \/ q = "open"
    \/ p = "open" /\ q \in {"failed", "sent"}
    \/ p = "failed" /\ q = "sent"
    \/ p = "sent" /\ q = "confirmed"

(* A change of a row that keeps what holds of it, as the Review list may.  *)
GoodChange(old, new, v) ==
    /\ new \in StoredRow \cup {Null} /\ RowFits(new, v)
    /\ MayMove(PhaseOf(old), PhaseOf(new))

EnsuredRow(row) == IF row = Null THEN Blank ELSE row

LEMMA RowIsNotNull == Null \notin StoredRow /\ Null \notin Texts /\ Null \notin Work /\ Null \notin Job
                      /\ Null \notin Versions /\ Unsafe \subseteq OwnTexts
                      /\ Null \notin {"passed", "needs_look", "unreachable", "rejected"}
  BY LineAssumption DEF Grades

LEMMA BlankIsRow == Blank \in StoredRow /\ PhaseOf(Blank) = "open"
<1>1. Blank \in StoredRow
  BY DEF Blank, StoredRow, Checks
<1> QED BY <1>1 DEF Blank, PhaseOf

LEMMA BlankFits ==
  ASSUME NEW v \in Versions
  PROVE  RowFits(Blank, v)
<1>1. Null # "passed" /\ Null \notin Generated
  BY RowIsNotNull DEF Texts
<1> QED BY <1>1 DEF Blank, RowFits, TextFits, CheckFits, OutcomeFits

LEMMA EnsuredFits ==
  ASSUME NEW row \in StoredRow \cup {Null}, NEW v \in Versions, RowFits(row, v)
  PROVE  /\ EnsuredRow(row) \in StoredRow /\ RowFits(EnsuredRow(row), v)
         /\ PhaseOf(EnsuredRow(row)) = PhaseOf(row)
<1>1. PhaseOf(Null) = "open"
  BY DEF PhaseOf
<1> QED BY <1>1, BlankFits, BlankIsRow DEF EnsuredRow

LEMMA NoChange ==
  ASSUME NEW row \in StoredRow \cup {Null}, NEW v \in Versions, RowFits(row, v)
  PROVE  GoodChange(row, row, v)
  BY DEF GoodChange, MayMove

LEMMA RowDropped ==
  ASSUME NEW row, NEW v \in Versions
  PROVE  GoodChange(row, Null, v)
  BY DEF GoodChange, MayMove, PhaseOf, RowFits

(* New words for a line: set_text, a rewrite, a generated text.            *)
LEMMA SameOutcome ==
  ASSUME NEW row \in StoredRow \cup {Null}, NEW new \in StoredRow,
         new.sent = EnsuredRow(row).sent, new.error = EnsuredRow(row).error,
         new.confirmed = EnsuredRow(row).confirmed
  PROVE  PhaseOf(new) = PhaseOf(row)
<1>1. EnsuredRow(row) \in StoredRow /\ PhaseOf(EnsuredRow(row)) = PhaseOf(row)
  BY BlankIsRow DEF EnsuredRow, PhaseOf
<1>2. new # Null /\ EnsuredRow(row) # Null
  BY <1>1, RowIsNotNull
<1> QED BY <1>1, <1>2 DEF PhaseOf

LEMMA Worded ==
  ASSUME NEW row \in StoredRow \cup {Null}, NEW v \in Versions, RowFits(row, v),
         NEW t \in Texts \cup {Null}, NEW m \in BOOLEAN, NEW b \in Versions \cup {Null},
         NEW c \in Checks,
         ~m /\ t \in Generated => b \in Versions /\ b <= t.desc /\ t.desc <= v,
         c = "passed" => ~m /\ t \in Generated /\ t.grade = "passed",
         NEW new,
         new = [EnsuredRow(row) EXCEPT !.text = t, !.manual = m, !.basis = b, !.check = c]
  PROVE  GoodChange(row, new, v)
<1> DEFINE old == EnsuredRow(row)
<1>1. old \in StoredRow /\ RowFits(old, v)
  BY EnsuredFits
<1>2. new = [old EXCEPT !.text = t, !.manual = m, !.basis = b, !.check = c]
  OBVIOUS
<1> HIDE DEF old
<1>3. new \in StoredRow
  BY <1>1, <1>2 DEF StoredRow
<1>4. /\ new.text = t /\ new.manual = m /\ new.basis = b /\ new.check = c
      /\ new.sent = old.sent /\ new.error = old.error /\ new.confirmed = old.confirmed
  BY <1>1, <1>2 DEF StoredRow
<1>5. new # Null /\ old # Null
  BY <1>1, <1>3, RowIsNotNull
<1>6. RowFits(new, v)
  BY <1>1, <1>4, <1>5 DEF RowFits, TextFits, CheckFits, OutcomeFits
<1>7. PhaseOf(new) = PhaseOf(row)
  BY <1>3, <1>4, SameOutcome DEF old
<1> QED BY <1>3, <1>6, <1>7 DEF GoodChange, MayMove

LEMMA HoursSet ==
  ASSUME NEW row \in StoredRow \cup {Null}, NEW v \in Versions, RowFits(row, v), NEW h \in BOOLEAN
  PROVE  GoodChange(row, [EnsuredRow(row) EXCEPT !.hours = h], v)
<1> DEFINE old == EnsuredRow(row)
           new == [old EXCEPT !.hours = h]
<1>1. old \in StoredRow /\ RowFits(old, v) /\ PhaseOf(old) = PhaseOf(row)
  BY EnsuredFits
<1> HIDE DEF old
<1>2. new \in StoredRow
  BY <1>1 DEF StoredRow
<1>3. /\ new.text = old.text /\ new.manual = old.manual /\ new.basis = old.basis
      /\ new.check = old.check
      /\ new.sent = old.sent /\ new.error = old.error /\ new.confirmed = old.confirmed
  BY <1>1 DEF StoredRow
<1> HIDE DEF new
<1>4. new # Null /\ old # Null
  BY <1>1, <1>2, RowIsNotNull
<1>5. RowFits(new, v)
  BY <1>1, <1>3, <1>4 DEF RowFits, TextFits, CheckFits, OutcomeFits
<1>6. PhaseOf(new) = PhaseOf(row)
  BY <1>1, <1>3, <1>4 DEF PhaseOf
<1>7. GoodChange(row, new, v)
  BY <1>2, <1>5, <1>6 DEF GoodChange, MayMove
<1> QED BY <1>7 DEF new, old

(* New outcomes of a line that has none yet, or an error: set_outcome.     *)
LEMMA OutcomeSet ==
  ASSUME NEW row \in StoredRow, NEW v \in Versions, RowFits(row, v), ~row.sent,
         NEW e \in {"unreachable", "rejected", Null}
  PROVE  GoodChange(row, Outcome(row, e), v)
<1>1. row # Null
  BY RowIsNotNull
<1>2. ASSUME NEW f \in {"unreachable", "rejected", Null}
      PROVE  GoodChange(row, [row EXCEPT !.sent = (f = Null), !.error = f], v)
  <2> DEFINE new == [row EXCEPT !.sent = (f = Null), !.error = f]
  <2>1. new \in StoredRow
    BY DEF StoredRow
  <2>2. /\ new.text = row.text /\ new.manual = row.manual /\ new.basis = row.basis
        /\ new.check = row.check
        /\ new.sent = (f = Null) /\ new.error = f /\ new.confirmed = row.confirmed
    BY DEF StoredRow
  <2> HIDE DEF new
  <2>3. new # Null
    BY <2>1, RowIsNotNull
  <2>4. RowFits(new, v)
    BY <1>1, <2>2, <2>3 DEF RowFits, TextFits, CheckFits, OutcomeFits
  <2>5. ~row.confirmed
    BY <1>1 DEF RowFits, OutcomeFits
  <2>6. MayMove(PhaseOf(row), PhaseOf(new))
    BY <1>1, <2>2, <2>3, <2>5 DEF PhaseOf, MayMove
  <2>7. GoodChange(row, new, v)
    BY <2>1, <2>4, <2>6 DEF GoodChange
  <2> QED BY <2>7 DEF new
<1> QED BY <1>1, <1>2 DEF Outcome

(* An error is cleared when the line has gone out: the owner's sync.       *)
LEMMA ErrorGone ==
  ASSUME NEW row \in StoredRow \cup {Null}, NEW v \in Versions, RowFits(row, v)
  PROVE  GoodChange(row, ErrorCleared(row), v)
<1>1. CASE row = Null \/ row.error = Null
  BY <1>1, NoChange DEF ErrorCleared
<1>2. CASE row # Null /\ row.error # Null
  <2>1. row \in StoredRow /\ ~row.sent
    BY <1>2 DEF RowFits, OutcomeFits
  <2>2. GoodChange(row, Outcome(row, Null), v)
    BY <2>1, OutcomeSet
  <2>3. ErrorCleared(row) = Outcome(row, Null)
    <3>1. [row EXCEPT !.error = Null, !.sent = TRUE]
             = [row EXCEPT !.sent = (Null = Null), !.error = Null]
      BY <2>1 DEF StoredRow
    <3> QED BY <1>2, <3>1 DEF ErrorCleared, Outcome
  <2> QED BY <2>2, <2>3
<1> QED BY <1>1, <1>2

-----------------------------------------------------------------------------
(* What a step may do to the lines. *)

RowsMove ==
    /\ stored' \in [Lines -> StoredRow \cup {Null}]
    /\ \A l \in Lines : GoodChange(stored[l], stored'[l], version[l])

(* Blocks that leave a line take their worklog along, blocks that come     *)
(* have none.                                                              *)
WorkMoves ==
    /\ work' \in [Lines -> Work \cup {Null}]
    /\ \A l \in Lines : work'[l] # Null =>
           IF work[l] = Null THEN ~work'[l].id ELSE work'[l].id = work[l].id

WorkStays == \A l \in Lines : work[l] = Null <=> work'[l] = Null

JobsMove ==
    /\ jobs' \in [Jobs -> Job \cup {Null}]
    /\ \A j \in Jobs : JobFits(jobs'[j], version')

VersionsGrow ==
    /\ version' \in [Lines -> Versions]
    /\ \A l \in Lines : version[l] <= version'[l]

LinesMove == RowsMove /\ WorkMoves /\ JobsMove /\ VersionsGrow

LEMMA RowsStay == Inv /\ UNCHANGED stored => RowsMove
  BY NoChange DEF Inv, TypeOK, LinesTypeOK, RowsMove

LEMMA WorkUnchanged == Inv /\ UNCHANGED work => WorkMoves /\ WorkStays
  BY DEF Inv, TypeOK, LinesTypeOK, WorkMoves, WorkStays

LEMMA JobsUnchanged == Inv /\ UNCHANGED <<jobs, version>> => JobsMove
  BY DEF Inv, TypeOK, LinesTypeOK, JobsMove

LEMMA VersionsUnchanged == Inv /\ UNCHANGED version => VersionsGrow
  BY LineAssumption DEF Inv, TypeOK, LinesTypeOK, VersionsGrow, Versions

LEMMA ResyncedWork ==
  ASSUME NEW w \in Work \cup {Null}
  PROVE  /\ Resynced(w) \in Work \cup {Null} /\ (Resynced(w) = Null <=> w = Null)
         /\ w # Null => Resynced(w).id = w.id
  BY RowIsNotNull DEF Resynced, Work

LEMMA Finished ==
  ASSUME Inv, NEW l \in Lines, NEW row, GoodChange(stored[l], row, version[l]), Finish(l, row)
  PROVE  RowsMove /\ WorkMoves /\ WorkStays
<1>1. /\ stored \in [Lines -> StoredRow \cup {Null}] /\ work \in [Lines -> Work \cup {Null}]
      /\ version \in [Lines -> Versions]
  BY DEF Inv, TypeOK, LinesTypeOK
<1>2. RowsMove
  <2> DEFINE new == IF row.text = Null /\ ~row.hours THEN Null ELSE row
  <2>1. GoodChange(stored[l], new, version[l])
    BY <1>1, RowDropped
  <2>2. stored' = [stored EXCEPT ![l] = new]
    BY DEF Finish
  <2> HIDE DEF new
  <2>3. new \in StoredRow \cup {Null}
    BY <2>1 DEF GoodChange
  <2>4. \A k \in Lines : RowFits(stored[k], version[k])
    BY DEF Inv
  <2>5. ASSUME NEW k \in Lines PROVE GoodChange(stored[k], stored'[k], version[k])
    BY <1>1, <2>1, <2>2, <2>4, NoChange
  <2> QED BY <1>1, <2>2, <2>3, <2>5 DEF RowsMove
<1>3. WorkMoves /\ WorkStays
  <2>1. work' = [work EXCEPT ![l] = Resynced(work[l])]
    BY DEF Finish
  <2>2. \A w \in Work \cup {Null} :
            /\ Resynced(w) \in Work \cup {Null} /\ (Resynced(w) = Null <=> w = Null)
            /\ w # Null => Resynced(w).id = w.id
    BY ResyncedWork
  <2> QED BY <1>1, <2>1, <2>2 DEF WorkMoves, WorkStays
<1> QED BY <1>2, <1>3

LEMMA JobEnds ==
  ASSUME Inv, NEW j \in Jobs, jobs' = [jobs EXCEPT ![j] = Null], UNCHANGED version
  PROVE  JobsMove
  BY DEF Inv, TypeOK, LinesTypeOK, JobsMove, JobFits

LEMMA JobChanges ==
  ASSUME Inv, NEW j \in Jobs, NEW job \in Job, JobFits(job, version),
         jobs' = [jobs EXCEPT ![j] = job], UNCHANGED version
  PROVE  JobsMove
  BY DEF Inv, TypeOK, LinesTypeOK, JobsMove

LEMMA TextIsTyped ==
  ASSUME Inv, NEW l \in Lines
  PROVE  TextOf(l) \in Texts \cup {Null}
<1>1. stored[l] \in StoredRow \cup {Null}
  BY DEF Inv, TypeOK, LinesTypeOK
<1> QED BY <1>1 DEF TextOf, StoredRow

LEMMA NewJobFits ==
  ASSUME Inv, NEW l \in Lines, NEW kind \in {"pass", "forced", "rewrite"}
  PROVE  NewJob(kind, l) \in Job /\ JobFits(NewJob(kind, l), version)
<1>1. version[l] \in Versions
  BY DEF Inv, TypeOK, LinesTypeOK
<1>2. NewJob(kind, l) \in Job
  BY <1>1 DEF NewJob, Job
<1> QED BY <1>1, <1>2, LineAssumption DEF NewJob, JobFits, Versions

-----------------------------------------------------------------------------
(* Steps of jobs. *)

LEMMA PrepareMoves ==
  ASSUME Inv, NEW j \in Jobs, Prepare(j)
  PROVE  LinesMove /\ WorkStays
<1> DEFINE l == jobs[j].line
           job == [jobs[j] EXCEPT !.at = "call", !.desc = version[l]]
<1>1. jobs[j] \in Job /\ l \in Lines /\ version[l] \in Versions /\ JobFits(jobs[j], version)
      /\ jobs[j] # Null
  BY DEF Prepare, Inv, TypeOK, LinesTypeOK, Job
<1>2. UNCHANGED <<work, version, stored>>
  BY DEF Prepare
<1>3. RowsMove /\ WorkMoves /\ WorkStays /\ VersionsGrow
  BY <1>2, RowsStay, WorkUnchanged, VersionsUnchanged
<1>4. job \in Job /\ job.basis = jobs[j].basis /\ job.desc = version[l] /\ job.line = l
      /\ job.at = "call"
  BY <1>1 DEF Job
<1>5. jobs' = [jobs EXCEPT ![j] = Null] \/ jobs' = [jobs EXCEPT ![j] = job]
  BY DEF Prepare
<1> HIDE DEF job
<1>6. JobFits(job, version)
  <2>1. jobs[j].basis <= jobs[j].desc /\ jobs[j].desc <= version[l]
    BY <1>1 DEF JobFits
  <2>2. jobs[j].basis \in Nat /\ jobs[j].desc \in Nat /\ version[l] \in Nat
    BY <1>1, LineAssumption DEF Job, Versions
  <2> QED BY <1>4, <2>1, <2>2 DEF JobFits
<1>7. JobsMove
  BY <1>2, <1>4, <1>5, <1>6, JobEnds, JobChanges
<1> QED BY <1>3, <1>7 DEF LinesMove

LEMMA AnsweredMoves ==
  ASSUME Inv, NEW j \in Jobs, Answered(j)
  PROVE  LinesMove /\ WorkStays
<1>1. jobs[j] \in Job /\ JobFits(jobs[j], version) /\ jobs[j] # Null
  BY DEF Answered, Inv, TypeOK, LinesTypeOK
<1>2. UNCHANGED <<work, version, stored>>
  BY DEF Answered
<1>3. RowsMove /\ WorkMoves /\ WorkStays /\ VersionsGrow
  BY <1>2, RowsStay, WorkUnchanged, VersionsUnchanged
<1>4. PICK t \in (IF jobs[j].kind = "rewrite" THEN OwnTexts
                  ELSE {[desc |-> jobs[j].desc, grade |-> g] : g \in Grades}) :
          jobs' = [jobs EXCEPT ![j] = [jobs[j] EXCEPT !.at = "commit", !.text = t]]
  BY DEF Answered
<1>5. /\ t \in Texts
      /\ jobs[j].kind # "rewrite" => t \in Generated /\ t.desc = jobs[j].desc
  <2>1. CASE jobs[j].kind = "rewrite"
    BY <1>4, <2>1 DEF Texts
  <2>2. CASE jobs[j].kind # "rewrite"
    <3>1. PICK g \in Grades : t = [desc |-> jobs[j].desc, grade |-> g]
      BY <1>4, <2>2
    <3>2. t \in Generated /\ t.desc = jobs[j].desc
      BY <1>1, <3>1 DEF Generated, Job
    <3> QED BY <2>2, <3>2 DEF Texts
  <2> QED BY <2>1, <2>2
<1> DEFINE job == [jobs[j] EXCEPT !.at = "commit", !.text = t]
<1>6. /\ job \in Job /\ job.basis = jobs[j].basis /\ job.desc = jobs[j].desc
      /\ job.line = jobs[j].line /\ job.kind = jobs[j].kind /\ job.text = t
  BY <1>1, <1>5 DEF Job
<1>7. jobs' = [jobs EXCEPT ![j] = job]
  BY <1>4
<1> HIDE DEF job
<1>8. JobFits(job, version)
  BY <1>1, <1>5, <1>6 DEF JobFits
<1>9. JobsMove
  BY <1>2, <1>6, <1>7, <1>8, JobChanges
<1> QED BY <1>3, <1>9 DEF LinesMove

LEMMA UnansweredMoves ==
  ASSUME Inv, NEW j \in Jobs, Unanswered(j)
  PROVE  LinesMove /\ WorkStays
  BY RowsStay, WorkUnchanged, VersionsUnchanged, JobEnds DEF Unanswered, LinesMove

(* A generated text, of a job or of a sync: commit_generated.              *)
LEMMA GeneratedIsGood ==
  ASSUME Inv, NEW l \in Lines, NEW t \in Generated, NEW b \in Versions,
         b <= t.desc, t.desc <= version[l]
  PROVE  /\ GoodChange(stored[l], WithGenerated(Ensured(l), t, b), version[l])
         /\ PhaseOf(WithGenerated(Ensured(l), t, b)) = PhaseOf(stored[l])
<1>1. stored[l] \in StoredRow \cup {Null} /\ version[l] \in Versions /\ RowFits(stored[l], version[l])
  BY DEF Inv, TypeOK, LinesTypeOK
<1> DEFINE c == IF t.grade = "unchecked" THEN Null ELSE t.grade
<1>2. c \in Checks /\ t \in Texts /\ (c = "passed" => t.grade = "passed")
  BY RowIsNotNull DEF Checks, Generated, Grades, Texts
<1>3. WithGenerated(Ensured(l), t, b)
        = [EnsuredRow(stored[l]) EXCEPT !.text = t, !.manual = FALSE, !.basis = b, !.check = c]
  BY DEF WithGenerated, Ensured, EnsuredRow
<1> DEFINE new == WithGenerated(Ensured(l), t, b)
<1>4. new = [EnsuredRow(stored[l]) EXCEPT !.text = t, !.manual = FALSE, !.basis = b, !.check = c]
  BY <1>3
<1> HIDE DEF c, new
<1>5. GoodChange(stored[l], new, version[l])
  <2>1. t \in Generated => b \in Versions /\ b <= t.desc /\ t.desc <= version[l]
    OBVIOUS
  <2>2. c = "passed" => t \in Generated /\ t.grade = "passed"
    BY <1>2
  <2> DEFINE m == FALSE
  <2>3. /\ new = [EnsuredRow(stored[l]) EXCEPT !.text = t, !.manual = m, !.basis = b, !.check = c]
        /\ m \in BOOLEAN /\ ~m
    BY <1>4
  <2> HIDE DEF m
  <2> QED BY <1>1, <1>2, <2>1, <2>2, <2>3, Worded
<1>6. PhaseOf(new) = PhaseOf(stored[l])
  <2> DEFINE old == EnsuredRow(stored[l])
  <2>1. old \in StoredRow
    BY <1>1, BlankIsRow DEF EnsuredRow
  <2>2. new = [old EXCEPT !.text = t, !.manual = FALSE, !.basis = b, !.check = c]
    BY <1>4
  <2> HIDE DEF old
  <2>3. /\ new \in StoredRow
        /\ new.sent = old.sent /\ new.error = old.error /\ new.confirmed = old.confirmed
    BY <1>2, <2>1, <2>2 DEF StoredRow
  <2> QED BY <1>1, <2>3, SameOutcome DEF old
<1> QED BY <1>5, <1>6 DEF new

LEMMA CommitMoves ==
  ASSUME Inv, NEW j \in Jobs, Commit(j)
  PROVE  LinesMove /\ WorkStays
<1> DEFINE job == jobs[j]
<1>1. /\ job \in Job /\ JobFits(job, version) /\ job # Null
      /\ job.at = "commit" /\ job.kind # "rewrite"
  BY DEF Commit, Committing, Inv, TypeOK, LinesTypeOK
<1>2. job.line \in Lines /\ job.basis \in Versions /\ job.text \in Generated
      /\ job.basis <= job.text.desc /\ job.text.desc <= version[job.line]
  BY <1>1 DEF Job, JobFits
<1>3. jobs' = [jobs EXCEPT ![j] = Null] /\ UNCHANGED version
  BY DEF Commit
<1>4. GoodChange(stored[job.line], WithGenerated(Ensured(job.line), job.text, BasisOf(job)),
                 version[job.line])
  BY <1>2, GeneratedIsGood DEF BasisOf
<1>5. CASE MayOverwrite(job)
  <2>1. Finish(job.line, WithGenerated(Ensured(job.line), job.text, BasisOf(job)))
    BY <1>5 DEF Commit
  <2>2. RowsMove /\ WorkMoves /\ WorkStays
    BY <1>2, <1>4, <2>1, Finished
  <2> QED BY <1>3, <2>2, JobEnds, VersionsUnchanged DEF LinesMove
<1>6. CASE ~MayOverwrite(job)
  <2>1. UNCHANGED <<work, stored>>
    BY <1>6 DEF Commit
  <2> QED BY <1>3, <2>1, JobEnds, VersionsUnchanged, RowsStay, WorkUnchanged DEF LinesMove
<1> QED BY <1>5, <1>6

LEMMA CommitRewriteMoves ==
  ASSUME Inv, NEW j \in Jobs, CommitRewrite(j)
  PROVE  LinesMove /\ WorkStays
<1> DEFINE job == jobs[j]
           l == job.line
<1>1. job \in Job
  BY DEF CommitRewrite, Committing, Inv, TypeOK, LinesTypeOK
<1>2. /\ l \in Lines /\ job.text \in Texts \cup {Null}
      /\ stored[l] \in StoredRow \cup {Null} /\ version[l] \in Versions /\ RowFits(stored[l], version[l])
  BY <1>1 DEF Job, Inv, TypeOK, LinesTypeOK
<1>3. jobs' = [jobs EXCEPT ![j] = Null] /\ UNCHANGED version
  BY DEF CommitRewrite
<1>4. GoodChange(stored[l], [EnsuredRow(stored[l]) EXCEPT !.text = job.text, !.manual = TRUE,
                                                          !.basis = Null, !.check = Null],
                 version[l])
  BY <1>2, Worded, RowIsNotNull DEF Checks
<1>5. CASE work[l] # Null /\ StillAsSeen(job)
  <2>1. Finish(l, [EnsuredRow(stored[l]) EXCEPT !.text = job.text, !.manual = TRUE,
                                                !.basis = Null, !.check = Null])
    BY <1>5 DEF CommitRewrite, Ensured, EnsuredRow
  <2>2. RowsMove /\ WorkMoves /\ WorkStays
    BY <1>2, <1>4, <2>1, Finished
  <2> QED BY <1>3, <2>2, JobEnds, VersionsUnchanged DEF LinesMove
<1>6. CASE ~(work[l] # Null /\ StillAsSeen(job))
  <2>1. UNCHANGED <<work, stored>>
    BY <1>6 DEF CommitRewrite
  <2> QED BY <1>3, <2>1, JobEnds, VersionsUnchanged, RowsStay, WorkUnchanged DEF LinesMove
<1> QED BY <1>5, <1>6

LEMMA JobStepMoves ==
  ASSUME Inv, NEW j \in Jobs, JobStep(j)
  PROVE  LinesMove /\ WorkStays
  BY PrepareMoves, AnsweredMoves, UnansweredMoves, CommitMoves, CommitRewriteMoves DEF JobStep

-----------------------------------------------------------------------------
(* Edits of lines. *)

LEMMA JobsKept ==
  ASSUME Inv, UNCHANGED jobs, VersionsGrow
  PROVE  JobsMove
<1> SUFFICES ASSUME NEW j \in Jobs, jobs[j] # Null PROVE JobFits(jobs[j], version')
  BY DEF JobsMove, Inv, TypeOK, LinesTypeOK, JobFits
<1>1. jobs[j] \in Job /\ JobFits(jobs[j], version) /\ version \in [Lines -> Versions]
  BY DEF Inv, TypeOK, LinesTypeOK
<1> DEFINE l == jobs[j].line
<1>2. jobs[j].desc \in Nat /\ version[l] \in Nat /\ version'[l] \in Nat /\ version[l] <= version'[l]
  BY <1>1, LineAssumption DEF Job, Versions, VersionsGrow
<1>3. jobs[j].desc <= version[l]
  BY <1>1 DEF JobFits
<1>4. jobs[j].desc <= version'[l]
  BY <1>2, <1>3
<1> QED BY <1>1, <1>4 DEF JobFits

LEMMA NewVersionGrows ==
  ASSUME Inv, NEW l \in Lines, NewVersion(l)
  PROVE  VersionsGrow
  BY LineAssumption DEF NewVersion, VersionsGrow, Inv, TypeOK, LinesTypeOK, Versions

LEMMA SetTextMoves ==
  ASSUME Inv, NEW l \in Lines, NEW t \in OwnTexts \cup {Null}, SetText(l, t)
  PROVE  LinesMove /\ WorkStays
<1>1. stored[l] \in StoredRow \cup {Null} /\ version[l] \in Versions /\ RowFits(stored[l], version[l])
  BY DEF Inv, TypeOK, LinesTypeOK
<1>2. /\ t \in Texts \cup {Null} /\ StaticCheck(t) \in Checks /\ StaticCheck(t) # "passed"
      /\ t = Null => t \notin Generated
  BY RowIsNotNull DEF Texts, StaticCheck, Checks
<1>3. GoodChange(stored[l], [EnsuredRow(stored[l]) EXCEPT !.text = t, !.manual = (t # Null),
                                 !.basis = Null, !.check = StaticCheck(t)], version[l])
  BY <1>1, <1>2, Worded
<1>4. Finish(l, [EnsuredRow(stored[l]) EXCEPT !.text = t, !.manual = (t # Null),
                                 !.basis = Null, !.check = StaticCheck(t)])
  BY DEF SetText, Ensured, EnsuredRow
<1>5. RowsMove /\ WorkMoves /\ WorkStays
  BY <1>3, <1>4, Finished
<1> QED BY <1>5, JobsUnchanged, VersionsUnchanged DEF LinesMove, SetText

LEMMA SetHoursMoves ==
  ASSUME Inv, NEW l \in Lines, NEW h \in BOOLEAN, SetHours(l, h)
  PROVE  LinesMove /\ WorkStays
<1>1. stored[l] \in StoredRow \cup {Null} /\ version[l] \in Versions /\ RowFits(stored[l], version[l])
  BY DEF Inv, TypeOK, LinesTypeOK
<1>2. GoodChange(stored[l], [EnsuredRow(stored[l]) EXCEPT !.hours = h], version[l])
  BY <1>1, HoursSet
<1>3. Finish(l, [EnsuredRow(stored[l]) EXCEPT !.hours = h])
  BY DEF SetHours, Ensured, EnsuredRow
<1>4. RowsMove /\ WorkMoves /\ WorkStays
  BY <1>2, <1>3, Finished
<1> QED BY <1>4, JobsUnchanged, VersionsUnchanged DEF LinesMove, SetHours

LEMMA WorkEdited ==
  ASSUME Inv, NEW l \in Lines, NEW b \in BOOLEAN,
         WorkArrives(l, b) \/ WorkReworded(l, b) \/ TicketConfirmed(l)
  PROVE  /\ LinesMove /\ work'[l] # Null /\ \A k \in Lines \ {l} : work'[k] = work[k]
         /\ WorkReworded(l, b) \/ TicketConfirmed(l) => WorkStays
<1>1. work \in [Lines -> Work \cup {Null}]
  BY DEF Inv, TypeOK, LinesTypeOK
<1>2. VersionsGrow /\ UNCHANGED <<stored, jobs>>
  BY NewVersionGrows, VersionsUnchanged DEF WorkArrives, WorkReworded, TicketConfirmed
<1>3. PICK w \in Work :
          /\ work' = [work EXCEPT ![l] = w]
          /\ IF work[l] = Null THEN ~w.id ELSE w.id = work[l].id
  <2>1. CASE WorkArrives(l, b)
    <3>1. CASE work[l] = Null
      <4> DEFINE w == [sure |-> b, unsent |-> TRUE, id |-> FALSE]
      <4>1. w \in Work /\ ~w.id
        BY DEF Work
      <4>2. work' = [work EXCEPT ![l] = w]
        BY <1>1, <2>1, <3>1 DEF WorkArrives
      <4> HIDE DEF w
      <4> QED BY <3>1, <4>1, <4>2
    <3>2. CASE work[l] # Null
      <4> DEFINE w == [work[l] EXCEPT !.sure = work[l].sure /\ b, !.unsent = TRUE]
      <4>1. w \in Work /\ w.id = work[l].id
        BY <1>1, <3>2 DEF Work
      <4>2. work' = [work EXCEPT ![l] = w]
        BY <1>1, <2>1, <3>2 DEF WorkArrives
      <4> HIDE DEF w
      <4> QED BY <3>2, <4>1, <4>2
    <3> QED BY <3>1, <3>2
  <2>2. CASE WorkReworded(l, b)
    <3>1. work' = [work EXCEPT ![l] = IF b THEN Resynced(work[l]) ELSE work[l]] /\ work[l] # Null
      BY <1>1, <2>2 DEF WorkReworded
    <3> QED BY <1>1, <3>1, ResyncedWork
  <2>3. CASE TicketConfirmed(l)
    <3>1. [work[l] EXCEPT !.sure = TRUE] \in Work /\ [work[l] EXCEPT !.sure = TRUE].id = work[l].id
      BY <1>1, <2>3 DEF Work, TicketConfirmed
    <3>2. work' = [work EXCEPT ![l] = [work[l] EXCEPT !.sure = TRUE]]
      BY <2>3 DEF TicketConfirmed
    <3> QED BY <2>3, <3>1, <3>2 DEF TicketConfirmed
  <2> QED BY <2>1, <2>2, <2>3
<1>4. WorkMoves /\ work'[l] # Null /\ \A k \in Lines \ {l} : work'[k] = work[k]
  BY <1>1, <1>3, RowIsNotNull DEF WorkMoves
<1>5. WorkReworded(l, b) \/ TicketConfirmed(l) => WorkStays
  BY <1>4 DEF WorkStays, WorkReworded, TicketConfirmed
<1> QED BY <1>2, <1>4, <1>5, JobsKept, RowsStay DEF LinesMove

LEMMA WorkLeft ==
  ASSUME Inv, NEW l \in Lines, WorkLeaves(l)
  PROVE  LinesMove /\ work'[l] = Null /\ \A k \in Lines \ {l} : work'[k] = work[k]
<1>1. work \in [Lines -> Work \cup {Null}] /\ UNCHANGED <<version, stored, jobs>>
      /\ work' = [work EXCEPT ![l] = Null]
  BY DEF Inv, TypeOK, LinesTypeOK, WorkLeaves
<1>2. WorkMoves
  BY <1>1 DEF WorkMoves
<1> QED BY <1>1, <1>2, JobsUnchanged, VersionsUnchanged, RowsStay DEF LinesMove

LEMMA StartMoves ==
  ASSUME Inv, NEW l \in Lines, NEW j \in Jobs,
         StartPass(j, l) \/ StartForced(j, l) \/ StartRewrite(j, l)
  PROVE  LinesMove /\ WorkStays
<1>1. UNCHANGED <<work, version, stored>>
  BY DEF StartPass, StartForced, StartRewrite
<1>2. JobsMove
  <2>1. CASE StartPass(j, l) \/ StartForced(j, l)
    <3>1. PICK kind \in {"pass", "forced", "rewrite"} : Start(j, NewJob(kind, l))
      BY <2>1 DEF StartPass, StartForced
    <3> QED BY <1>1, <3>1, NewJobFits, JobChanges DEF Start
  <2>2. CASE StartRewrite(j, l)
    <3> DEFINE job == [NewJob("rewrite", l) EXCEPT !.at = "call", !.seen = TextOf(l)]
    <3>1. jobs' = [jobs EXCEPT ![j] = job]
      BY <2>2 DEF StartRewrite, Start
    <3>2. NewJob("rewrite", l) \in Job /\ JobFits(NewJob("rewrite", l), version)
          /\ NewJob("rewrite", l) # Null
      BY NewJobFits, RowIsNotNull
    <3>3. job \in Job /\ job.at = "call" /\ job.basis = NewJob("rewrite", l).basis
          /\ job.desc = NewJob("rewrite", l).desc /\ job.line = NewJob("rewrite", l).line
      BY <3>2, TextIsTyped DEF Job
    <3> HIDE DEF job
    <3>4. JobFits(job, version)
      BY <3>2, <3>3 DEF JobFits
    <3> QED BY <1>1, <3>1, <3>3, <3>4, JobChanges
  <2> QED BY <2>1, <2>2
<1> QED BY <1>1, <1>2, RowsStay, WorkUnchanged, VersionsUnchanged DEF LinesMove

LEMMA LineEditMoves ==
  ASSUME Inv, NEW l \in Lines, LineEdit(l)
  PROVE  LinesMove /\ WorkStays
  BY SetTextMoves, SetHoursMoves, WorkEdited, StartMoves DEF LineEdit

-----------------------------------------------------------------------------
(* What Tempo holds: worklogs made, answers lost, ids written back.        *)

Sent == [posts : Nat, lost : Nat]

WorkTyped == work \in [Lines -> Work \cup {Null}]

TempoMoves ==
    /\ sends' \in [Senders -> Send \cup {Null}]
    /\ tempo' \in [Lines -> Sent]
    /\ \A l \in Lines : TempoFits(l)'

LEMMA SendTyped ==
  ASSUME Inv, NEW s \in Senders, sends[s] # Null
  PROVE  sends[s] \in Send /\ LineOf(s) = sends[s].line /\ LineOf(s) \in Lines
  BY DEF Inv, TypeOK, LineOf, Send

LEMMA PostedIsFinite ==
  ASSUME NEW l
  PROVE  /\ IsFiniteSet(Posted(l)) /\ Cardinality(Posted(l)) \in Nat
         /\ IsFiniteSet(Posted(l)') /\ Cardinality(Posted(l)') \in Nat
<1>1. IsFiniteSet(Senders)
  BY SenderAssumption, FS_AddElement DEF Senders
<1>2. Posted(l) \subseteq Senders /\ Posted(l)' \subseteq Senders
  BY DEF Posted
<1> QED BY <1>1, <1>2, FS_Subset, FS_CardinalityType

LEMMA IdsKept ==
  ASSUME WorkMoves, WorkStays, NEW l \in Lines
  PROVE  (HasId(l)' <=> HasId(l)) /\ (work'[l] = Null <=> work[l] = Null)
  BY DEF WorkMoves, WorkStays, HasId

LEMMA TempoUnchanged ==
  ASSUME Inv, UNCHANGED <<sends, tempo>>, WorkMoves, WorkStays
  PROVE  TempoMoves
<1>1. \A l \in Lines : TempoFits(l)'
  <2> SUFFICES ASSUME NEW l \in Lines PROVE TempoFits(l)'
    OBVIOUS
  <2>1. Posted(l)' = Posted(l)
    BY DEF Posted, Awaits, At, LineOf, Anew
  <2>2. TempoFits(l) /\ (HasId(l)' <=> HasId(l)) /\ (work'[l] = Null <=> work[l] = Null)
    BY IdsKept DEF Inv
  <2> QED BY <2>1, <2>2 DEF TempoFits, LineOf
<1>2. sends' \in [Senders -> Send \cup {Null}] /\ tempo' \in [Lines -> Sent]
  BY DEF Inv, TypeOK, Sent
<1> QED BY <1>1, <1>2 DEF TempoMoves

(* Waits for the answer to a POST of line l, as a record.                  *)
Waiting(send, l) ==
    send # Null /\ send.at = "sent" /\ send.line = l /\ ~send.id /\ send.blocks # "none"

LEMMA AwaitsIsWaiting ==
  ASSUME NEW s, NEW l
  PROVE  (Awaits(s, l) <=> Waiting(sends[s], l)) /\ (Awaits(s, l)' <=> Waiting(sends'[s], l))
  BY DEF Awaits, At, LineOf, Anew, Waiting

LEMMA OneSend ==
  ASSUME Inv, NEW s \in Senders, NEW new \in Send \cup {Null}, sends' = [sends EXCEPT ![s] = new]
  PROVE  /\ sends' \in [Senders -> Send \cup {Null}]
         /\ sends'[s] = new /\ \A r \in Senders \ {s} : sends'[r] = sends[r]
         /\ \A l \in Lines : Posted(l)' = IF Waiting(new, l) THEN Posted(l) \cup {s}
                                          ELSE Posted(l) \ {s}
<1>1. sends \in [Senders -> Send \cup {Null}]
  BY DEF Inv, TypeOK
<1>2. /\ sends' \in [Senders -> Send \cup {Null}]
      /\ sends'[s] = new /\ \A r \in Senders \ {s} : sends'[r] = sends[r]
  BY <1>1
<1>3. ASSUME NEW l \in Lines
      PROVE  Posted(l)' = IF Waiting(new, l) THEN Posted(l) \cup {s} ELSE Posted(l) \ {s}
  <2>1. \A r \in Senders \ {s} : r \in Posted(l)' <=> r \in Posted(l)
    BY <1>2, AwaitsIsWaiting DEF Posted
  <2>2. s \in Posted(l)' <=> Waiting(new, l)
    BY <1>2, AwaitsIsWaiting DEF Posted
  <2>3. Posted(l) \subseteq Senders /\ Posted(l)' \subseteq Senders
    BY DEF Posted
  <2> QED BY <2>1, <2>2, <2>3
<1> QED BY <1>2, <1>3

(* What a line without blocks has, after a change of one send.             *)
LEMMA NoneKnown ==
  ASSUME Inv, NEW s \in Senders, NEW new \in Send \cup {Null}, sends' = [sends EXCEPT ![s] = new],
         NEW l \in Lines, work'[l] = Null, work[l] = Null,
         new # Null /\ new.line = l => new.blocks = "none"
  PROVE  \A r \in Senders : sends'[r] # Null /\ sends'[r].line = l => sends'[r].blocks = "none"
<1>1. TempoFits(l)
  BY DEF Inv
<1>2. sends'[s] = new /\ \A r \in Senders \ {s} : sends'[r] = sends[r]
  BY OneSend
<1> QED BY <1>1, <1>2 DEF TempoFits, LineOf

(* No POST is made, and none was awaited. *)
LEMMA SendChanges ==
  ASSUME Inv, NEW s \in Senders, NEW new \in Send \cup {Null}, sends' = [sends EXCEPT ![s] = new],
         UNCHANGED tempo, WorkMoves, WorkStays,
         \A l \in Lines : ~Waiting(new, l) /\ ~Awaits(s, l),
         new # Null /\ new.blocks # "none" => work[new.line] # Null
  PROVE  TempoMoves
<1>1. ASSUME NEW l \in Lines PROVE TempoFits(l)'
  <2>1. Posted(l)' = Posted(l)
    <3>1. s \notin Posted(l)
      BY DEF Posted
    <3>2. Posted(l)' = IF Waiting(new, l) THEN Posted(l) \cup {s} ELSE Posted(l) \ {s}
      BY OneSend
    <3> QED BY <3>1, <3>2
  <2>2. TempoFits(l) /\ (HasId(l)' <=> HasId(l)) /\ (work'[l] = Null <=> work[l] = Null)
    BY IdsKept DEF Inv
  <2>3. work'[l] = Null =>
           \A r \in Senders : sends'[r] # Null /\ sends'[r].line = l => sends'[r].blocks = "none"
    BY <2>2, NoneKnown
  <2> QED BY <2>1, <2>2, <2>3 DEF TempoFits, LineOf
<1>2. tempo' \in [Lines -> Sent]
  BY DEF Inv, TypeOK, Sent
<1> QED BY <1>1, <1>2, OneSend DEF TempoMoves

(* A POST is carried out. *)
LEMMA PostMade ==
  ASSUME Inv, NEW s \in Senders, NEW new \in Send, sends' = [sends EXCEPT ![s] = new],
         NEW l \in Lines, Waiting(new, l), ~Awaits(s, l), work[l] # Null,
         tempo' = [tempo EXCEPT ![l].posts = @ + 1], WorkMoves, WorkStays,
         sends[s] # Null, LineOf(s) = l
  PROVE  TempoMoves
<1>1. tempo \in [Lines -> Sent] /\ tempo[l].posts \in Nat /\ tempo[l].lost \in Nat
  BY DEF Inv, TypeOK, Sent
<1>2. /\ tempo' \in [Lines -> Sent] /\ \A k \in Lines \ {l} : tempo'[k] = tempo[k]
      /\ tempo'[l].posts = tempo[l].posts + 1 /\ tempo'[l].lost = tempo[l].lost
  BY <1>1 DEF Sent
<1>3. ASSUME NEW k \in Lines PROVE TempoFits(k)'
  <2>1. TempoFits(k) /\ (HasId(k)' <=> HasId(k)) /\ (work'[k] = Null <=> work[k] = Null)
    BY IdsKept DEF Inv
  <2>2. s \notin Posted(l) /\ (k # l => s \notin Posted(k))
    BY DEF Posted, Awaits, LineOf
  <2>3. Posted(k)' = IF k = l THEN Posted(l) \cup {s} ELSE Posted(k)
    <3>1. Waiting(new, k) <=> k = l
      BY DEF Waiting
    <3>2. Posted(k)' = IF Waiting(new, k) THEN Posted(k) \cup {s} ELSE Posted(k) \ {s}
      BY OneSend
    <3> QED BY <2>2, <3>1, <3>2
  <2>4. work'[k] = Null =>
           \A r \in Senders : sends'[r] # Null /\ sends'[r].line = k => sends'[r].blocks = "none"
    <3>1. work'[k] = Null => work[k] = Null /\ new.line # k
      BY <2>1 DEF Waiting
    <3> QED BY <3>1, NoneKnown
  <2>5. k = l => Cardinality(Posted(k)') = Cardinality(Posted(k)) + 1
    BY <2>2, <2>3, PostedIsFinite, FS_AddElement
  <2>6. Cardinality(Posted(k)) \in Nat
    BY PostedIsFinite
  <2>7. k = l => (~HasId(k)' => tempo'[k].posts = tempo'[k].lost + Cardinality(Posted(k)'))
    BY <1>1, <1>2, <2>1, <2>5, <2>6 DEF TempoFits
  <2>8. k # l => (~HasId(k)' => tempo'[k].posts = tempo'[k].lost + Cardinality(Posted(k)'))
    BY <1>2, <2>1, <2>3 DEF TempoFits
  <2> QED BY <2>4, <2>7, <2>8 DEF TempoFits, LineOf
<1> QED BY <1>2, <1>3, OneSend DEF TempoMoves

(* The answer to a POST is lost. *)
LEMMA PostLost ==
  ASSUME Inv, NEW s \in Senders, sends' = [sends EXCEPT ![s] = Null],
         NEW l \in Lines, Awaits(s, l),
         tempo' = [tempo EXCEPT ![l].lost = @ + 1], WorkMoves, WorkStays
  PROVE  TempoMoves
<1>1. tempo \in [Lines -> Sent] /\ tempo[l].posts \in Nat /\ tempo[l].lost \in Nat
  BY DEF Inv, TypeOK, Sent
<1>2. /\ tempo' \in [Lines -> Sent] /\ \A k \in Lines \ {l} : tempo'[k] = tempo[k]
      /\ tempo'[l].posts = tempo[l].posts /\ tempo'[l].lost = tempo[l].lost + 1
  BY <1>1 DEF Sent
<1>3. ASSUME NEW k \in Lines PROVE TempoFits(k)'
  <2>1. TempoFits(k) /\ (HasId(k)' <=> HasId(k)) /\ (work'[k] = Null <=> work[k] = Null)
    BY IdsKept DEF Inv
  <2>2. s \in Posted(l) /\ (k # l => s \notin Posted(k))
    BY DEF Posted, Awaits, LineOf
  <2>3. Posted(k)' = IF k = l THEN Posted(l) \ {s} ELSE Posted(k)
    <3>1. ~Waiting(Null, k)
      BY DEF Waiting
    <3>2. Posted(k)' = IF Waiting(Null, k) THEN Posted(k) \cup {s} ELSE Posted(k) \ {s}
      BY OneSend
    <3> QED BY <2>2, <3>1, <3>2
  <2>4. work'[k] = Null =>
           \A r \in Senders : sends'[r] # Null /\ sends'[r].line = k => sends'[r].blocks = "none"
    BY <2>1, NoneKnown
  <2>5. k = l => Cardinality(Posted(k)') = Cardinality(Posted(k)) - 1
    BY <2>2, <2>3, PostedIsFinite, FS_RemoveElement
  <2>6. Cardinality(Posted(k)) \in Nat
    BY PostedIsFinite
  <2>7. k = l => (~HasId(k)' => tempo'[k].posts = tempo'[k].lost + Cardinality(Posted(k)'))
    BY <1>1, <1>2, <2>1, <2>5, <2>6 DEF TempoFits
  <2>8. k # l => (~HasId(k)' => tempo'[k].posts = tempo'[k].lost + Cardinality(Posted(k)'))
    BY <1>2, <2>1, <2>3 DEF TempoFits
  <2> QED BY <2>4, <2>7, <2>8 DEF TempoFits, LineOf
<1> QED BY <1>2, <1>3, OneSend DEF TempoMoves

(* The id of a worklog is written to the blocks that were read. *)
LEMMA WrittenBackMoves ==
  ASSUME Inv, NEW s \in Senders, At(s, "sent"), sends' = [sends EXCEPT ![s] = Null],
         work' = WrittenBack(s), UNCHANGED tempo
  PROVE  TempoMoves /\ WorkTyped'
<1> DEFINE l == LineOf(s)
           back == [work[l] EXCEPT !.id = TRUE, !.unsent = work[l].unsent /\ sends[s].blocks = "some"]
<1>1. /\ work \in [Lines -> Work \cup {Null}] /\ tempo \in [Lines -> Sent]
      /\ l \in Lines /\ sends[s] # Null
  BY SendTyped DEF At, Inv, TypeOK, LinesTypeOK, Sent
<1>2. sends[s].blocks # "none" => work[l] # Null
  BY <1>1 DEF Inv, TempoFits
<1>3. CASE sends[s].blocks = "none"
  <2>1. work' = work
    BY <1>1, <1>3 DEF WrittenBack
  <2>2. \A k \in Lines : ~Waiting(Null, k) /\ ~Awaits(s, k)
    BY <1>3 DEF Waiting, Awaits, Anew
  <2> QED BY <1>1, <2>1, <2>2, WorkUnchanged, SendChanges DEF WorkTyped
<1>4. CASE sends[s].blocks # "none"
  <2>1. work[l] \in Work
    BY <1>1, <1>2, <1>4
  <2>2. back \in Work /\ back.id
    BY <2>1 DEF Work
  <2>3. work' = [work EXCEPT ![l] = back]
    BY <1>1, <1>4 DEF WrittenBack
  <2> HIDE DEF back
  <2>4. /\ work' \in [Lines -> Work \cup {Null}] /\ work'[l] = back /\ back # Null
        /\ \A k \in Lines \ {l} : work'[k] = work[k]
    BY <1>1, <2>2, <2>3, RowIsNotNull
  <2>5. ASSUME NEW k \in Lines PROVE TempoFits(k)'
    <3>1. CASE k = l
      BY <2>2, <2>4, <3>1 DEF TempoFits, HasId
    <3>2. CASE k # l
      <4>1. Posted(k)' = Posted(k)
        <5>1. s \notin Posted(k) /\ ~Waiting(Null, k)
          BY <3>2 DEF Posted, Awaits, Waiting
        <5>2. Posted(k)' = IF Waiting(Null, k) THEN Posted(k) \cup {s} ELSE Posted(k) \ {s}
          BY OneSend
        <5> QED BY <5>1, <5>2
      <4>2. TempoFits(k) /\ work'[k] = work[k]
        BY <2>4, <3>2 DEF Inv
      <4>3. work'[k] = Null =>
               \A r \in Senders : sends'[r] # Null /\ sends'[r].line = k => sends'[r].blocks = "none"
        BY <4>2, NoneKnown
      <4> QED BY <4>1, <4>2, <4>3 DEF TempoFits, LineOf, HasId
    <3> QED BY <3>1, <3>2
  <2>6. tempo' \in [Lines -> Sent]
    BY <1>1
  <2> QED BY <2>4, <2>5, <2>6, OneSend DEF TempoMoves, WorkTyped
<1> QED BY <1>3, <1>4

(* Blocks come to a line, or leave it, and what is under way knows of it.  *)
LEMMA KnowsOfMoves ==
  ASSUME Inv, NEW l \in Lines, NEW part \in {"some", "none"}, sends' = KnowsOf(l, part)
  PROVE  /\ sends' \in [Senders -> Send \cup {Null}]
         /\ \A s \in Senders : sends'[s] = Null <=> sends[s] = Null
         /\ \A s \in Senders : sends[s] # Null => sends'[s].line = sends[s].line
         /\ \A s \in Senders : sends[s] # Null /\ sends[s].blocks = "none" => sends'[s].blocks = "none"
         /\ \A s \in Senders : sends[s] # Null /\ sends[s].line = l /\ part = "none"
                                  => sends'[s].blocks = "none"
         /\ \A k \in Lines : Posted(k)' = IF k = l /\ part = "none" THEN {} ELSE Posted(k)
<1>1. ASSUME NEW s \in Senders
      PROVE  LET new == sends'[s] IN
             /\ new \in Send \cup {Null} /\ (new = Null <=> sends[s] = Null)
             /\ sends[s] # Null =>
                  /\ new.line = sends[s].line /\ new.at = sends[s].at /\ new.id = sends[s].id
                  /\ new.blocks = IF sends[s].line = l /\ sends[s].blocks # "none" THEN part
                                  ELSE sends[s].blocks
  <2>1. sends[s] \in Send \cup {Null}
    BY DEF Inv, TypeOK
  <2>2. sends'[s] = IF sends[s] # Null /\ sends[s].line = l /\ sends[s].blocks # "none"
                    THEN [sends[s] EXCEPT !.blocks = part] ELSE sends[s]
    BY DEF KnowsOf, LineOf
  <2>3. CASE sends[s] # Null
    <3> DEFINE new == [sends[s] EXCEPT !.blocks = part]
    <3>1. /\ new \in Send /\ new.line = sends[s].line /\ new.at = sends[s].at
          /\ new.id = sends[s].id /\ new.blocks = part
      BY <2>1, <2>3 DEF Send
    <3> HIDE DEF new
    <3>2. new # Null
      BY <3>1, SenderAssumption
    <3> QED BY <2>1, <2>2, <2>3, <3>1, <3>2 DEF new
  <2>4. CASE sends[s] = Null
    BY <2>2, <2>4
  <2> QED BY <2>3, <2>4
<1>2. sends' \in [Senders -> Send \cup {Null}]
  <2>1. sends' = [s \in Senders |-> sends'[s]]
    BY DEF KnowsOf
  <2> QED BY <1>1, <2>1
<1>3. ASSUME NEW k \in Lines, NEW s \in Senders
      PROVE  s \in Posted(k)' <=> s \in Posted(k) /\ ~(k = l /\ part = "none")
  BY <1>1, AwaitsIsWaiting DEF Posted, Waiting
<1>4. \A k \in Lines : Posted(k) \subseteq Senders /\ Posted(k)' \subseteq Senders
  BY DEF Posted
<1>5. \A k \in Lines : Posted(k)' = IF k = l /\ part = "none" THEN {} ELSE Posted(k)
  BY <1>3, <1>4
<1> QED BY <1>1, <1>2, <1>5

-----------------------------------------------------------------------------
(* Every step. *)

RestTyped ==
    /\ clock \in [day : Days, evening : BOOLEAN]
    /\ enabled \in BOOLEAN
    /\ plan \in [day : Days, lines : SUBSET Lines] \cup {Null}
    /\ recap \in 0 .. LastDay
    /\ tick \in [day : Days, todo : SUBSET Lines, unreachable : BOOLEAN] \cup {Null}
    /\ byHand \in SUBSET Lines

RowsKept ==
    /\ stored' \in [Lines -> StoredRow \cup {Null}]
    /\ \A l \in Lines : RowFits(stored'[l], version[l])

(* The phase of a line goes from p to q; b, c: a send of the run was on    *)
(* its way for it, is on its way.                                          *)
ReviewMove(p, q, b, c) ==
    IF ~b THEN MayMove(p, q) /\ (c => p \in {"open", "failed"} /\ q = p)
    ELSE IF c THEN (p # "confirmed" /\ q = p) \/ (p = "failed" /\ q = "sent")
    ELSE p # "confirmed" /\ (q \in {"failed", "sent"} \/ (p = "open" /\ q = "open"))

ReviewMoves ==
    \A l \in Lines : ReviewMove(PhaseOf(stored[l]), PhaseOf(stored'[l]), l \in Busy, l \in Busy')

Moves ==
    /\ RowsKept /\ WorkTyped' /\ JobsMove /\ VersionsGrow /\ TempoMoves /\ RestTyped'
    /\ RunFits' /\ ReviewMoves

LEMMA MovesKeepInv == Inv /\ Moves => Inv'
<1> SUFFICES ASSUME Inv, Moves PROVE Inv'
  OBVIOUS
<1>1. TypeOK'
  BY DEF Moves, RowsKept, WorkTyped, JobsMove, VersionsGrow, TempoMoves, RestTyped, TypeOK,
         LinesTypeOK, Sent
<1>2. ASSUME NEW l \in Lines PROVE RowFits(stored'[l], version'[l])
  <2>1. stored'[l] \in StoredRow \cup {Null} /\ RowFits(stored'[l], version[l])
    BY DEF Moves, RowsKept
  <2>2. version[l] \in Nat /\ version'[l] \in Nat /\ version[l] <= version'[l]
    BY LineAssumption DEF Moves, VersionsGrow, Inv, TypeOK, LinesTypeOK, Versions
  <2>3. CASE stored'[l] # Null /\ stored'[l].text \in Generated
    <3>1. stored'[l].text.desc \in Nat
      BY <2>3, LineAssumption DEF Generated, Versions
    <3>2. stored'[l].text.desc <= version[l] => stored'[l].text.desc <= version'[l]
      BY <2>2, <3>1
    <3> QED BY <2>1, <2>3, <3>2 DEF RowFits, TextFits
  <2>4. CASE stored'[l] = Null \/ stored'[l].text \notin Generated
    BY <2>1, <2>4 DEF RowFits, TextFits
  <2> QED BY <2>3, <2>4
<1>3. \A j \in Jobs : JobFits(jobs'[j], version')
  BY DEF Moves, JobsMove
<1>4. (\A l \in Lines : TempoFits(l)') /\ RunFits'
  BY DEF Moves, TempoMoves
<1> QED BY <1>1, <1>2, <1>3, <1>4 DEF Inv

LEMMA RestUnchanged ==
  Inv /\ UNCHANGED <<clock, enabled, plan, recap, tick, byHand>> => RestTyped'
  BY DEF Inv, TypeOK, RestTyped

LEMMA TextsOnly == Inv /\ UNCHANGED <<work, version, jobs>> =>
                       WorkTyped' /\ WorkMoves /\ WorkStays /\ JobsMove /\ VersionsGrow
  BY WorkUnchanged, JobsUnchanged, VersionsUnchanged DEF WorkTyped, WorkMoves

LEMMA RowsMoveKeep == RowsMove => RowsKept
  BY DEF RowsMove, RowsKept, GoodChange

(* No send of the run is on its way. *)
LEMMA OutsideSends ==
  ASSUME RowsMove, sends[Daemon] = Null, sends'[Daemon] = Null
  PROVE  RowsKept /\ RunFits' /\ ReviewMoves
<1>1. Busy = {} /\ Busy' = {}
  BY DEF Busy
<1> QED BY <1>1, RowsMoveKeep DEF RowsMove, GoodChange, RunFits, ReviewMoves, ReviewMove

(* A sync brings a line out, and nobody else comes to the lines.           *)
Quiet ==
    \A l \in Lines : \/ PhaseOf(stored'[l]) = PhaseOf(stored[l])
                     \/ PhaseOf(stored[l]) = "failed" /\ PhaseOf(stored'[l]) = "sent"

LEMMA QuietIfSame == UNCHANGED stored => Quiet
  BY DEF Quiet

(* A send of the run goes on beside what is done. *)
LEMMA Besides ==
  ASSUME Inv, Quiet, tick' = tick, sends'[Daemon] = Null <=> sends[Daemon] = Null,
         sends[Daemon] # Null => sends'[Daemon].line = sends[Daemon].line
  PROVE  RunFits' /\ ReviewMoves
<1>1. sends[Daemon] # Null => LineOf(Daemon) \in Lines /\ RunFits
  BY SendTyped DEF Inv, Senders
<1>2. Busy' = Busy
  BY DEF Busy, LineOf
<1>3. \A l \in Lines : l \in Busy => PhaseOf(stored[l]) # "confirmed"
  BY <1>1 DEF Busy, RunFits
<1>4. ReviewMoves
  BY <1>2, <1>3 DEF Quiet, ReviewMoves, ReviewMove, MayMove
<1>5. RunFits'
  BY <1>1 DEF RunFits, Quiet, LineOf
<1> QED BY <1>4, <1>5

(* It is broken off. *)
LEMMA BrokenOff ==
  ASSUME Inv, Quiet, sends'[Daemon] = Null
  PROVE  RunFits' /\ ReviewMoves
<1>1. Busy' = {} /\ \A l \in Lines : l \in Busy => PhaseOf(stored[l]) # "confirmed"
  BY SendTyped DEF Busy, Inv, RunFits
<1>2. \A l \in Lines : PhaseOf(stored[l]) \in {"open", "failed", "sent", "confirmed"}
  BY DEF PhaseOf
<1> QED BY <1>1, <1>2 DEF Quiet, ReviewMoves, ReviewMove, MayMove, RunFits

LEMMA OneRow ==
  ASSUME Inv, NEW l \in Lines, NEW new \in StoredRow \cup {Null}, RowFits(new, version[l]),
         stored' = [stored EXCEPT ![l] = new]
  PROVE  RowsKept /\ stored'[l] = new /\ \A k \in Lines \ {l} : stored'[k] = stored[k]
  BY DEF Inv, TypeOK, LinesTypeOK, RowsKept

LEMMA OneRowMoves ==
  ASSUME Inv, NEW l \in Lines, NEW new, GoodChange(stored[l], new, version[l]),
         stored' = [stored EXCEPT ![l] = new]
  PROVE  RowsMove
<1>1. /\ stored \in [Lines -> StoredRow \cup {Null}] /\ version \in [Lines -> Versions]
      /\ \A k \in Lines : RowFits(stored[k], version[k])
  BY DEF Inv, TypeOK, LinesTypeOK
<1>2. new \in StoredRow \cup {Null}
  BY DEF GoodChange
<1>3. ASSUME NEW k \in Lines PROVE GoodChange(stored[k], stored'[k], version[k])
  BY <1>1, NoChange
<1> QED BY <1>1, <1>2, <1>3 DEF RowsMove

LEMMA OpenRow ==
  ASSUME Inv, NEW l \in Lines, Open(l), NEW e \in {"unreachable", "rejected", Null}
  PROVE  GoodChange(stored[l], Outcome(stored[l], e), version[l])
<1>1. stored[l] \in StoredRow /\ version[l] \in Versions /\ RowFits(stored[l], version[l])
      /\ ~stored[l].sent
  BY DEF Open, Inv, TypeOK, LinesTypeOK
<1> QED BY <1>1, OutcomeSet

(* set_outcome over a row that another sync may have written since: the    *)
(* row is not confirmed.                                                   *)
LEMMA OutcomeEnds ==
  ASSUME NEW row \in StoredRow \cup {Null}, NEW v \in Versions, RowFits(row, v),
         PhaseOf(row) # "confirmed", NEW e \in {"unreachable", "rejected", Null}
  PROVE  /\ Outcome(row, e) \in StoredRow \cup {Null} /\ RowFits(Outcome(row, e), v)
         /\ IF row = Null THEN PhaseOf(Outcome(row, e)) = "open"
            ELSE PhaseOf(Outcome(row, e)) \in {"failed", "sent"}
<1>1. CASE row = Null
  BY <1>1 DEF Outcome, PhaseOf
<1>2. CASE row # Null
  <2> DEFINE new == [row EXCEPT !.sent = (e = Null), !.error = e]
  <2>1. row \in StoredRow
    BY <1>2
  <2>2. new \in StoredRow
    BY <2>1 DEF StoredRow
  <2>3. /\ new.text = row.text /\ new.manual = row.manual /\ new.basis = row.basis
        /\ new.check = row.check
        /\ new.sent = (e = Null) /\ new.error = e /\ new.confirmed = row.confirmed
    BY <2>1 DEF StoredRow
  <2>4. Outcome(row, e) = new
    BY <1>2 DEF Outcome
  <2> HIDE DEF new
  <2>5. new # Null
    BY <2>2, RowIsNotNull
  <2>6. ~row.confirmed
    BY <1>2, <2>1 DEF PhaseOf, RowFits, OutcomeFits, StoredRow
  <2>7. RowFits(new, v)
    BY <1>2, <2>3, <2>5, <2>6 DEF RowFits, TextFits, CheckFits, OutcomeFits
  <2>8. PhaseOf(new) \in {"failed", "sent"}
    BY <2>3, <2>5, <2>6 DEF PhaseOf
  <2> QED BY <1>2, <2>2, <2>4, <2>7, <2>8
<1> QED BY <1>1, <1>2

LEMMA DoneTyped ==
  ASSUME Inv, NEW l, tick # Null
  PROVE  /\ Done(l) \in [day : Days, todo : SUBSET Lines, unreachable : BOOLEAN]
         /\ Done(l).day = tick.day /\ Done(l).todo = tick.todo \ {l}
         /\ \A b \in BOOLEAN :
               /\ [Done(l) EXCEPT !.unreachable = b]
                     \in [day : Days, todo : SUBSET Lines, unreachable : BOOLEAN]
               /\ [Done(l) EXCEPT !.unreachable = b].day = tick.day
               /\ [Done(l) EXCEPT !.unreachable = b].todo = tick.todo \ {l}
<1>1. tick \in [day : Days, todo : SUBSET Lines, unreachable : BOOLEAN]
  BY DEF Inv, TypeOK
<1> QED BY <1>1 DEF Done

-----------------------------------------------------------------------------
(* Steps of a sync. *)

LEMMA EndsMoves ==
  ASSUME Inv, NEW s \in Senders, sends[s] # Null,
         NEW row \in StoredRow \cup {Null}, RowFits(row, version[LineOf(s)]),
         \/ PhaseOf(row) = PhaseOf(stored[LineOf(s)])
         \/ PhaseOf(stored[LineOf(s)]) = "failed" /\ PhaseOf(row) = "sent",
         NEW e \in {"unreachable", "rejected", Null}, Ends(s, row, e),
         UNCHANGED <<clock, enabled, plan, recap, byHand>>
  PROVE  RowsKept /\ RunFits' /\ ReviewMoves /\ RestTyped' /\ sends' = [sends EXCEPT ![s] = Null]
<1> DEFINE l == LineOf(s)
<1>1. l \in Lines /\ version[l] \in Versions /\ sends \in [Senders -> Send \cup {Null}]
  BY SendTyped DEF Inv, TypeOK, LinesTypeOK
<1>2. sends' = [sends EXCEPT ![s] = Null]
  BY DEF Ends
<1>3. CASE s = Daemon
  <2>1. PhaseOf(row) # "confirmed" /\ tick # Null
    BY <1>3 DEF Inv, RunFits
  <2> DEFINE new == Outcome(row, e)
  <2>2. /\ new \in StoredRow \cup {Null} /\ RowFits(new, version[l])
        /\ IF row = Null THEN PhaseOf(new) = "open" ELSE PhaseOf(new) \in {"failed", "sent"}
    BY <1>1, <2>1, OutcomeEnds
  <2>3. stored' = [stored EXCEPT ![l] = new]
    BY <1>3 DEF Ends
  <2> HIDE DEF new
  <2>4. RowsKept /\ stored'[l] = new /\ \A k \in Lines \ {l} : stored'[k] = stored[k]
    BY <1>1, <2>2, <2>3, OneRow
  <2>5. Busy = {l} /\ Busy' = {} /\ RunFits'
    BY <1>1, <1>2, <1>3 DEF Busy, RunFits
  <2>6. ReviewMove(PhaseOf(stored[l]), PhaseOf(stored'[l]), TRUE, FALSE)
    <3>1. PhaseOf(stored[l]) # "confirmed"
      BY <1>3 DEF Inv, RunFits
    <3>2. row = Null => PhaseOf(stored[l]) = "open"
      BY DEF PhaseOf
    <3> QED BY <2>2, <2>4, <3>1, <3>2 DEF ReviewMove
  <2>7. \A k \in Lines \ {l} : ReviewMove(PhaseOf(stored[k]), PhaseOf(stored'[k]), FALSE, FALSE)
    BY <2>4 DEF ReviewMove, MayMove
  <2>8. ReviewMoves
    <3> SUFFICES ASSUME NEW k \in Lines
                 PROVE  ReviewMove(PhaseOf(stored[k]), PhaseOf(stored'[k]), k \in Busy, k \in Busy')
      BY DEF ReviewMoves
    <3>1. CASE k = l
      BY <2>5, <2>6, <3>1 DEF ReviewMove
    <3>2. CASE k # l
      BY <2>5, <2>7, <3>2 DEF ReviewMove
    <3> QED BY <3>1, <3>2
  <2>9. RestTyped'
    <3>1. tick' = [Done(l) EXCEPT !.unreachable = Done(l).unreachable \/ e = "unreachable"]
      BY <1>3 DEF Ends
    <3>2. (Done(l).unreachable \/ e = "unreachable") \in BOOLEAN
      OBVIOUS
    <3>3. tick' \in [day : Days, todo : SUBSET Lines, unreachable : BOOLEAN]
      BY <2>1, <3>1, <3>2, DoneTyped
    <3> QED BY <3>3 DEF Inv, TypeOK, RestTyped
  <2> QED BY <1>2, <2>4, <2>5, <2>8, <2>9
<1>4. CASE s # Daemon
  <2>1. stored' = [stored EXCEPT ![l] = row] /\ tick' = tick
    BY <1>4 DEF Ends
  <2>2. RowsKept /\ stored'[l] = row /\ \A k \in Lines \ {l} : stored'[k] = stored[k]
    BY <1>1, <2>1, OneRow
  <2>3. Quiet
    BY <2>2 DEF Quiet
  <2>4. sends'[Daemon] = sends[Daemon]
    BY <1>1, <1>2, <1>4 DEF Senders
  <2>5. RunFits' /\ ReviewMoves
    BY <2>1, <2>3, <2>4, Besides
  <2> QED BY <1>2, <2>1, <2>2, <2>5, RestUnchanged
<1> QED BY <1>3, <1>4

LEMMA ListsMoves ==
  ASSUME Inv, NEW s \in Senders, NEW l \in Lines, Lists(s, l)
  PROVE  Moves
<1> DEFINE new == [line |-> l, at |-> "listed", id |-> FALSE, blocks |-> "none", basis |-> Null]
<1>1. /\ UNCHANGED <<work, version, stored, jobs, clock, enabled, plan, recap, tick, tempo, byHand>>
      /\ sends[s] = Null /\ sends' = [sends EXCEPT ![s] = new]
  BY DEF Lists, lineVars
<1>2. new \in Send /\ new.line = l /\ new.blocks = "none"
  BY DEF Send
<1> HIDE DEF new
<1>3. new # Null /\ sends \in [Senders -> Send \cup {Null}]
  BY <1>2, SenderAssumption DEF Inv, TypeOK
<1>4. WorkTyped' /\ WorkMoves /\ WorkStays /\ JobsMove /\ VersionsGrow /\ RestTyped' /\ RowsMove
  BY <1>1, TextsOnly, RestUnchanged, RowsStay
<1>5. TempoMoves
  <2>1. \A k \in Lines : ~Waiting(new, k) /\ ~Awaits(s, k)
    BY <1>1, <1>2 DEF Waiting, Awaits, At
  <2> QED BY <1>1, <1>2, <1>4, <2>1, SendChanges
<1>6. RunFits' /\ ReviewMoves
  <2>1. CASE s # Daemon
    <3>1. sends'[Daemon] = sends[Daemon]
      BY <1>1, <1>3, <2>1 DEF Senders
    <3> QED BY <1>1, <3>1, Besides, QuietIfSame
  <2>2. CASE s = Daemon
    <3>1. sends'[Daemon] = new /\ sends[Daemon] = Null
      BY <1>1, <1>3, <2>2 DEF Senders
    <3>2. Busy = {} /\ Busy' = {l}
      BY <1>2, <1>3, <3>1 DEF Busy, LineOf
    <3>3. tick # Null /\ l \in tick.todo /\ PhaseOf(stored[l]) \in {"open", "failed"}
      BY <2>2 DEF Lists, AtLine, Open, PhaseOf
    <3>4. RunFits'
      BY <1>1, <1>2, <3>1, <3>3 DEF RunFits, LineOf
    <3>5. ReviewMoves
      BY <1>1, <3>2, <3>3 DEF ReviewMoves, ReviewMove, MayMove
    <3> QED BY <3>4, <3>5
  <2> QED BY <2>1, <2>2
<1> QED BY <1>4, <1>5, <1>6, RowsMoveKeep DEF Moves

(* One that goes on is still for its line. *)
LEMMA GoesOnBeside ==
  ASSUME Inv, NEW s \in Senders, NEW new \in Send, new.line = LineOf(s), sends[s] # Null,
         sends' = [sends EXCEPT ![s] = new], Quiet, tick' = tick
  PROVE  RunFits' /\ ReviewMoves
<1>1. sends \in [Senders -> Send \cup {Null}] /\ new # Null
  BY SenderAssumption DEF Inv, TypeOK
<1>2. (sends'[Daemon] = Null <=> sends[Daemon] = Null)
      /\ (sends[Daemon] # Null => sends'[Daemon].line = sends[Daemon].line)
  BY <1>1 DEF Senders, LineOf
<1> QED BY <1>2, Besides

LEMMA ReadsMoves ==
  ASSUME Inv, NEW s \in Senders, Reads(s)
  PROVE  Moves
<1> DEFINE l == LineOf(s)
           basis == IF s # Daemon /\ TextOf(l) = Null THEN version[l] ELSE Null
           new == [line |-> l, at |-> "read", id |-> work[l].id, blocks |-> "all", basis |-> basis]
<1>1. /\ UNCHANGED <<work, version, stored, jobs, clock, enabled, plan, recap, tick, tempo, byHand>>
      /\ At(s, "listed") /\ work[l] # Null /\ sends' = [sends EXCEPT ![s] = new]
  BY DEF Reads, lineVars
<1>2. /\ sends[s] # Null /\ sends[s].at = "listed" /\ l \in Lines /\ work[l] \in Work
      /\ version[l] \in Versions
  BY <1>1, SendTyped DEF At, Inv, TypeOK, LinesTypeOK
<1>3. new \in Send /\ new.line = l /\ new.at = "read"
  BY <1>2 DEF Send, Work
<1> HIDE DEF new
<1>4. WorkTyped' /\ WorkMoves /\ WorkStays /\ JobsMove /\ VersionsGrow /\ RestTyped' /\ RowsMove
  BY <1>1, TextsOnly, RestUnchanged, RowsStay
<1>5. TempoMoves
  <2>1. \A k \in Lines : ~Waiting(new, k) /\ ~Awaits(s, k)
    BY <1>2, <1>3 DEF Waiting, Awaits, At
  <2> QED BY <1>1, <1>3, <1>4, <2>1, SendChanges
<1>6. RunFits' /\ ReviewMoves
  BY <1>1, <1>2, <1>3, GoesOnBeside, QuietIfSame
<1> QED BY <1>4, <1>5, <1>6, RowsMoveKeep DEF Moves

LEMMA TextStored ==
  ASSUME Inv, NEW s \in Senders, sends[s] # Null, StoresText(s)
  PROVE  RowsMove /\ WorkMoves /\ WorkStays /\ Quiet
<1> DEFINE l == LineOf(s)
<1>1. l \in Lines /\ sends[s] \in Send /\ stored \in [Lines -> StoredRow \cup {Null}]
  BY SendTyped DEF Inv, TypeOK, LinesTypeOK
<1>2. PICK b \in Versions, d \in Versions :
        /\ b <= d /\ d <= version[l]
        /\ Finish(l, WithGenerated(Ensured(l), [desc |-> d, grade |-> "unchecked"], b))
  BY DEF StoresText
<1> DEFINE t == [desc |-> d, grade |-> "unchecked"]
           row == WithGenerated(Ensured(l), t, b)
<1>3. t \in Generated /\ t.desc = d
  BY DEF Generated, Grades
<1> HIDE DEF t
<1>4. GoodChange(stored[l], row, version[l]) /\ PhaseOf(row) = PhaseOf(stored[l])
  BY <1>1, <1>2, <1>3, GeneratedIsGood
<1>5. row.text # Null
  <2>1. Ensured(l) \in StoredRow
    BY <1>1, BlankIsRow DEF Ensured
  <2>2. row.text = t
    BY <2>1 DEF WithGenerated, StoredRow
  <2> QED BY <1>3, <2>2, RowIsNotNull DEF Texts
<1>6. Finish(l, row)
  BY <1>2 DEF t
<1> HIDE DEF row
<1>7. stored' = [stored EXCEPT ![l] = row]
  BY <1>5, <1>6 DEF Finish
<1>8. Quiet
  BY <1>1, <1>4, <1>7 DEF Quiet
<1> QED BY <1>1, <1>4, <1>6, <1>8, Finished

LEMMA RequestsMoves ==
  ASSUME Inv, NEW s \in Senders, Requests(s)
  PROVE  Moves
<1> DEFINE l == LineOf(s)
           new == [sends[s] EXCEPT !.at = "sent", !.basis = Null]
<1>1. /\ UNCHANGED <<version, jobs, clock, enabled, plan, recap, tick, byHand>>
      /\ At(s, "read") /\ sends' = [sends EXCEPT ![s] = new]
      /\ tempo' = IF Anew(s) THEN [tempo EXCEPT ![l].posts = @ + 1] ELSE tempo
      /\ StoresText(s) \/ UNCHANGED <<stored, work>>
  BY DEF Requests
<1>2. /\ sends[s] # Null /\ sends[s].at = "read" /\ l \in Lines /\ sends[s] \in Send
      /\ l = sends[s].line
  BY <1>1, SendTyped DEF At
<1>3. /\ new \in Send /\ new.line = l /\ new.at = "sent" /\ new.id = sends[s].id
      /\ new.blocks = sends[s].blocks
  BY <1>2 DEF Send
<1> HIDE DEF new
<1>4. RowsMove /\ WorkMoves /\ WorkStays /\ Quiet
  BY <1>1, <1>2, TextStored, RowsStay, WorkUnchanged, QuietIfSame
<1>5. JobsMove /\ VersionsGrow /\ RestTyped' /\ WorkTyped'
  BY <1>1, <1>4, JobsUnchanged, VersionsUnchanged, RestUnchanged DEF WorkMoves, WorkTyped
<1>6. sends[s].blocks # "none" => work[l] # Null
  BY <1>2 DEF Inv, TempoFits
<1>7. TempoMoves
  <2>1. \A k \in Lines : ~Awaits(s, k)
    BY <1>2 DEF Awaits, At
  <2>2. CASE Anew(s)
    <3>1. new \in Send /\ Waiting(new, l) /\ work[l] # Null
      BY <1>3, <1>6, <2>2, SenderAssumption DEF Waiting, Anew
    <3>2. tempo' = [tempo EXCEPT ![l].posts = @ + 1]
      BY <1>1, <2>2
    <3> QED BY <1>1, <1>2, <1>4, <2>1, <3>1, <3>2, PostMade
  <2>3. CASE ~Anew(s)
    <3>1. \A k \in Lines : ~Waiting(new, k)
      BY <1>3, <2>3 DEF Waiting, Anew
    <3> QED BY <1>1, <1>3, <1>4, <1>6, <2>1, <2>3, <3>1, SendChanges
  <2> QED BY <2>2, <2>3
<1>8. RunFits' /\ ReviewMoves
  BY <1>1, <1>2, <1>3, <1>4, GoesOnBeside
<1> QED BY <1>4, <1>5, <1>7, <1>8, RowsMoveKeep DEF Moves

LEMMA ClearedRow ==
  ASSUME NEW row \in StoredRow \cup {Null}, NEW v \in Versions, RowFits(row, v)
  PROVE  /\ ErrorCleared(row) \in StoredRow \cup {Null} /\ RowFits(ErrorCleared(row), v)
         /\ \/ PhaseOf(ErrorCleared(row)) = PhaseOf(row)
            \/ PhaseOf(row) = "failed" /\ PhaseOf(ErrorCleared(row)) = "sent"
<1>1. GoodChange(row, ErrorCleared(row), v)
  BY ErrorGone
<1>2. row = Null \/ row.error = Null => ErrorCleared(row) = row
  BY DEF ErrorCleared
<1>3. CASE row # Null /\ row.error # Null
  <2>1. row \in StoredRow /\ ~row.confirmed
    BY <1>3 DEF RowFits, OutcomeFits
  <2> DEFINE new == [row EXCEPT !.error = Null, !.sent = TRUE]
  <2>2. new \in StoredRow /\ new.error = Null /\ new.sent /\ new.confirmed = row.confirmed
    BY <2>1 DEF StoredRow
  <2>3. ErrorCleared(row) = new
    BY <1>3 DEF ErrorCleared
  <2> HIDE DEF new
  <2>4. new # Null
    BY <2>2, RowIsNotNull
  <2>5. PhaseOf(row) = "failed"
    BY <1>3 DEF PhaseOf
  <2>6. PhaseOf(new) = "sent"
    BY <2>1, <2>2, <2>4 DEF PhaseOf
  <2> QED BY <1>1, <2>3, <2>5, <2>6 DEF GoodChange
<1> QED BY <1>1, <1>2, <1>3 DEF GoodChange

LEMMA WritesBackMoves ==
  ASSUME Inv, NEW s \in Senders, WritesBack(s)
  PROVE  Moves
<1> DEFINE l == LineOf(s)
           row == ErrorCleared(stored[l])
<1>1. /\ UNCHANGED <<version, jobs, clock, enabled, plan, recap, tempo, byHand>>
      /\ At(s, "sent") /\ work' = WrittenBack(s) /\ Ends(s, row, Null)
  BY DEF WritesBack
<1>2. /\ sends[s] # Null /\ l \in Lines /\ version[l] \in Versions
      /\ stored[l] \in StoredRow \cup {Null} /\ RowFits(stored[l], version[l])
  BY <1>1, SendTyped DEF At, Inv, TypeOK, LinesTypeOK
<1>3. /\ row \in StoredRow \cup {Null} /\ RowFits(row, version[l])
      /\ \/ PhaseOf(row) = PhaseOf(stored[l])
         \/ PhaseOf(stored[l]) = "failed" /\ PhaseOf(row) = "sent"
  BY <1>2, ClearedRow
<1> HIDE DEF row
<1>4. /\ RowsKept /\ RunFits' /\ ReviewMoves /\ RestTyped'
      /\ sends' = [sends EXCEPT ![s] = Null]
  BY <1>1, <1>2, <1>3, EndsMoves
<1>5. TempoMoves /\ WorkTyped'
  BY <1>1, <1>4, WrittenBackMoves
<1> QED BY <1>1, <1>4, <1>5, JobsUnchanged, VersionsUnchanged DEF Moves

LEMMA FindsMoves ==
  ASSUME Inv, NEW s \in Senders, Finds(s)
  PROVE  Moves
<1> DEFINE l == LineOf(s)
           row == EnsuredRow(stored[l])
<1>1. /\ UNCHANGED <<work, version, jobs, clock, enabled, plan, recap, tempo, byHand>>
      /\ At(s, "read") /\ Ends(s, row, Null)
  BY DEF Finds, Ensured, EnsuredRow
<1>2. /\ sends[s] # Null /\ sends[s].at = "read" /\ l \in Lines /\ version[l] \in Versions
      /\ stored[l] \in StoredRow \cup {Null} /\ RowFits(stored[l], version[l])
  BY <1>1, SendTyped DEF At, Inv, TypeOK, LinesTypeOK
<1>3. row \in StoredRow \cup {Null} /\ RowFits(row, version[l]) /\ PhaseOf(row) = PhaseOf(stored[l])
  BY <1>2, EnsuredFits
<1> HIDE DEF row
<1>4. /\ RowsKept /\ RunFits' /\ ReviewMoves /\ RestTyped'
      /\ sends' = [sends EXCEPT ![s] = Null]
  BY <1>1, <1>2, <1>3, EndsMoves
<1>5. WorkTyped' /\ WorkMoves /\ WorkStays /\ JobsMove /\ VersionsGrow
  BY <1>1, TextsOnly
<1>6. TempoMoves
  <2>1. \A k \in Lines : ~Waiting(Null, k) /\ ~Awaits(s, k)
    BY <1>2 DEF Waiting, Awaits, At
  <2> QED BY <1>1, <1>4, <1>5, <2>1, SendChanges
<1> QED BY <1>4, <1>5, <1>6 DEF Moves

(* A request is over without an answer that is written down. *)
LEMMA LostMoves ==
  ASSUME Inv, NEW s \in Senders, sends[s] # Null, AnswerLost(s), sends' = [sends EXCEPT ![s] = Null],
         WorkMoves, WorkStays
  PROVE  TempoMoves
<1> DEFINE l == LineOf(s)
<1>0. l \in Lines
  BY SendTyped
<1>1. CASE Awaits(s, l)
  BY <1>0, <1>1, PostLost DEF AnswerLost
<1>2. CASE ~Awaits(s, l)
  <2>1. \A k \in Lines : ~Waiting(Null, k) /\ ~Awaits(s, k)
    BY <1>2 DEF Waiting, Awaits
  <2>2. tempo' = tempo
    BY <1>2 DEF AnswerLost
  <2> QED BY <2>1, <2>2, SendChanges
<1> QED BY <1>1, <1>2

LEMMA FailsMoves ==
  ASSUME Inv, NEW s \in Senders, NEW e \in {"unreachable", "rejected"}, Fails(s, e)
  PROVE  Moves
<1> DEFINE l == LineOf(s)
<1>1. /\ UNCHANGED <<work, version, jobs, clock, enabled, plan, recap, byHand>>
      /\ sends[s] # Null /\ AnswerLost(s) /\ Ends(s, stored[l], e)
  BY DEF Fails
<1>2. /\ l \in Lines /\ stored[l] \in StoredRow \cup {Null} /\ RowFits(stored[l], version[l])
  BY <1>1, SendTyped DEF Inv, TypeOK, LinesTypeOK
<1>3. /\ RowsKept /\ RunFits' /\ ReviewMoves /\ RestTyped'
      /\ sends' = [sends EXCEPT ![s] = Null]
  BY <1>1, <1>2, EndsMoves
<1>4. WorkTyped' /\ WorkMoves /\ WorkStays /\ JobsMove /\ VersionsGrow
  BY <1>1, TextsOnly
<1>5. TempoMoves
  BY <1>1, <1>3, <1>4, LostMoves
<1> QED BY <1>3, <1>4, <1>5 DEF Moves

LEMMA GoesOnMoves ==
  ASSUME Inv, NEW s \in Senders, GoesOn(s)
  PROVE  Moves
  BY ReadsMoves, RequestsMoves, WritesBackMoves, FindsMoves, FailsMoves DEF GoesOn

LEMMA PassOverMoves ==
  ASSUME Inv, NEW l \in Lines, PassOver(l)
  PROVE  Moves
<1>1. /\ UNCHANGED <<work, version, stored, jobs, clock, enabled, plan, recap, sends, tempo, byHand>>
      /\ tick # Null /\ sends[Daemon] = Null /\ tick' = Done(l)
  BY DEF PassOver, AtLine, lineVars
<1>2. RestTyped'
  BY <1>1, DoneTyped DEF Inv, TypeOK, RestTyped
<1> QED BY <1>1, <1>2, RowsStay, OutsideSends, TextsOnly, TempoUnchanged DEF Moves

LEMMA NothingMoves ==
  ASSUME Inv, NEW l \in Lines, NothingToSend(l)
  PROVE  Moves
<1>1. /\ UNCHANGED <<work, version, jobs, clock, enabled, plan, recap, sends, tempo, byHand>>
      /\ tick # Null /\ sends[Daemon] = Null /\ tick' = Done(l) /\ Open(l)
      /\ stored' = [stored EXCEPT ![l] = Outcome(stored[l], Null)]
  BY DEF NothingToSend, AtLine
<1>2. RestTyped'
  BY <1>1, DoneTyped DEF Inv, TypeOK, RestTyped
<1>3. RowsMove
  BY <1>1, OpenRow, OneRowMoves
<1> QED BY <1>1, <1>2, <1>3, OutsideSends, TextsOnly, TempoUnchanged DEF Moves

LEMMA TickEndMoves ==
  ASSUME Inv, TickEnd
  PROVE  Moves
<1>1. /\ UNCHANGED <<work, version, stored, jobs, clock, enabled, plan, sends, tempo, byHand>>
      /\ tick.todo = {}
  BY DEF TickEnd, lineVars
<1>2. RestTyped'
  BY DayAssumption DEF TickEnd, Inv, TypeOK, RestTyped, Days
<1>3. sends[Daemon] = Null
  BY <1>1 DEF Inv, RunFits
<1> QED BY <1>1, <1>2, <1>3, RowsStay, OutsideSends, TextsOnly, TempoUnchanged DEF Moves

LEMMA TickBeginMoves ==
  ASSUME Inv, TickBegin
  PROVE  Moves
<1>1. UNCHANGED <<work, version, jobs, clock, enabled, sends, tempo, byHand>> /\ tick = Null
  BY DEF TickBegin
<1>2. RowsMove
  <2>1. stored' = RolledOver
    BY DEF TickBegin
  <2>2. ASSUME NEW l \in Lines PROVE GoodChange(stored[l], RolledOver[l], version[l])
    <3>1. stored[l] \in StoredRow \cup {Null} /\ version[l] \in Versions /\ RowFits(stored[l], version[l])
      BY DEF Inv, TypeOK, LinesTypeOK
    <3>2. CASE PlanStale /\ l \in plan.lines /\ Open(l) /\ stored[l].error = Null
      <4>1. stored[l] # Null /\ stored[l] \in StoredRow /\ ~stored[l].sent
        BY <3>1, <3>2 DEF Open
      <4>2. Outcome(stored[l], "unreachable") = [stored[l] EXCEPT !.error = "unreachable"]
        <5>1. ("unreachable" = Null) = stored[l].sent /\ stored[l].sent \in BOOLEAN
          BY <4>1, RowIsNotNull DEF StoredRow
        <5>2. [stored[l] EXCEPT !.sent = stored[l].sent, !.error = "unreachable"]
                 = [stored[l] EXCEPT !.error = "unreachable"]
          BY <4>1 DEF StoredRow
        <5> QED BY <4>1, <5>1, <5>2 DEF Outcome
      <4> QED BY <3>2, <4>2, OpenRow DEF RolledOver
    <3>3. CASE ~(PlanStale /\ l \in plan.lines /\ Open(l) /\ stored[l].error = Null)
      BY <3>1, <3>3, NoChange DEF RolledOver
    <3> QED BY <3>2, <3>3
  <2>3. RolledOver = [l \in Lines |-> RolledOver[l]] /\ \A l \in Lines : RolledOver[l] \in StoredRow \cup {Null}
    BY <2>2 DEF RolledOver, GoodChange
  <2> HIDE DEF RolledOver
  <2> QED BY <2>1, <2>2, <2>3 DEF RowsMove
<1>3. RestTyped'
  <2>1. /\ Today \in Days /\ plan \in [day : Days, lines : SUBSET Lines] \cup {Null}
        /\ recap \in 0 .. LastDay
    BY DEF Inv, TypeOK, Today
  <2>2. PlanForToday \in [day : Days, lines : SUBSET Lines]
    BY <2>1 DEF PlanForToday, LinesOf
  <2>3. PlanStale => plan.day \in 0 .. LastDay
    BY <2>1, DayAssumption DEF PlanStale, Days
  <2>4. recap' \in 0 .. LastDay
    BY <2>1, <2>3 DEF TickBegin
  <2>5. plan' \in [day : Days, lines : SUBSET Lines] \cup {Null}
    BY <2>1, <2>2 DEF TickBegin
  <2>6. tick' \in [day : Days, todo : SUBSET Lines, unreachable : BOOLEAN] \cup {Null}
    <3>1. PlanForToday.lines \in SUBSET Lines
      BY <2>2
    <3>2. [day |-> Today, todo |-> PlanForToday.lines, unreachable |-> FALSE]
             \in [day : Days, todo : SUBSET Lines, unreachable : BOOLEAN]
      BY <2>1, <3>1
    <3> QED BY <3>2 DEF TickBegin
  <2> QED BY <1>1, <2>4, <2>5, <2>6 DEF RestTyped, Inv, TypeOK
<1>4. sends[Daemon] = Null
  BY <1>1 DEF Inv, RunFits
<1> QED BY <1>1, <1>2, <1>3, <1>4, OutsideSends, TextsOnly, TempoUnchanged DEF Moves

LEMMA CrashMoves ==
  ASSUME Inv, Crash
  PROVE  Moves
<1>1. /\ UNCHANGED <<version, clock, enabled, plan, recap, byHand>>
      /\ tick' = Null /\ sends' = [sends EXCEPT ![Daemon] = Null]
  BY DEF Crash
<1>2. /\ Daemon \in Senders /\ sends \in [Senders -> Send \cup {Null}]
      /\ stored \in [Lines -> StoredRow \cup {Null}]
  BY DEF Senders, Inv, TypeOK, LinesTypeOK
<1>3. RestTyped' /\ VersionsGrow
  BY <1>1, VersionsUnchanged DEF Inv, TypeOK, RestTyped
<1>4. JobsMove
  BY DEF Crash, JobsMove, JobFits
<1>5. RowsKept /\ Quiet /\ TempoMoves /\ WorkTyped'
  <2>1. CASE UNCHANGED <<work, stored>> /\ sends[Daemon] = Null /\ tempo' = tempo
    <3>1. sends' = sends
      BY <1>1, <1>2, <2>1
    <3> QED BY <2>1, <3>1, WorkUnchanged, RowsStay, RowsMoveKeep, QuietIfSame, TempoUnchanged
            DEF WorkMoves, WorkTyped
  <2>2. CASE sends[Daemon] # Null /\ AnswerLost(Daemon) /\ UNCHANGED <<work, stored>>
    BY <1>1, <1>2, <2>2, WorkUnchanged, RowsStay, RowsMoveKeep, QuietIfSame, LostMoves
       DEF WorkMoves, WorkTyped
  <2>3. CASE /\ At(Daemon, "sent") /\ work' = WrittenBack(Daemon) /\ tempo' = tempo
             /\ stored' = [stored EXCEPT ![LineOf(Daemon)] = ErrorCleared(@)]
    <3> DEFINE l == LineOf(Daemon)
               row == ErrorCleared(stored[l])
    <3>1. /\ l \in Lines /\ version[l] \in Versions
          /\ stored[l] \in StoredRow \cup {Null} /\ RowFits(stored[l], version[l])
      BY <1>2, <2>3, SendTyped DEF At, Inv, TypeOK, LinesTypeOK
    <3>2. /\ row \in StoredRow \cup {Null} /\ RowFits(row, version[l])
          /\ \/ PhaseOf(row) = PhaseOf(stored[l])
             \/ PhaseOf(stored[l]) = "failed" /\ PhaseOf(row) = "sent"
      BY <3>1, ClearedRow
    <3>3. stored' = [stored EXCEPT ![l] = row]
      BY <2>3
    <3> HIDE DEF row
    <3>4. RowsKept /\ stored'[l] = row /\ \A k \in Lines \ {l} : stored'[k] = stored[k]
      BY <3>1, <3>2, <3>3, OneRow
    <3>5. Quiet
      BY <3>2, <3>4 DEF Quiet
    <3>6. TempoMoves /\ WorkTyped'
      BY <1>1, <1>2, <2>3, WrittenBackMoves
    <3> QED BY <3>4, <3>5, <3>6
  <2> QED BY <2>1, <2>2, <2>3 DEF Crash
<1>6. RunFits' /\ ReviewMoves
  BY <1>1, <1>2, <1>5, BrokenOff
<1> QED BY <1>3, <1>4, <1>5, <1>6 DEF Moves

LEMMA ConfirmMoves ==
  ASSUME Inv, NEW S \in SUBSET Lines, Confirm(S)
  PROVE  Moves
<1>1. UNCHANGED <<work, version, jobs, autoVars>> /\ tick = Null
  BY DEF Confirm
<1>2. ASSUME NEW l \in Lines
      PROVE  stored'[l] \in StoredRow \cup {Null} /\ GoodChange(stored[l], stored'[l], version[l])
  <2>1. stored[l] \in StoredRow \cup {Null} /\ version[l] \in Versions /\ RowFits(stored[l], version[l])
    BY DEF Inv, TypeOK, LinesTypeOK
  <2>2. CASE l \in S /\ Confirmable(l)
    <3> DEFINE new == [stored[l] EXCEPT !.confirmed = TRUE]
    <3>1. stored'[l] = new /\ stored[l] \in StoredRow /\ stored[l] # Null
      BY <2>1, <2>2 DEF Confirm, Confirmable
    <3>2. new \in StoredRow
      BY <3>1 DEF StoredRow
    <3>3. /\ new.text = stored[l].text /\ new.manual = stored[l].manual
          /\ new.basis = stored[l].basis /\ new.check = stored[l].check
          /\ new.sent = stored[l].sent /\ new.error = stored[l].error /\ new.confirmed
      BY <3>1 DEF StoredRow
    <3> HIDE DEF new
    <3>4. new # Null
      BY <3>2, RowIsNotNull
    <3>5. RowFits(new, version[l])
      BY <2>1, <2>2, <3>1, <3>3, <3>4 DEF RowFits, TextFits, CheckFits, OutcomeFits, Confirmable
    <3>6. MayMove(PhaseOf(stored[l]), PhaseOf(new))
      BY <2>2, <3>1, <3>3, <3>4 DEF PhaseOf, MayMove, Confirmable
    <3> QED BY <3>1, <3>2, <3>5, <3>6 DEF GoodChange
  <2>3. CASE ~(l \in S /\ Confirmable(l))
    BY <2>1, <2>3, NoChange DEF Confirm
  <2> QED BY <2>2, <2>3
<1>3. RowsMove
  BY <1>2 DEF RowsMove, Confirm
<1>4. sends[Daemon] = Null /\ sends' = sends
  BY <1>1 DEF Inv, RunFits, autoVars
<1> QED BY <1>1, <1>3, <1>4, OutsideSends, TextsOnly, TempoUnchanged, RestUnchanged DEF Moves, autoVars

LEMMA EditMoves ==
  ASSUME Inv, NEW l \in Lines, Edit(l)
  PROVE  Moves
<1>1. LinesMove /\ WorkStays /\ UNCHANGED autoVars /\ tick = Null
  BY LineEditMoves DEF Edit
<1>2. sends[Daemon] = Null /\ sends' = sends
  BY <1>1 DEF Inv, RunFits, autoVars
<1> QED BY <1>1, <1>2, OutsideSends, TempoUnchanged, RestUnchanged
        DEF Moves, LinesMove, WorkMoves, WorkTyped, autoVars

LEMMA ArrivesMoves ==
  ASSUME Inv, NEW l \in Lines, NEW b \in BOOLEAN, BlockArrives(l, b)
  PROVE  Moves
<1>1. /\ UNCHANGED <<clock, enabled, plan, recap, tick, tempo, byHand>> /\ tick = Null
      /\ WorkArrives(l, b) /\ sends' = KnowsOf(l, "some")
  BY DEF BlockArrives
<1>2. LinesMove /\ work'[l] # Null /\ \A k \in Lines \ {l} : work'[k] = work[k]
  BY <1>1, WorkEdited
<1>3. /\ sends' \in [Senders -> Send \cup {Null}]
      /\ \A s \in Senders : sends'[s] = Null <=> sends[s] = Null
      /\ \A s \in Senders : sends[s] # Null => sends'[s].line = sends[s].line
      /\ \A s \in Senders : sends[s] # Null /\ sends[s].blocks = "none" => sends'[s].blocks = "none"
      /\ \A k \in Lines : Posted(k)' = Posted(k)
  BY <1>1, KnowsOfMoves
<1>4. ASSUME NEW k \in Lines PROVE TempoFits(k)'
  <2>1. TempoFits(k)
    BY DEF Inv
  <2>2. HasId(k)' <=> HasId(k)
    BY <1>2 DEF LinesMove, WorkMoves, HasId
  <2>3. work'[k] = Null => work[k] = Null
    BY <1>2
  <2>4. work'[k] = Null =>
           \A s \in Senders : sends'[s] # Null /\ sends'[s].line = k => sends'[s].blocks = "none"
    BY <1>3, <2>1, <2>3 DEF TempoFits, LineOf
  <2> QED BY <1>1, <1>3, <2>1, <2>2, <2>4 DEF TempoFits, LineOf
<1>5. TempoMoves
  BY <1>1, <1>3, <1>4 DEF TempoMoves, Inv, TypeOK, Sent
<1>6. sends[Daemon] = Null /\ sends'[Daemon] = Null
  BY <1>1, <1>3 DEF Inv, RunFits, Senders
<1> QED BY <1>1, <1>2, <1>5, <1>6, OutsideSends, RestUnchanged DEF Moves, LinesMove, WorkMoves, WorkTyped

LEMMA LeaveMoves ==
  ASSUME Inv, NEW l \in Lines, BlocksLeave(l)
  PROVE  Moves
<1>1. /\ UNCHANGED <<clock, enabled, plan, recap, tick, byHand>> /\ tick = Null
      /\ WorkLeaves(l) /\ sends' = KnowsOf(l, "none")
      /\ tempo' = [tempo EXCEPT ![l] = NothingSent]
  BY DEF BlocksLeave
<1>2. LinesMove /\ work'[l] = Null /\ \A k \in Lines \ {l} : work'[k] = work[k]
  BY <1>1, WorkLeft
<1> DEFINE part == "none"
<1>3. part \in {"some", "none"} /\ sends' = KnowsOf(l, part) /\ part = "none"
  BY <1>1
<1> HIDE DEF part
<1>4. /\ sends' \in [Senders -> Send \cup {Null}]
      /\ \A s \in Senders : sends'[s] = Null <=> sends[s] = Null
      /\ \A s \in Senders : sends[s] # Null => sends'[s].line = sends[s].line
      /\ \A s \in Senders : sends[s] # Null /\ sends[s].blocks = "none" => sends'[s].blocks = "none"
      /\ \A s \in Senders : sends[s] # Null /\ sends[s].line = l => sends'[s].blocks = "none"
      /\ \A k \in Lines : Posted(k)' = IF k = l THEN {} ELSE Posted(k)
  BY <1>3, KnowsOfMoves
<1>5. tempo \in [Lines -> Sent] /\ NothingSent \in Sent /\ NothingSent.posts = 0 /\ NothingSent.lost = 0
  BY DEF NothingSent, Sent, Inv, TypeOK
<1>6. tempo' \in [Lines -> Sent] /\ tempo'[l] = NothingSent /\ \A k \in Lines \ {l} : tempo'[k] = tempo[k]
  BY <1>1, <1>5
<1>7. ASSUME NEW k \in Lines PROVE TempoFits(k)'
  <2>1. CASE k = l
    <3>1. Cardinality(Posted(k)') = 0
      BY <1>4, <2>1, FS_EmptySet
    <3>2. \A s \in Senders : sends'[s] # Null /\ sends'[s].line = k => sends'[s].blocks = "none"
      BY <1>4, <2>1
    <3> QED BY <1>5, <1>6, <2>1, <3>1, <3>2 DEF TempoFits, LineOf
  <2>2. CASE k # l
    <3>1. TempoFits(k) /\ work'[k] = work[k] /\ tempo'[k] = tempo[k] /\ Posted(k)' = Posted(k)
      BY <1>2, <1>4, <1>6, <2>2 DEF Inv
    <3>2. work'[k] = Null =>
             \A s \in Senders : sends'[s] # Null /\ sends'[s].line = k => sends'[s].blocks = "none"
      BY <1>4, <3>1 DEF TempoFits, LineOf
    <3> QED BY <3>1, <3>2 DEF TempoFits, LineOf, HasId
  <2> QED BY <2>1, <2>2
<1>8. TempoMoves
  BY <1>4, <1>6, <1>7 DEF TempoMoves
<1>9. sends[Daemon] = Null /\ sends'[Daemon] = Null
  BY <1>1, <1>4 DEF Inv, RunFits, Senders
<1> QED BY <1>1, <1>2, <1>8, <1>9, OutsideSends, RestUnchanged DEF Moves, LinesMove, WorkMoves, WorkTyped

(* A job stores nothing while a tick holds the lock. *)
LEMMA JobsGoOnMoves ==
  ASSUME Inv, JobsGoOn
  PROVE  Moves
<1>1. LinesMove /\ WorkStays /\ UNCHANGED autoVars
  BY JobStepMoves, AnsweredMoves, UnansweredMoves DEF JobsGoOn
<1>2. RunFits' /\ ReviewMoves
  <2>1. CASE UNCHANGED stored
    BY <1>1, <2>1, QuietIfSame, Besides DEF autoVars
  <2>2. CASE tick = Null
    <3>1. sends[Daemon] = Null /\ sends' = sends
      BY <1>1, <2>2 DEF Inv, RunFits, autoVars
    <3> QED BY <1>1, <3>1, OutsideSends DEF LinesMove
  <2> QED BY <2>1, <2>2 DEF JobsGoOn, Answered, Unanswered
<1> QED BY <1>1, <1>2, TempoUnchanged, RestUnchanged, RowsMoveKeep
        DEF Moves, LinesMove, WorkMoves, WorkTyped, autoVars

LEMMA ClockMoves ==
  ASSUME Inv, Evening \/ Midnight \/ Toggle \/ \E l \in Lines : EnterByHand(l)
  PROVE  Moves
<1>1. UNCHANGED <<work, version, stored, jobs, plan, recap, tick, sends, tempo>>
  BY DEF Evening, Midnight, Toggle, EnterByHand, lineVars
<1>2. RestTyped'
  <2>1. /\ clock \in [day : Days, evening : BOOLEAN] /\ enabled \in BOOLEAN /\ byHand \in SUBSET Lines
        /\ plan' \in [day : Days, lines : SUBSET Lines] \cup {Null} /\ recap' \in 0 .. LastDay
        /\ tick' \in [day : Days, todo : SUBSET Lines, unreachable : BOOLEAN] \cup {Null}
    BY <1>1 DEF Inv, TypeOK
  <2>2. clock' \in [day : Days, evening : BOOLEAN]
    <3>1. CASE Midnight
      <4>1. Today + 1 \in Days
        BY <2>1, <3>1, DayAssumption DEF Midnight, Today, Days
      <4>2. clock' = [day |-> Today + 1, evening |-> FALSE]
        BY <3>1 DEF Midnight
      <4> QED BY <4>1, <4>2
    <3>2. CASE Evening
      BY <2>1, <3>2 DEF Evening
    <3>3. CASE ~Midnight /\ ~Evening
      BY <2>1, <3>3 DEF Toggle, EnterByHand
    <3> QED BY <3>1, <3>2, <3>3
  <2>3. enabled' \in BOOLEAN /\ byHand' \in SUBSET Lines
    BY <2>1 DEF Evening, Midnight, Toggle, EnterByHand
  <2> QED BY <2>1, <2>2, <2>3 DEF RestTyped
<1>3. RunFits' /\ ReviewMoves
  BY <1>1, QuietIfSame, Besides
<1> QED BY <1>1, <1>2, <1>3, TextsOnly, RowsStay, RowsMoveKeep, TempoUnchanged DEF Moves

LEMMA NextMoves == Inv /\ Next => Moves
<1> SUFFICES ASSUME Inv, Next PROVE Moves
  OBVIOUS
<1>1. CASE Owner
  <2>1. LinesOf(clock.day) \subseteq Lines /\ \A d \in Days : LinesOf(d) \in SUBSET Lines
    BY DEF LinesOf
  <2>2. CASE Edits
    BY <2>2, EditMoves, ArrivesMoves, LeaveMoves DEF Edits
  <2>3. CASE SyncBegins
    BY <2>3, ListsMoves DEF SyncBegins, Senders
  <2> QED BY <1>1, <2>1, <2>2, <2>3, ClockMoves, ConfirmMoves DEF Owner
<1>2. CASE TickStep
  BY <1>2, PassOverMoves, NothingMoves, ListsMoves, GoesOnMoves, TickEndMoves DEF TickStep, Senders
<1>3. CASE SyncGoesOn
  BY <1>3, GoesOnMoves DEF SyncGoesOn, Senders
<1> QED BY <1>1, <1>2, <1>3, JobsGoOnMoves, TickBeginMoves, CrashMoves, ClockMoves DEF Next

(* Nothing is under way at first. *)
LEMMA NothingBegun ==
  ASSUME tempo = [l \in Lines |-> NothingSent], sends = [s \in Senders |-> Null], tick = Null
  PROVE  /\ \A l \in Lines : TempoFits(l)
         /\ RunFits /\ sends \in [Senders -> Send \cup {Null}]
         /\ tempo \in [Lines -> [posts : Nat, lost : Nat]]
<1>1. Daemon \in Senders /\ \A s \in Senders : sends[s] = Null
  BY DEF Senders
<1>2. \A l \in Lines : Posted(l) = {}
  BY <1>1 DEF Posted, Awaits, At
<1>3. NothingSent \in [posts : Nat, lost : Nat] /\ NothingSent.posts = 0 /\ NothingSent.lost = 0
  BY DEF NothingSent
<1>4. ASSUME NEW l \in Lines PROVE TempoFits(l)
  <2>1. Cardinality(Posted(l)) = 0
    BY <1>2, FS_EmptySet
  <2>2. tempo[l] = NothingSent
    OBVIOUS
  <2>3. \A s \in Senders : sends[s] # Null /\ LineOf(s) = l => sends[s].blocks = "none"
    BY <1>1
  <2> QED BY <1>3, <2>1, <2>2, <2>3 DEF TempoFits
<1> QED BY <1>1, <1>3, <1>4 DEF RunFits

LEMMA InitInv == Init => Inv
<1> SUFFICES ASSUME Init PROVE Inv
  OBVIOUS
<1>1. /\ \A l \in Lines : work[l] = Null /\ version[l] = 0 /\ stored[l] = Null
      /\ \A j \in Jobs : jobs[j] = Null
  BY DEF Init, LinesInit
<1>2. 0 \in Versions /\ 1 \in Days /\ 0 \in 0 .. LastDay
  BY LineAssumption, DayAssumption DEF Versions, Days
<1>3. (\A l \in Lines : TempoFits(l)) /\ RunFits
  BY NothingBegun DEF Init
<1>4. TypeOK
  BY <1>2, NothingBegun DEF Init, LinesInit, TypeOK, LinesTypeOK
<1> QED BY <1>1, <1>3, <1>4 DEF Inv, RowFits, JobFits

LEMMA StepInv == Inv /\ [Next]_vars => Inv'
<1> SUFFICES ASSUME Inv, [Next]_vars PROVE Inv'
  OBVIOUS
<1>1. CASE Next
  BY <1>1, NextMoves, MovesKeepInv
<1>2. CASE UNCHANGED vars
  <2>1. TypeOK'
    BY <1>2 DEF vars, lineVars, autoVars, Inv, TypeOK, LinesTypeOK
  <2>2. /\ \A l \in Lines : RowFits(stored'[l], version'[l])
        /\ \A j \in Jobs : JobFits(jobs'[j], version')
    BY <1>2 DEF vars, lineVars, Inv
  <2>3. TempoMoves
    BY <1>2, WorkUnchanged, TempoUnchanged DEF vars, lineVars, autoVars
  <2>4. RunFits'
    BY <1>2 DEF vars, lineVars, autoVars, Inv, RunFits, LineOf
  <2> QED BY <2>1, <2>2, <2>3, <2>4 DEF Inv, TempoMoves
<1> QED BY <1>1, <1>2

LEMMA SpecInv == Spec => []Inv
  BY InitInv, StepInv, PTL DEF Spec
-----------------------------------------------------------------------------
(* Every value stays in its type, however many jobs, days and answers.     *)
THEOREM AutoSendIsTyped == Spec => []TypeOK
<1>1. Inv => TypeOK
  BY DEF Inv
<1> QED BY <1>1, SpecInv, PTL

(* A "passed" check is always that of the text stored with it, whatever    *)
(* jobs, owner and syncs write (tempo_lines.rs, line_check.rs).            *)
THEOREM ChecksFitTexts == Spec => []CheckFitsText
<1>1. Inv => CheckFitsText
  BY DEF Inv, RowFits, CheckFits, CheckFitsText
<1> QED BY <1>1, SpecInv, PTL

(* A text that was not written from the present descriptions is found by   *)
(* the next pass, however the jobs that wrote it interleaved with edits.   *)
THEOREM StaleTextsArePending == Spec => []StaleTextIsPending
<1>1. Inv => StaleTextIsPending
  <2> SUFFICES ASSUME Inv, NEW l \in Lines, work[l] # Null, ~Manual(l), TextOf(l) \in Generated,
                      TextOf(l).desc # version[l]
               PROVE  Pending(l)
    BY DEF StaleTextIsPending
  <2>1. stored[l] # Null /\ RowFits(stored[l], version[l]) /\ version[l] \in Versions
    BY RowIsNotNull DEF TextOf, Inv, TypeOK, LinesTypeOK, Texts
  <2>2. /\ ~stored[l].manual /\ TextOf(l) = stored[l].text
        /\ stored[l].basis \in Versions /\ stored[l].basis <= TextOf(l).desc
        /\ TextOf(l).desc <= version[l]
    BY <2>1 DEF Manual, TextOf, RowFits, TextFits
  <2>3. stored[l].basis \in Nat /\ TextOf(l).desc \in Nat /\ version[l] \in Nat
    BY <2>1, <2>2, LineAssumption DEF Versions, Generated
  <2>4. stored[l].basis # version[l]
    BY <2>2, <2>3
  <2> QED BY <2>4 DEF Pending
<1> QED BY <1>1, SpecInv, PTL

(* A sync POSTs a line's blocks again only after lost answers, or beside   *)
(* another sync of the line: for any number of syncs under way at once,    *)
(* retries, crashes and lost answers (classify_group, tempo.rs).           *)
THEOREM NoWorklogTwice == Spec => NoSecondWorklog
<1>1. Inv /\ [Next]_vars =>
        [\A s \in Senders :
            (At(s, "read") /\ Anew(s) /\ sends'[s] # Null /\ sends'[s].at = "sent") =>
                LET l == LineOf(s) IN
                \/ tempo[l].posts = tempo[l].lost
                \/ work[l].id
                \/ \E t \in Senders : Awaits(t, l)]_vars
  <2> SUFFICES ASSUME Inv, NEW s \in Senders, At(s, "read"), Anew(s),
                      ~work[LineOf(s)].id, \A t \in Senders : ~Awaits(t, LineOf(s))
               PROVE  tempo[LineOf(s)].posts = tempo[LineOf(s)].lost
    OBVIOUS
  <2> DEFINE l == LineOf(s)
  <2>1. l \in Lines
    BY SendTyped DEF At
  <2>2. tempo[l].posts = tempo[l].lost + Cardinality(Posted(l))
    BY <2>1 DEF Inv, TempoFits, HasId
  <2>3. Cardinality(Posted(l)) = 0
    <3>1. Posted(l) = {}
      BY DEF Posted
    <3> QED BY <3>1, FS_EmptySet
  <2>4. tempo[l].lost \in Nat
    BY <2>1 DEF Inv, TypeOK
  <2> QED BY <2>2, <2>3, <2>4
<1> QED BY <1>1, SpecInv, PTL DEF Spec, NoSecondWorklog

(* Sent and Not sent are never both true of a line, and what is confirmed  *)
(* was sent: the columns of tempo_line_texts that Review reads.            *)
THEOREM OutcomesStayDisjoint == Spec => []OutcomesAreDisjoint
<1>1. Inv => OutcomesAreDisjoint
  BY DEF Inv, RowFits, OutcomeFits, OutcomesAreDisjoint
<1> QED BY <1>1, SpecInv, PTL

LEMMA PhaseTyped == \A row : PhaseOf(row) \in Review!Phases
  BY DEF PhaseOf, Review!Phases

LEMMA MovesOfReview ==
  ASSUME NEW p \in Review!Phases, NEW q \in Review!Phases, NEW b \in BOOLEAN, NEW c \in BOOLEAN,
         ReviewMove(p, q, b, c)
  PROVE  /\ <<p, q>> \in IF ~b THEN Review!Moves
                        ELSE IF c THEN Review!MovesBeside ELSE Review!MovesAtEnd
         /\ ~b /\ c => p \in {"open", "failed"} /\ q = p
<1>1. CASE ~b
  BY <1>1 DEF ReviewMove, MayMove, Review!Moves, Review!Phases
<1>2. CASE b /\ c
  BY <1>2 DEF ReviewMove, Review!MovesBeside, Review!Phases
<1>3. CASE b /\ ~c
  BY <1>3 DEF ReviewMove, Review!MovesAtEnd, Review!Phases
<1> QED BY <1>1, <1>2, <1>3

(* The line table implements the Review list, each statement and request   *)
(* of a tick and of the owner's syncs being a step of its own: every step  *)
(* of every actor is a step of LineReview or none.                         *)
THEOREM LinesImplementReview == Spec => ImplementsReview
<1> DEFINE phase == [l \in Lines |-> PhaseOf(stored[l])]
<1>1. Init => Review!Init
  BY DEF Init, LinesInit, Review!Init, PhaseOf, Busy, Senders
<1>2. Inv /\ [Next]_vars => [Review!Next]_<<phase, Busy>>
  <2> SUFFICES ASSUME Inv, [Next]_vars, ~UNCHANGED <<phase, Busy>>
               PROVE  Review!Next
    OBVIOUS
  <2>1. Next
    BY DEF vars, lineVars, autoVars, Busy, LineOf
  <2>2. ReviewMoves
    BY <2>1, NextMoves DEF Moves
  <2>3. ASSUME NEW l \in Lines
        PROVE  /\ <<PhaseOf(stored[l]), PhaseOf(stored'[l])>> \in
                     IF l \notin Busy THEN Review!Moves
                     ELSE IF l \in Busy' THEN Review!MovesBeside ELSE Review!MovesAtEnd
               /\ l \in Busy' \ Busy =>
                     /\ PhaseOf(stored[l]) \in {"open", "failed"}
                     /\ PhaseOf(stored'[l]) = PhaseOf(stored[l])
    <3> DEFINE p == PhaseOf(stored[l])
               q == PhaseOf(stored'[l])
               b == l \in Busy
               c == l \in Busy'
    <3>1. /\ ReviewMove(p, q, b, c) /\ b \in BOOLEAN /\ c \in BOOLEAN
          /\ p \in Review!Phases /\ q \in Review!Phases
      BY <2>2, PhaseTyped DEF ReviewMoves
    <3> HIDE DEF p, q, b, c
    <3>2. /\ <<p, q>> \in IF ~b THEN Review!Moves
                          ELSE IF c THEN Review!MovesBeside ELSE Review!MovesAtEnd
          /\ ~b /\ c => p \in {"open", "failed"} /\ q = p
      BY <3>1, MovesOfReview
    <3> QED BY <3>2 DEF p, q, b, c
  <2>4. phase' \in [Lines -> Review!Phases] /\ Busy' \in SUBSET Lines
    BY PhaseTyped DEF Busy
  <2> QED BY <2>3, <2>4 DEF Review!Next
<1> QED BY <1>1, <1>2, SpecInv, PTL DEF Spec, ImplementsReview, Review!Spec

(* No job but a Regenerate overwrites words the owner typed while it ran,  *)
(* and a rewrite replaces only the very text it was given.                 *)
THEOREM HandTextsSurvive == Spec => HandTextSurvives
<1>1. Inv /\ [Next]_vars =>
        [\A j \in Jobs, l \in Lines :
            (jobs[j] # Null /\ jobs[j].line = l /\ jobs'[j] = Null /\ jobs[j].kind # "forced"
                /\ Manual(l) /\ TextOf(l)' # TextOf(l))
            => jobs[j].kind = "rewrite" /\ jobs[j].seen = TextOf(l)]_lineVars
  <2> SUFFICES ASSUME Inv, Next, NEW j \in Jobs, jobs[j] # Null, jobs'[j] = Null,
                      jobs[j].kind # "forced",
                      NEW l \in Lines, jobs[j].line = l, Manual(l), TextOf(l)' # TextOf(l)
               PROVE  jobs[j].kind = "rewrite" /\ jobs[j].seen = TextOf(l)
    BY DEF vars
  <2>1. jobs \in [Jobs -> Job \cup {Null}] /\ stored \in [Lines -> StoredRow \cup {Null}]
    BY DEF Inv, TypeOK, LinesTypeOK
  <2>2. jobs' # jobs /\ stored' # stored
    BY DEF TextOf
  <2>3. PICK i \in Jobs : JobStep(i)
    <3>1. ASSUME NEW i \in Jobs, NEW k \in Lines,
                 StartPass(i, k) \/ StartForced(i, k) \/ StartRewrite(i, k)
          PROVE  FALSE
      BY <2>2, <3>1 DEF StartPass, StartForced, StartRewrite
    <3>2. ~Edits
      BY <2>2, <3>1 DEF Edits, Edit, LineEdit, SetText, SetHours, BlockArrives, BlocksLeave,
                        WorkArrives, WorkLeaves, WorkReworded, TicketConfirmed
    <3>3. \A s \in Senders : ~GoesOn(s)
      BY <2>2 DEF GoesOn, Reads, Requests, WritesBack, Finds, Fails, lineVars
    <3>4. ~Owner /\ ~SyncGoesOn
      BY <2>2, <3>2, <3>3 DEF Owner, Toggle, SyncBegins, Lists, EnterByHand, Confirm, SyncGoesOn,
                              Senders, lineVars
    <3>5. ~(TickBegin \/ TickStep \/ Evening \/ Midnight)
      BY <2>2, <3>3 DEF TickBegin, TickStep, PassOver, NothingToSend, Lists, TickEnd, Evening,
                        Midnight, Senders, lineVars
    <3>6. ~Crash
      <4> SUFFICES ASSUME Crash PROVE FALSE
        OBVIOUS
      <4>1. stored' = [stored EXCEPT ![LineOf(Daemon)] = ErrorCleared(stored[LineOf(Daemon)])]
        BY <2>2 DEF Crash
      <4>2. TextOf(l)' = TextOf(l)
        <5>1. CASE stored'[l] = stored[l]
          BY <5>1 DEF TextOf
        <5>2. CASE stored'[l] # stored[l]
          <6>1. /\ stored[l] \in StoredRow
                /\ stored'[l] = [stored[l] EXCEPT !.error = Null, !.sent = TRUE]
            BY <2>1, <4>1, <5>2 DEF ErrorCleared
          <6> DEFINE new == [stored[l] EXCEPT !.error = Null, !.sent = TRUE]
          <6>2. new \in StoredRow /\ new.text = stored[l].text
            BY <6>1 DEF StoredRow
          <6> HIDE DEF new
          <6> QED BY <6>1, <6>2, RowIsNotNull DEF TextOf, new
        <5> QED BY <5>1, <5>2
      <4> QED BY <4>2
    <3> QED BY <3>4, <3>5, <3>6 DEF Next, JobsGoOn, JobStep
  <2>4. i = j
    BY <2>1, <2>3 DEF JobStep, Prepare, Answered, Unanswered, Commit, CommitRewrite
  <2>5. Commit(j) \/ CommitRewrite(j)
    BY <2>2, <2>3, <2>4 DEF JobStep, Prepare, Answered, Unanswered
  <2>6. ~Commit(j)
    BY <2>2 DEF Commit, Committing, MayOverwrite
  <2> QED BY <2>2, <2>5, <2>6 DEF CommitRewrite, Committing, StillAsSeen
<1> QED BY <1>1, SpecInv, PTL DEF Spec, HandTextSurvives

-----------------------------------------------------------------------------
(* The runs MCAutoSend starts, with lines ready or not, and its history of *)
(* each day's first evening tick.                                          *)

LEMMA FirstTextsFit ==
  ASSUME NEW row \in FirstTexts
  PROVE  row \in StoredRow \cup {Null} /\ RowFits(row, 0)
<1>0. 0 \in Versions /\ Blank \in StoredRow /\ RowFits(Blank, 0)
  BY LineAssumption, BlankIsRow, BlankFits DEF Versions
<1>1. CASE row = Null
  BY <1>1 DEF RowFits
<1>2. CASE \E t \in OwnTexts \ Unsafe : row = [Blank EXCEPT !.text = t, !.manual = TRUE]
  <2>1. PICK t \in Texts : row = [Blank EXCEPT !.text = t, !.manual = TRUE]
    BY <1>2 DEF Texts
  <2>2. row \in StoredRow
    BY <1>0, <2>1 DEF StoredRow
  <2>3. row.manual /\ row.check = Null /\ ~row.sent /\ ~row.confirmed
    BY <2>1 DEF Blank
  <2> QED BY <2>2, <2>3, RowIsNotNull DEF RowFits, TextFits, CheckFits, OutcomeFits
<1>3. CASE row = WithGenerated(Blank, [desc |-> 0, grade |-> "passed"], 0)
  <2>1. PICK g \in Grades : row = WithGenerated(Blank, [desc |-> 0, grade |-> g], 0)
    BY <1>3 DEF Grades
  <2> DEFINE t == [desc |-> 0, grade |-> g]
             c == IF t.grade = "unchecked" THEN Null ELSE t.grade
             b == 0
             m == FALSE
  <2>2. t \in Generated /\ t \in Texts /\ t.desc = 0 /\ t.grade = g /\ c \in Checks
        /\ (c = "passed" => t.grade = "passed")
    BY <1>0, <2>1, RowIsNotNull DEF Generated, Texts, Grades, Checks
  <2>3. row = [EnsuredRow(Blank) EXCEPT !.text = t, !.manual = m, !.basis = b, !.check = c]
    BY <1>0, <2>1, RowIsNotNull DEF WithGenerated, EnsuredRow
  <2>4. b \in Versions /\ b <= t.desc /\ t.desc <= 0 /\ m \in BOOLEAN /\ ~m
    BY <1>0, <2>2
  <2> HIDE DEF t, c, b, m
  <2>5. GoodChange(Blank, row, 0)
    BY <1>0, <2>2, <2>3, <2>4, Worded
  <2> QED BY <2>5 DEF GoodChange
<1> QED BY <1>1, <1>2, <1>3 DEF FirstTexts

LEMMA MCStartInv == MCInit => Inv
<1> SUFFICES ASSUME MCInit PROVE Inv
  OBVIOUS
<1>1. /\ \A l \in Lines : work[l] = Arrived /\ version[l] = 0 /\ stored[l] \in FirstTexts
      /\ \A j \in Jobs : jobs[j] = Null
      /\ stored \in [Lines -> FirstTexts]
  BY DEF MCInit
<1>2. 0 \in Versions /\ 1 \in Days /\ 0 \in 0 .. LastDay /\ Arrived \in Work
  BY LineAssumption, DayAssumption DEF Versions, Days, Arrived, Work
<1>3. (\A l \in Lines : TempoFits(l)) /\ RunFits
  BY NothingBegun DEF MCInit
<1>4. stored \in [Lines -> StoredRow \cup {Null}]
  BY <1>1, FirstTextsFit
<1>5. LinesTypeOK
  BY <1>2, <1>4 DEF MCInit, LinesTypeOK
<1>6. TypeOK
  BY <1>2, <1>5, NothingBegun DEF MCInit, TypeOK
<1> QED BY <1>1, <1>3, <1>6, FirstTextsFit DEF Inv, RowFits, JobFits

LEMMA MCStepsAreSteps == MCNext => Next
  BY DEF MCNext, Step, Next, Owner

(* The day's run is planned once, and a tick sends no line outside it.     *)
RunInv ==
    /\ ran \in [Days -> (SUBSET Lines) \cup {Null}]
    /\ \A d \in Days : d > Today => ran[d] = Null
    /\ plan # Null => /\ plan.day <= Today /\ plan.lines \subseteq LinesOf(plan.day)
                      /\ ran[plan.day] = plan.lines
    /\ ran[Today] # Null => plan # Null /\ plan.day = Today
    /\ tick # Null => /\ ran[tick.day] # Null
                      /\ tick.todo \subseteq LinesOf(tick.day) \cap ran[tick.day]

TickGoesOn ==
    \/ tick' = Null \/ tick' = tick
    \/ tick # Null /\ tick'.day = tick.day /\ tick'.todo \subseteq tick.todo

LEMMA QuietRun ==
  ASSUME Inv, RunInv, UNCHANGED <<plan, ran, clock>>, TickGoesOn
  PROVE  RunInv'
<1>1. LinesOf(plan.day)' = LinesOf(plan.day) /\ LinesOf(tick.day)' = LinesOf(tick'.day)
  BY DEF LinesOf
<1> QED BY <1>1 DEF RunInv, TickGoesOn, Today

(* A plan kept is one already run. *)
LEMMA PlanKept ==
  ASSUME Inv, RunInv, FirstRun, UNCHANGED plan
  PROVE  ran' = ran
<1>1. plan # Null => plan.lines # Null
  BY NullIsNoPlan DEF Inv, TypeOK
<1> QED BY <1>1 DEF FirstRun, RunInv

LEMMA SendGoesOn ==
  ASSUME Inv, NEW s \in Senders, GoesOn(s)
  PROVE  TickGoesOn /\ UNCHANGED <<plan, clock>>
<1>1. UNCHANGED <<plan, clock>>
  BY DEF GoesOn, Reads, Requests, WritesBack, Finds, Fails
<1>2. CASE Reads(s) \/ Requests(s)
  BY <1>2 DEF Reads, Requests, TickGoesOn
<1>3. CASE ~(Reads(s) \/ Requests(s))
  <2>1. PICK row, e : Ends(s, row, e) /\ sends[s] # Null
    BY <1>3 DEF GoesOn, WritesBack, Finds, Fails, At
  <2>2. CASE s = Daemon
    <3>1. tick # Null
      BY <2>1, <2>2 DEF Inv, RunFits
    <3>2. tick' = [Done(LineOf(s)) EXCEPT
                     !.unreachable = Done(LineOf(s)).unreachable \/ e = "unreachable"]
      BY <2>1, <2>2 DEF Ends
    <3>3. (Done(LineOf(s)).unreachable \/ e = "unreachable") \in BOOLEAN
      OBVIOUS
    <3>4. tick'.day = tick.day /\ tick'.todo = tick.todo \ {LineOf(s)}
      BY <3>1, <3>2, <3>3, DoneTyped
    <3> QED BY <1>1, <3>1, <3>4 DEF TickGoesOn
  <2>3. CASE s # Daemon
    BY <1>1, <2>1, <2>3 DEF Ends, TickGoesOn
  <2> QED BY <2>2, <2>3
<1> QED BY <1>1, <1>2, <1>3

LEMMA StepGoesOn ==
  ASSUME Inv, TickStep \/ SyncGoesOn
  PROVE  TickGoesOn /\ UNCHANGED <<plan, clock>>
<1>1. CASE \E s \in Senders : GoesOn(s)
  BY <1>1, SendGoesOn
<1>2. CASE TickEnd \/ \E l \in Lines : Lists(Daemon, l)
  BY <1>2 DEF TickEnd, Lists, TickGoesOn
<1>3. ASSUME NEW l \in Lines, PassOver(l) \/ NothingToSend(l)
      PROVE  TickGoesOn /\ UNCHANGED <<plan, clock>>
  <2>1. tick # Null /\ tick' = Done(l) /\ UNCHANGED <<plan, clock>>
    BY <1>3 DEF PassOver, NothingToSend, AtLine
  <2> QED BY <2>1, DoneTyped DEF TickGoesOn
<1> QED BY <1>1, <1>2, <1>3 DEF TickStep, SyncGoesOn, Senders

LEMMA BeginKeepsRun ==
  ASSUME Inv, RunInv, TickBegin, FirstRun
  PROVE  RunInv'
<1>1. /\ clock' = clock /\ Today \in Days
      /\ plan \in [day : Days, lines : SUBSET Lines] \cup {Null}
      /\ ran \in [Days -> (SUBSET Lines) \cup {Null}]
  BY DEF TickBegin, Inv, TypeOK, Today, RunInv
<1>2. PlanStale \/ plan = Null => ran[Today] = Null
  BY DEF PlanStale, RunInv
<1>3. Null \notin SUBSET Lines /\ Null \notin [day : Days, lines : SUBSET Lines]
  BY NullIsNoPlan
<1>4. CASE enabled /\ clock.evening
  <2>1. /\ plan' = PlanForToday
        /\ tick' = [day |-> Today, todo |-> PlanForToday.lines, unreachable |-> FALSE]
    BY <1>4 DEF TickBegin
  <2>2. CASE plan # Null /\ ~PlanStale
    <3>1. plan' = plan /\ plan.day = Today
      BY <2>1, <2>2 DEF PlanForToday, PlanStale
    <3>2. ran' = ran
      BY <3>1, PlanKept
    <3>3. /\ plan.lines \subseteq LinesOf(Today) /\ ran[Today] = plan.lines /\ ran[Today] # Null
          /\ tick'.day = Today /\ tick'.todo = plan.lines
      BY <1>1, <1>3, <2>1, <2>2, <3>1 DEF RunInv
    <3> QED BY <1>1, <2>2, <3>1, <3>2, <3>3 DEF RunInv, Today, LinesOf
  <2>3. CASE ~(plan # Null /\ ~PlanStale)
    <3> DEFINE lines == {l \in LinesOf(Today) : Ready(l)}
               new == [day |-> Today, lines |-> lines]
    <3>1. plan' = new /\ ran[Today] = Null /\ lines \in SUBSET Lines
          /\ lines \subseteq LinesOf(Today)
      BY <1>2, <2>1, <2>3 DEF PlanForToday, LinesOf, PlanStale
    <3> HIDE DEF lines
    <3>2. new \in [day : Days, lines : SUBSET Lines] /\ new.day = Today /\ new.lines = lines
      BY <1>1, <3>1
    <3>3. tick'.day = Today /\ tick'.todo = lines
      BY <2>1, <3>1, <3>2
    <3> HIDE DEF new
    <3>4. new # Null /\ lines # Null
      BY <1>3, <3>1, <3>2
    <3>5. ran' = [ran EXCEPT ![Today] = lines]
      BY <3>1, <3>2, <3>4 DEF FirstRun
    <3>6. /\ ran' \in [Days -> (SUBSET Lines) \cup {Null}] /\ ran'[Today] = lines
          /\ \A d \in Days \ {Today} : ran'[d] = ran[d]
      BY <1>1, <3>1, <3>5
    <3>7. \A d \in Days : d > Today => ran'[d] = Null
      <4>1. \A d \in Days : d > Today => d # Today
        BY <1>1, DayAssumption DEF Days
      <4> QED BY <3>6, <4>1 DEF RunInv
    <3>8. Today <= Today
      BY <1>1, DayAssumption DEF Days
    <3> QED BY <1>1, <3>1, <3>2, <3>3, <3>4, <3>6, <3>7, <3>8 DEF RunInv, Today, LinesOf
  <2> QED BY <2>2, <2>3
<1>5. CASE ~(enabled /\ clock.evening)
  <2>1. tick' = Null /\ (plan' = plan \/ (PlanStale /\ plan' = Null))
    BY <1>5 DEF TickBegin
  <2>2. CASE plan' = plan
    BY <1>1, <2>1, <2>2, PlanKept, QuietRun DEF TickGoesOn
  <2>3. CASE PlanStale /\ plan' = Null
    <3>1. ran' = ran
      BY <2>3 DEF FirstRun
    <3> QED BY <1>1, <1>2, <2>1, <2>3, <3>1 DEF RunInv, Today
  <2> QED BY <2>1, <2>2, <2>3
<1> QED BY <1>4, <1>5

LEMMA MidnightKeepsRun ==
  ASSUME Inv, RunInv, Midnight, FirstRun
  PROVE  RunInv'
<1>1. ran' = ran /\ plan' = plan /\ tick' = tick
  BY PlanKept DEF Midnight
<1>2. Today' = Today + 1 /\ Today \in Days /\ Today + 1 \in Days
  BY DayAssumption DEF Midnight, Inv, TypeOK, Today, Days
<1>3. \A d \in Days : d > Today + 1 => d > Today
  BY <1>2, DayAssumption DEF Days
<1>4. plan # Null => plan.day \in Days
  BY DEF Inv, TypeOK
<1>5. plan # Null => plan.day <= Today + 1
  BY <1>2, <1>4, DayAssumption DEF RunInv, Days
<1>6. ran[Today + 1] = Null
  BY <1>2, DayAssumption DEF RunInv, Days
<1> QED BY <1>1, <1>2, <1>3, <1>5, <1>6 DEF RunInv, LinesOf

LEMMA StepKeepsRun ==
  ASSUME Inv, RunInv, [MCNext]_mcVars
  PROVE  RunInv'
<1>1. CASE TickBegin /\ FirstRun
  BY <1>1, BeginKeepsRun
<1>2. CASE (TickStep \/ SyncGoesOn \/ JobsGoOn \/ Evening) /\ FirstRun
  <2>1. CASE Evening
    <3>1. plan' = plan /\ tick' = tick /\ Today' = Today /\ ran' = ran
      BY <1>2, <2>1, PlanKept DEF Evening, Today, Inv, TypeOK
    <3> QED BY <3>1 DEF RunInv, LinesOf
  <2>2. CASE ~Evening
    <3>1. UNCHANGED <<plan, clock>> /\ TickGoesOn
      BY <1>2, <2>2, StepGoesOn DEF JobsGoOn, autoVars, TickGoesOn
    <3> QED BY <1>2, <3>1, PlanKept, QuietRun
  <2> QED BY <2>1, <2>2
<1>3. CASE Midnight /\ FirstRun
  BY <1>3, MidnightKeepsRun
<1>4. CASE \/ Step("edit", Edits)
           \/ Step("toggle", Toggle)
           \/ Step("hand", \E l \in Lines : EnterByHand(l))
           \/ Step("sync", SyncBegins)
           \/ Step("confirm", (\E l \in Lines : Confirm({l})) \/ \E d \in Days : Confirm(LinesOf(d)))
           \/ Step("crash", Crash)
  <2>1. UNCHANGED <<plan, clock, ran>> /\ TickGoesOn
    BY <1>4 DEF Step, Edits, Edit, BlockArrives, BlocksLeave, Toggle, EnterByHand, SyncBegins, Lists,
                Confirm, Crash, autoVars, TickGoesOn
  <2> QED BY <2>1, QuietRun
<1>5. CASE UNCHANGED mcVars
  <2>1. UNCHANGED <<plan, clock, ran>> /\ TickGoesOn
    BY <1>5 DEF mcVars, vars, autoVars, TickGoesOn
  <2> QED BY <2>1, QuietRun
<1> QED BY <1>1, <1>2, <1>3, <1>4, <1>5 DEF MCNext

LEMMA RunAlways == MCSpec => [](Inv /\ RunInv)
<1>1. MCInit => RunInv
  BY DayAssumption DEF MCInit, RunInv, Days, Today
<1>2. Inv /\ [MCNext]_mcVars => Inv'
  <2>1. [MCNext]_mcVars => [Next]_vars
    BY MCStepsAreSteps DEF mcVars
  <2> QED BY <2>1, StepInv
<1>3. Inv /\ RunInv /\ [MCNext]_mcVars => Inv' /\ RunInv'
  BY <1>2, StepKeepsRun
<1> QED BY <1>1, <1>3, MCStartInv, PTL DEF MCSpec

(* Nothing but the tick under way begins a send of the run. *)
LEMMA RunSends ==
  ASSUME Inv, MCNext, NEW l \in Busy' \ Busy
  PROVE  tick # Null /\ l \in tick.todo
<1>1. sends \in [Senders -> Send \cup {Null}] /\ Daemon \in Senders
  BY DEF Inv, TypeOK, Senders
<1>2. ASSUME NEW k \in Lines, Lists(Daemon, k) PROVE tick # Null /\ l \in tick.todo
  <2>1. sends'[Daemon].line = k
    BY <1>1, <1>2 DEF Lists
  <2> QED BY <1>2, <2>1 DEF Lists, AtLine, Busy, LineOf
<1>3. ASSUME \/ sends'[Daemon] = Null
             \/ sends[Daemon] # Null /\ sends'[Daemon].line = sends[Daemon].line
             \/ sends'[Daemon] = sends[Daemon]
      PROVE  FALSE
  BY <1>3 DEF Busy, LineOf
<1>4. ASSUME NEW s \in Senders, GoesOn(s) PROVE FALSE
  <2>1. sends[s] # Null
    BY <1>4 DEF GoesOn, Reads, Requests, WritesBack, Finds, Fails, At
  <2>2. PICK new : /\ sends' = [sends EXCEPT ![s] = new]
                   /\ new = Null \/ new.line = sends[s].line
    <3>1. CASE Reads(s)
      <4> DEFINE new == [line |-> LineOf(s), at |-> "read", id |-> work[LineOf(s)].id,
                         blocks |-> "all",
                         basis |-> IF s # Daemon /\ TextOf(LineOf(s)) = Null
                                   THEN version[LineOf(s)] ELSE Null]
      <4>1. sends' = [sends EXCEPT ![s] = new] /\ new.line = LineOf(s)
        BY <3>1 DEF Reads
      <4> HIDE DEF new
      <4> QED BY <4>1 DEF LineOf
    <3>2. CASE Requests(s)
      <4> DEFINE new == [sends[s] EXCEPT !.at = "sent", !.basis = Null]
      <4>1. sends' = [sends EXCEPT ![s] = new]
        BY <3>2 DEF Requests
      <4>2. new.line = sends[s].line
        BY <2>1, SendTyped DEF Send
      <4> HIDE DEF new
      <4> QED BY <4>1, <4>2
    <3>3. CASE ~(Reads(s) \/ Requests(s))
      BY <1>4, <3>3 DEF GoesOn, WritesBack, Finds, Fails, Ends
    <3> QED BY <3>1, <3>2, <3>3
  <2>3. \/ sends'[Daemon] = sends[Daemon]
        \/ s = Daemon /\ sends'[Daemon] = new
    BY <1>1, <2>2
  <2> QED BY <1>3, <2>1, <2>2, <2>3
<1>5. ASSUME NEW k \in Lines, NEW part, sends' = KnowsOf(k, part) PROVE FALSE
  <2>1. \/ sends'[Daemon] = sends[Daemon]
        \/ sends[Daemon] # Null /\ sends'[Daemon] = [sends[Daemon] EXCEPT !.blocks = part]
    BY <1>1, <1>5 DEF KnowsOf
  <2>2. sends[Daemon] # Null => [sends[Daemon] EXCEPT !.blocks = part].line = sends[Daemon].line
    BY <1>1, SendTyped DEF Send
  <2> QED BY <1>3, <2>1, <2>2
<1>6. CASE TickStep
  BY <1>2, <1>3, <1>4, <1>6 DEF TickStep, PassOver, NothingToSend, TickEnd, Senders
<1>7. CASE SyncGoesOn
  BY <1>4, <1>7 DEF SyncGoesOn, Senders
<1>8. CASE SyncBegins
  <2>1. PICK t \in Terminals, k \in Lines : Lists(t, k)
    BY <1>8 DEF SyncBegins
  <2>2. t # Daemon
    BY SenderAssumption
  <2>3. sends'[Daemon] = sends[Daemon]
    BY <1>1, <2>1, <2>2 DEF Lists
  <2> QED BY <1>3, <2>3
<1>9. CASE Edits
  BY <1>3, <1>5, <1>9 DEF Edits, Edit, BlockArrives, BlocksLeave, autoVars
<1>10. CASE Crash
  <2>1. sends'[Daemon] = Null
    BY <1>1, <1>10 DEF Crash
  <2> QED BY <1>3, <2>1
<1>11. ~(TickBegin \/ JobsGoOn \/ Evening \/ Midnight \/ Toggle \/ \E k \in Lines : EnterByHand(k))
  BY <1>3 DEF TickBegin, JobsGoOn, Evening, Midnight, Toggle, EnterByHand, autoVars
<1>12. ~((\E k \in Lines : Confirm({k})) \/ \E d \in Days : Confirm(LinesOf(d)))
  BY <1>3 DEF Confirm, autoVars
<1> QED BY <1>6, <1>7, <1>8, <1>9, <1>10, <1>11, <1>12 DEF MCNext, Step

(* For any lines, days, texts and jobs, and any number of changes of the   *)
(* owner's, crashes and lost answers: what the run sends on a day is what  *)
(* the day's first evening tick planned (PLAN_KEY).                        *)
THEOREM RunsAreOneADay == MCSpec => OneRunADay
<1>1. Inv /\ RunInv /\ [MCNext]_mcVars =>
        [\A l \in Busy' \ Busy :
            ran[DayOf[l]] # Null /\ l \in ran[DayOf[l]] /\ tick.day = DayOf[l]]_mcVars
  <2> SUFFICES ASSUME Inv, RunInv, MCNext, NEW l \in Busy' \ Busy
               PROVE  ran[DayOf[l]] # Null /\ l \in ran[DayOf[l]] /\ tick.day = DayOf[l]
    OBVIOUS
  <2>1. tick # Null /\ l \in tick.todo
    BY RunSends
  <2> QED BY <2>1 DEF RunInv, LinesOf
<1> QED BY <1>1, RunAlways, PTL DEF MCSpec, OneRunADay
=============================================================================
