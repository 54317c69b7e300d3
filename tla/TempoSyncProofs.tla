--------------------------- MODULE TempoSyncProofs ---------------------------
(***************************************************************************)
(* TLAPS proofs about TempoSync: its types, that what the owner entered in *)
(* Tempo by hand stays as it is, and, where the daemon alone syncs, that a *)
(* run loses track of no worklog.                                          *)
(***************************************************************************)
EXTENDS TempoSync, FiniteSetTheorems, TLAPS

-----------------------------------------------------------------------------
(* What a line would say in Tempo has the type of a worklog. *)

LEMMA RoundsToNat ==
  ASSUME NEW m \in Nat
  PROVE  RoundToHalfHour(m) \in Nat /\ RoundBillable(m) \in Nat
<1>1. RoundToHalfHour(m) \in Nat
  BY DEF RoundToHalfHour
<1> DEFINE S == {30, RoundToHalfHour(m)}
<1>2. \E x \in S : \A y \in S : x >= y
  <2>1. CASE RoundToHalfHour(m) >= 30
    BY <2>1, <1>1
  <2>2. CASE ~(RoundToHalfHour(m) >= 30)
    BY <2>2, <1>1
  <2> QED BY <2>1, <2>2
<1>3. Max(S) \in S
  BY <1>2 DEF Max
<1>4. Max(S) \in Nat
  BY <1>1, <1>3
<1> QED BY <1>1, <1>4 DEF RoundBillable

LEMMA TrackedIsNat ==
  ASSUME TypeOK, NEW k \in Tickets
  PROVE  Cardinality(UNION {Covered(rows[i]) : i \in Line(k)}) \in Nat
<1> DEFINE L == Line(k)
           T == {Covered(rows[i]) : i \in L}
           f == [i \in L |-> Covered(rows[i])]
<1>1. IsFiniteSet(L)
  <2>1. IsFiniteSet(1 .. MaxId)
    BY FS_Interval, SyncAssumption
  <2>2. L \in SUBSET (1 .. MaxId)
    BY DEF Line, Live, Blocks
  <2> QED BY <2>1, <2>2, FS_Subset
<1>2. \A x \in T : IsFiniteSet(x)
  <2>1. ASSUME NEW i \in L PROVE IsFiniteSet(Covered(rows[i]))
    <3>1. rows[i] \in Row
      BY DEF TypeOK, Rows, Line, Live
    <3>2. rows[i].start \in Int /\ rows[i].start + rows[i].dur - 1 \in Int
      BY <3>1 DEF Row
    <3> QED BY <3>2, FS_Interval DEF Covered
  <2> QED BY <2>1
<1>3. f \in Surjection(L, T)
  BY DEF Surjection
<1>4. IsFiniteSet(T)
  BY <1>1, <1>3, FS_Surjection
<1>5. IsFiniteSet(UNION T)
  BY <1>2, <1>4, FS_UNION
<1> QED BY <1>5, FS_CardinalityType

LEMMA ContentTyped ==
  ASSUME TypeOK, NEW k \in Tickets
  PROVE  Content(k) \in Worklog
<1>1. Total(k) \in Nat
  <2> DEFINE tracked == Cardinality(UNION {Covered(rows[i]) : i \in Line(k)})
  <2>1. tracked \in Nat
    BY TrackedIsNat
  <2>2. RoundToHalfHour(tracked) \in Nat /\ RoundBillable(tracked) \in Nat
    BY <2>1, RoundsToNat
  <2>3. line[k].hours \in Hours \cup {Null}
    BY DEF TypeOK
  <2>4. line[k].hours # Null => line[k].hours \in Nat
    BY <2>3, SyncAssumption
  <2> HIDE DEF tracked
  <2>5. Total(k) = IF line[k].hours # Null THEN line[k].hours
                   ELSE IF k \in AproTickets THEN RoundToHalfHour(tracked)
                   ELSE RoundBillable(tracked)
    BY DEF Total, tracked
  <2> QED BY <2>2, <2>4, <2>5
<1>2. TextOf(k) \in Spoken
  <2>1. \A i \in Line(k) : rows[i].text \in Texts \cup {Null}
    BY DEF TypeOK, Rows, Row, Line, Live
  <2>2. Descriptions(k) \in SUBSET Texts
    BY <2>1 DEF Descriptions
  <2>3. line[k].text \in Texts \cup {Null}
    BY DEF TypeOK
  <2> QED BY <2>2, <2>3 DEF TextOf, Spoken
<1> QED BY <1>1, <1>2 DEF Content, Worklog

(* An edit of a row leaves it a row, with the worklog it had.              *)
LEMMA MarkTyped ==
  ASSUME NEW b \in Row
  PROVE  MarkDirty(b) \in Row /\ MarkDirty(b).tempo = b.tempo /\ MarkDirty(b).ticket = b.ticket
BY DEF MarkDirty, Row

LEMMA EditTyped ==
  ASSUME NEW b \in Row
  PROVE  /\ \A d \in Nat : Resized(b, d) \in Row /\ Resized(b, d).tempo = b.tempo
         /\ \A t \in Texts : Reworded(b, t) \in Row /\ Reworded(b, t).tempo = b.tempo
         /\ \A k \in Tickets : Assigned(b, k) \in Row /\ Assigned(b, k).tempo = b.tempo
         /\ \A p \in BOOLEAN : LET r == [b EXCEPT !.personal = p]
                               IN  r \in Row /\ r.tempo = b.tempo
         /\ \A w \in Worklogs \cup {Null} : /\ SentAs(b, w) \in Row
                                            /\ SentAs(b, w).tempo = w
                                            /\ SentAs(b, w).ticket = b.ticket
<1>1. ASSUME NEW d \in Nat
      PROVE  Resized(b, d) \in Row /\ Resized(b, d).tempo = b.tempo
  <2> DEFINE r == [b EXCEPT !.dur = d, !.end = b.start + d, !.by = "manual"]
  <2>1. b.start + d \in Nat /\ "manual" \in Authors
    BY DEF Row, Authors
  <2>2. r \in Row /\ r.tempo = b.tempo
    BY <2>1 DEF Row
  <2> QED BY <2>2, MarkTyped DEF Resized
<1>2. ASSUME NEW t \in Texts
      PROVE  Reworded(b, t) \in Row /\ Reworded(b, t).tempo = b.tempo
  <2> DEFINE r == [b EXCEPT !.text = t, !.by = "manual"]
  <2>1. r \in Row /\ r.tempo = b.tempo
    BY DEF Row, Authors
  <2> QED BY <2>1, MarkTyped DEF Reworded
<1>3. ASSUME NEW k \in Tickets
      PROVE  Assigned(b, k) \in Row /\ Assigned(b, k).tempo = b.tempo
  <2> DEFINE r == [b EXCEPT !.ticket = k, !.origin = "manual", !.personal = FALSE]
  <2>1. r \in Row /\ r.tempo = b.tempo
    BY DEF Row, Origins
  <2> QED BY <2>1, MarkTyped DEF Assigned
<1>4. \A p \in BOOLEAN : LET r == [b EXCEPT !.personal = p]
                         IN  r \in Row /\ r.tempo = b.tempo
  BY DEF Row
<1>5. \A w \in Worklogs \cup {Null} : /\ SentAs(b, w) \in Row
                                      /\ SentAs(b, w).tempo = w
                                      /\ SentAs(b, w).ticket = b.ticket
  BY DEF SentAs, Row
<1> QED BY <1>1, <1>2, <1>3, <1>4, <1>5

-----------------------------------------------------------------------------
(* The invariant: the ids that worklog holds, in rows, in a run's snapshot *)
(* and on their way to and from Tempo, are its own and never the hand's.   *)

OwnIds == (1 .. issued) \ hand

GoodRun(r, own) ==
  /\ r \in Run
  /\ r.at \in {"check", "send", "reply"} => r.entry \in Worklog
  /\ \A i \in Blocks : r.todo[i] # Null => /\ r.todo[i].ticket \in Tickets
                                           /\ r.todo[i].tempo \in own \cup {Null}
  /\ r.existing \in own \cup {Null}
  /\ r.got \in own \cup {Null}

GoodRows(table, own) ==
  /\ table \in Rows
  /\ \A i \in Blocks : table[i] # Null => table[i].tempo \in own \cup {Null}

Inv ==
  /\ TypeOK
  /\ hand \subseteq 1 .. issued
  /\ GoodRows(rows, OwnIds)
  /\ \A s \in Syncers : GoodRun(sync[s], OwnIds)
  /\ del.tempo \in OwnIds \cup {Null}

HandSafe == \A w \in hand : tempo'[w] = tempo[w]

Kept == Inv' /\ HandSafe

LEMMA OwnIdsAreWorklogs ==
  ASSUME Inv
  PROVE  OwnIds \subseteq Worklogs /\ Null \notin Worklogs
BY SyncAssumption, NullAssumption DEF Inv, TypeOK, OwnIds

(* A step of one run that touches nothing else. *)
LEMMA RunMoves ==
  ASSUME Inv, NEW s \in Syncers, NEW r, GoodRun(r, OwnIds), Unsent,
         sync' = [sync EXCEPT ![s] = r]
  PROVE  Kept
<1>1. OwnIds' = OwnIds
  BY DEF Unsent, OwnIds
<1>2. r \in Run
  BY DEF GoodRun
<1>3. sync' \in [Syncers -> Run] /\ \A q \in Syncers : GoodRun(sync'[q], OwnIds)
  BY <1>2 DEF Inv, TypeOK
<1>4. TypeOK'
  BY <1>3 DEF Inv, TypeOK, Unsent
<1> QED BY <1>1, <1>3, <1>4 DEF Inv, Kept, HandSafe, Unsent

(* A write to the table of blocks. *)
LEMMA RowsMove ==
  ASSUME Inv, GoodRows(rows', OwnIds), lastId' \in 0 .. MaxId,
         UNCHANGED <<line, already, tempo, issued, hand, sync, del>>
  PROVE  Kept
<1>1. OwnIds' = OwnIds
  BY DEF OwnIds
<1>2. TypeOK'
  BY DEF Inv, TypeOK, GoodRows
<1> QED BY <1>1, <1>2 DEF Inv, Kept, HandSafe

LEMMA OneRowMoves ==
  ASSUME Inv, NEW i \in Blocks, NEW row \in Row, row.tempo \in OwnIds \cup {Null}
  PROVE  GoodRows([rows EXCEPT ![i] = row], OwnIds)
BY NoRowIsNull DEF Inv, GoodRows, Rows

LEMMA MarkingKeepsRows ==
  ASSUME Inv, NEW k \in Tickets
  PROVE  GoodRows(LineMarked(k), OwnIds)
<1>1. \A i \in Line(k) : rows[i] \in Row /\ rows[i].tempo \in OwnIds \cup {Null}
  BY DEF Inv, GoodRows, Rows, Line, Live
<1>2. \A i \in Line(k) : /\ MarkDirty(rows[i]) \in Row
                         /\ MarkDirty(rows[i]).tempo \in OwnIds \cup {Null}
  BY <1>1, MarkTyped
<1> QED BY <1>2 DEF LineMarked, Inv, GoodRows, Rows

(* A longer list of ids of one's own. *)
LEMMA MoreIds ==
  ASSUME NEW A, NEW B, A \subseteq B
  PROVE  /\ \A r : GoodRun(r, A) => GoodRun(r, B)
         /\ \A table : GoodRows(table, A) => GoodRows(table, B)
BY DEF GoodRun, GoodRows

LEMMA IdleIsGood ==
  ASSUME NEW own
  PROVE  /\ GoodRun(Idle, own)
         /\ \A todo \in Rows :
              (\A i \in Blocks : todo[i] # Null => /\ todo[i].ticket \in Tickets
                                                   /\ todo[i].tempo \in own \cup {Null})
                 => GoodRun([Idle EXCEPT !.at = "groups", !.todo = todo], own)
BY DEF Idle, GoodRun, Run, NoRows, Rows

-----------------------------------------------------------------------------
(* The steps of a run. *)

LEMMA BeginKeeps ==
  ASSUME Inv, NEW s \in Syncers, Begin(s) PROVE Kept
<1> DEFINE todo == [i \in Blocks |-> IF Eligible(i) /\ rows[i].ticket # Null
                                     THEN rows[i] ELSE Null]
           r == [Idle EXCEPT !.at = "groups", !.todo = todo]
<1>1. \A i \in Blocks : rows[i] # Null => rows[i] \in Row /\ rows[i].tempo \in OwnIds \cup {Null}
  BY DEF Inv, GoodRows, Rows
<1>2. todo \in Rows
  BY <1>1 DEF Rows
<1>3. \A i \in Blocks : todo[i] # Null => /\ todo[i].ticket \in Tickets
                                          /\ todo[i].tempo \in OwnIds \cup {Null}
  BY <1>1 DEF Row
<1>4. GoodRun(r, OwnIds)
  <2> HIDE DEF todo
  <2> QED BY <1>2, <1>3, IdleIsGood
<1>5. sync' = [sync EXCEPT ![s] = r] /\ Unsent
  BY DEF Begin, Unsent
<1> QED BY <1>4, <1>5, RunMoves

LEMMA LessToDo ==
  ASSUME Inv, NEW s \in Syncers, NEW S
  PROVE  /\ GoodRun([sync[s] EXCEPT !.todo = Without(sync[s].todo, S)], OwnIds)
         /\ Without(sync[s].todo, S) \in Rows
BY DEF Inv, GoodRun, Run, Without, Rows

LEMMA PassOverKeeps ==
  ASSUME Inv, NEW s \in Syncers, NEW k \in Tickets, SkipGroup(s, k) \/ Unresolved(s, k)
  PROVE  Kept
<1> DEFINE r == [sync[s] EXCEPT !.todo = Without(sync[s].todo, Waiting(s, k))]
<1>1. sync' = [sync EXCEPT ![s] = r] /\ Unsent
  BY DEF SkipGroup, Unresolved, Inv, TypeOK
<1>2. GoodRun(r, OwnIds)
  BY LessToDo
<1> QED BY <1>1, <1>2, RunMoves

LEMMA TakeGroupKeeps ==
  ASSUME Inv, NEW s \in Syncers, NEW k \in Tickets, TakeGroup(s, k) PROVE Kept
<1> DEFINE existing == IF AllUnsynced(k) THEN Null ELSE CHOOSE w \in LineIds(k) : TRUE
           todo == Without(sync[s].todo, Waiting(s, k))
           at == IF AllUnsynced(k) THEN "check" ELSE "send"
           r == [sync[s] EXCEPT !.at = at, !.todo = todo, !.ids = Line(k),
                                !.existing = existing, !.entry = Content(k)]
<1>1. existing \in OwnIds \cup {Null}
  <2>1. LineIds(k) \subseteq OwnIds
    BY DEF Inv, GoodRows, LineIds, Line, Live
  <2>2. ~AllUnsynced(k) => existing \in LineIds(k)
    BY DEF AllUnsynced
  <2> QED BY <2>1, <2>2
<1>2. todo \in Rows /\ GoodRun([sync[s] EXCEPT !.todo = todo], OwnIds)
  BY LessToDo
<1>3. Content(k) \in Worklog
  BY ContentTyped DEF Inv
<1>4. Line(k) \in SUBSET Blocks
  BY DEF Line, Live
<1>5. at \in {"check", "send"}
  OBVIOUS
<1>6. GoodRun(r, OwnIds)
  <2>1. sync[s] \in Run
    BY DEF Inv, TypeOK
  <2>2. \A i \in Blocks : todo[i] # Null => /\ todo[i].ticket \in Tickets
                                            /\ todo[i].tempo \in OwnIds \cup {Null}
    BY <2>1, <1>2 DEF GoodRun, Run
  <2>3. sync[s].got \in OwnIds \cup {Null}
    BY DEF Inv, GoodRun
  <2> HIDE DEF existing, todo, at
  <2> QED BY <2>1, <2>2, <2>3, <1>1, <1>2, <1>3, <1>4, <1>5, OwnIdsAreWorklogs DEF GoodRun, Run
<1>7. sync' = [sync EXCEPT ![s] = r] /\ Unsent
  BY DEF TakeGroup
<1> QED BY <1>6, <1>7, RunMoves

(* A generated text goes into the payload and, if stored, marks the line.  *)
LEMMA GenerateKeeps ==
  ASSUME Inv, NEW s \in Syncers, NEW t \in Texts, Generate(s, t) PROVE Kept
<1> DEFINE k == sync[s].entry.ticket
           r == [sync[s] EXCEPT !.entry.text = t]
<1>1. sync[s] \in Run /\ sync[s].at = "send" /\ sync[s].entry \in Worklog
  BY DEF Generate, Inv, TypeOK, GoodRun
<1>2. k \in Tickets /\ [sync[s].entry EXCEPT !.text = t] \in Worklog
  BY <1>1 DEF Worklog, Spoken
<1>3. GoodRun(r, OwnIds)
  <2> DEFINE e == [sync[s].entry EXCEPT !.text = t]
  <2>1. r = [sync[s] EXCEPT !.entry = e]
    BY <1>1 DEF Run
  <2> HIDE DEF e, r
  <2>2. e \in Worklog
    BY <1>2 DEF e
  <2> QED BY <2>1, <2>2, <1>1 DEF GoodRun, Run, Inv
<1>4. sync' = [sync EXCEPT ![s] = r]
  BY DEF Generate
<1>5. UNCHANGED <<lastId, already, tempo, issued, hand, del>>
  BY DEF Generate
<1>6. GoodRows(rows', OwnIds)
  <2>1. rows' = rows \/ rows' = LineMarked(k)
    BY DEF Generate
  <2> QED BY <2>1, <1>2, MarkingKeepsRows DEF Inv
<1>7. line' \in [Tickets -> [text : Texts \cup {Null}, manual : BOOLEAN,
                             hours : Hours \cup {Null}]]
  <2> DEFINE l == [line[k] EXCEPT !.text = t]
  <2>1. l \in [text : Texts \cup {Null}, manual : BOOLEAN, hours : Hours \cup {Null}]
    BY <1>2 DEF Inv, TypeOK
  <2>2. line' = line \/ line' = [line EXCEPT ![k] = l]
    BY DEF Generate
  <2> HIDE DEF l
  <2> QED BY <2>1, <2>2 DEF Inv, TypeOK
<1>8. OwnIds' = OwnIds
  BY <1>5 DEF OwnIds
<1>9. sync' \in [Syncers -> Run] /\ \A q \in Syncers : GoodRun(sync'[q], OwnIds)
  <2> HIDE DEF r
  <2>1. r \in Run
    BY <1>3 DEF GoodRun
  <2> QED BY <2>1, <1>3, <1>4 DEF Inv, TypeOK
<1>10. TypeOK'
  BY <1>5, <1>6, <1>7, <1>9 DEF Inv, TypeOK, GoodRows
<1> QED BY <1>5, <1>6, <1>8, <1>9, <1>10 DEF Inv, Kept, HandSafe

LEMMA CheckKeeps ==
  ASSUME Inv, NEW s \in Syncers, FoundInTempo(s) \/ NotFound(s) PROVE Kept
<1>1. CASE NotFound(s)
  <2> DEFINE r == [sync[s] EXCEPT !.at = "send"]
  <2>1. GoodRun(r, OwnIds)
    BY <1>1 DEF NotFound, Inv, GoodRun, Run
  <2>2. sync' = [sync EXCEPT ![s] = r] /\ Unsent
    BY <1>1 DEF NotFound
  <2> QED BY <2>1, <2>2, RunMoves
<1>2. CASE FoundInTempo(s)
  <2> DEFINE r == [Idle EXCEPT !.at = "groups", !.todo = sync[s].todo]
  <2>1. GoodRun(r, OwnIds) /\ r \in Run
    <3>1. sync[s].todo \in Rows
      BY DEF Inv, GoodRun, Run
    <3>2. GoodRun(r, OwnIds)
      BY <3>1, IdleIsGood DEF Inv, GoodRun
    <3> QED BY <3>2 DEF GoodRun
  <2>2. sync' = [sync EXCEPT ![s] = r]
        /\ UNCHANGED <<rows, lastId, line, tempo, issued, hand, del>>
    BY <1>2 DEF FoundInTempo
  <2>3. sync' \in [Syncers -> Run] /\ \A q \in Syncers : GoodRun(sync'[q], OwnIds)
    <3> HIDE DEF r
    <3> QED BY <2>1, <2>2 DEF Inv, TypeOK
  <2>4. already' \in [Tickets -> Basis \cup {Null}]
    <3>1. sync[s].entry \in Worklog
      BY <1>2 DEF FoundInTempo, Inv, GoodRun
    <3>2. [total |-> sync[s].entry.total, text |-> sync[s].entry.text] \in Basis
      BY <3>1 DEF Worklog, Basis
    <3> QED BY <1>2, <3>2 DEF FoundInTempo, Inv, TypeOK
  <2>5. OwnIds' = OwnIds
    BY <2>2 DEF OwnIds
  <2>6. TypeOK'
    BY <2>2, <2>3, <2>4 DEF Inv, TypeOK
  <2> QED BY <2>2, <2>3, <2>5, <2>6 DEF Inv, Kept, HandSafe
<1> QED BY <1>1, <1>2

LEMMA TakeLegacyKeeps ==
  ASSUME Inv, NEW s \in Syncers, NEW i \in Blocks, TakeLegacy(s, i) PROVE Kept
<1> DEFINE b == sync[s].todo[i]
           legacy == IF Waiting(s, b.ticket) = {i} THEN Null ELSE b.ticket
           todo == [sync[s].todo EXCEPT ![i] = Null]
           entry == [ticket |-> b.ticket, total |-> RoundToHalfHour(b.dur),
                     text |-> IF b.text = Null THEN {} ELSE b.text]
           rest == [sync[s] EXCEPT !.todo = todo, !.legacy = legacy]
           sent == [sync[s] EXCEPT !.at = "send", !.todo = todo, !.legacy = legacy,
                                   !.ids = {i}, !.existing = b.tempo, !.entry = entry]
<1>1. /\ sync[s] \in Run /\ GoodRun(sync[s], OwnIds) /\ sync[s].at = "groups"
      /\ sync[s].todo \in Rows /\ b # Null
  BY DEF TakeLegacy, Inv, TypeOK, Run
<1>2. b \in Row /\ b.ticket \in Tickets /\ b.tempo \in OwnIds \cup {Null}
  BY <1>1 DEF GoodRun, Rows
<1>3. todo \in Rows /\ \A j \in Blocks : todo[j] = Null \/ todo[j] = sync[s].todo[j]
  BY <1>1 DEF Rows
<1>4. \A j \in Blocks : todo[j] # Null => /\ todo[j].ticket \in Tickets
                                          /\ todo[j].tempo \in OwnIds \cup {Null}
  <2> HIDE DEF todo
  <2> QED BY <1>1, <1>3 DEF GoodRun
<1>5. entry \in Worklog
  <2>1. RoundToHalfHour(b.dur) \in Nat
    BY <1>2, RoundsToNat DEF Row
  <2>2. b.text \in Texts \cup {Null}
    BY <1>2 DEF Row
  <2> QED BY <1>2, <2>1, <2>2 DEF Worklog, Spoken
<1>6. legacy \in Tickets \cup {Null}
  BY <1>2
<1>7. GoodRun(rest, OwnIds) /\ GoodRun(sent, OwnIds)
  <2>1. b.tempo \in OwnIds \cup {Null} /\ b.tempo \in Worklogs \cup {Null}
    BY <1>2, OwnIdsAreWorklogs
  <2>2. sync[s].got \in OwnIds \cup {Null} /\ sync[s].existing \in OwnIds \cup {Null}
    BY <1>1 DEF GoodRun
  <2> HIDE DEF legacy, todo, entry
  <2>3. GoodRun(rest, OwnIds)
    BY <1>1, <1>3, <1>4, <1>6, <2>2 DEF GoodRun, Run
  <2>4. GoodRun(sent, OwnIds)
    BY <1>1, <1>3, <1>4, <1>5, <1>6, <2>1, <2>2 DEF GoodRun, Run
  <2> QED BY <2>3, <2>4
<1>8. Unsent /\ \/ sync' = [sync EXCEPT ![s] = rest]
                \/ sync' = [sync EXCEPT ![s] = sent]
  <2>1. Unsent
    BY DEF TakeLegacy
  <2>2. CASE RoundToHalfHour(b.dur) = 0
    BY <2>1, <2>2 DEF TakeLegacy
  <2>3. CASE RoundToHalfHour(b.dur) # 0
    BY <2>1, <2>3 DEF TakeLegacy
  <2> QED BY <2>2, <2>3
<1> HIDE DEF rest, sent
<1> QED BY <1>7, <1>8, RunMoves

(* The worklog that a POST makes is a new one, and not the hand's.         *)
LEMMA PostKeeps ==
  ASSUME Inv, NEW s \in Syncers, Post(s) PROVE Kept
<1> DEFINE r == [sync[s] EXCEPT !.at = "reply", !.got = issued + 1]
           own == OwnIds \cup {issued + 1}
<1>1. issued \in Nat /\ issued < MaxWorklogs /\ issued + 1 \in Worklogs
      /\ issued + 1 \notin hand /\ issued' = issued + 1
  BY SyncAssumption DEF Post, Inv, TypeOK
<1>2. sync[s] \in Run /\ sync[s].at = "send" /\ sync[s].entry \in Worklog
  BY DEF Post, Inv, TypeOK, GoodRun
<1>3. sync' = [sync EXCEPT ![s] = r] /\ tempo' = [tempo EXCEPT ![issued + 1] = sync[s].entry]
      /\ UNCHANGED <<rows, lastId, line, already, hand, del>>
  BY DEF Post
<1>4. OwnIds' = own
  BY <1>1, <1>3 DEF OwnIds, Inv
<1>5. \A q \in Syncers : GoodRun(sync[q], own)
  BY MoreIds DEF Inv
<1>6. GoodRun(r, own)
  BY <1>1, <1>2, <1>5 DEF GoodRun, Run
<1>7. sync' \in [Syncers -> Run] /\ \A q \in Syncers : GoodRun(sync'[q], own)
  <2> HIDE DEF r
  <2>1. r \in Run
    BY <1>6 DEF GoodRun
  <2> QED BY <2>1, <1>3, <1>5, <1>6 DEF Inv, TypeOK
<1>8. GoodRows(rows, own)
  BY MoreIds DEF Inv
<1>9. TypeOK'
  <2>1. tempo' \in [Worklogs -> Worklog \cup {Null}] /\ issued' \in 0 .. MaxWorklogs
    BY <1>1, <1>2, <1>3, SyncAssumption DEF Inv, TypeOK
  <2> QED BY <1>3, <1>7, <2>1 DEF Inv, TypeOK
<1>10. hand' \subseteq 1 .. issued'
  BY <1>1, <1>3 DEF Inv
<1>11. HandSafe
  BY <1>1, <1>3 DEF HandSafe, Inv, TypeOK
<1> HIDE DEF own
<1>12. del'.tempo \in own \cup {Null}
  BY <1>3 DEF own, Inv
<1> QED BY <1>3, <1>4, <1>7, <1>8, <1>9, <1>10, <1>11, <1>12 DEF Inv, Kept

(* A PUT goes to a worklog of worklog's own. *)
LEMMA PutKeeps ==
  ASSUME Inv, NEW s \in Syncers, PutWorklog(s) PROVE Kept
<1> DEFINE w == sync[s].existing
           r == [sync[s] EXCEPT !.at = "reply", !.got = w]
<1>1. sync[s] \in Run /\ sync[s].at = "send" /\ sync[s].entry \in Worklog
      /\ w \in OwnIds /\ w \in Worklogs
  BY OwnIdsAreWorklogs DEF PutWorklog, Inv, TypeOK, GoodRun
<1>2. sync' = [sync EXCEPT ![s] = r] /\ tempo' = [tempo EXCEPT ![w] = sync[s].entry]
      /\ UNCHANGED <<rows, lastId, line, already, issued, hand, del>>
  BY DEF PutWorklog
<1>3. GoodRun(r, OwnIds)
  BY <1>1 DEF GoodRun, Run, Inv
<1>4. sync' \in [Syncers -> Run] /\ \A q \in Syncers : GoodRun(sync'[q], OwnIds)
  <2> HIDE DEF r
  <2>1. r \in Run
    BY <1>3 DEF GoodRun
  <2> QED BY <2>1, <1>2, <1>3 DEF Inv, TypeOK
<1>5. TypeOK'
  <2>1. tempo' \in [Worklogs -> Worklog \cup {Null}]
    BY <1>1, <1>2 DEF Inv, TypeOK
  <2> QED BY <1>2, <1>4, <2>1 DEF Inv, TypeOK
<1>6. HandSafe
  <2>1. \A v \in hand : v # w /\ v \in Worklogs
    BY <1>1 DEF OwnIds, Inv, TypeOK
  <2> HIDE DEF w
  <2> QED BY <1>2, <2>1 DEF HandSafe, Inv, TypeOK
<1>7. OwnIds' = OwnIds
  BY <1>2 DEF OwnIds
<1> QED BY <1>2, <1>4, <1>5, <1>6, <1>7 DEF Inv, Kept

LEMMA NextGroupGood ==
  ASSUME Inv, NEW s \in Syncers
  PROVE  GoodRun(NextGroup(s), OwnIds)
BY DEF NextGroup, Inv, GoodRun, Run

LEMMA RunEndsKeeps ==
  ASSUME Inv, NEW s \in Syncers, Refuse(s) \/ Finish(s) \/ Abort(s) PROVE Kept
<1>1. Unsent /\ \/ sync' = [sync EXCEPT ![s] = NextGroup(s)]
                \/ sync' = [sync EXCEPT ![s] = Idle]
  BY DEF Refuse, Finish, Abort
<1> QED BY <1>1, NextGroupGood, IdleIsGood, RunMoves

LEMMA WriteBackKeeps ==
  ASSUME Inv, NEW s \in Syncers, NEW i \in Blocks, WriteBack(s, i) PROVE Kept
<1> DEFINE less == [sync[s] EXCEPT !.ids = sync[s].ids \ {i}]
           r == IF sync[s].ids = {i} THEN NextGroup(s) ELSE less
<1>1. GoodRun(r, OwnIds)
  <2>1. GoodRun(less, OwnIds)
    BY DEF Inv, GoodRun, Run
  <2> QED BY <2>1, NextGroupGood
<1>2. GoodRows(rows', OwnIds)
  <2>1. CASE rows[i] = Null
    BY <2>1 DEF WriteBack, Inv
  <2>2. CASE rows[i] # Null
    <3>1. rows[i] \in Row /\ sync[s].got \in OwnIds \cup {Null}
      BY <2>2 DEF Inv, GoodRows, Rows, GoodRun
    <3>2. SentAs(rows[i], sync[s].got) \in Row
          /\ SentAs(rows[i], sync[s].got).tempo \in OwnIds \cup {Null}
      BY <3>1, EditTyped, OwnIdsAreWorklogs
    <3>3. rows' = [rows EXCEPT ![i] = SentAs(rows[i], sync[s].got)]
      BY <2>2 DEF WriteBack
    <3> QED BY <3>2, <3>3, OneRowMoves
  <2> QED BY <2>1, <2>2
<1>3. sync' = [sync EXCEPT ![s] = r]
      /\ UNCHANGED <<lastId, line, already, tempo, issued, hand, del>>
  BY DEF WriteBack
<1> HIDE DEF r
<1>4. sync' \in [Syncers -> Run] /\ \A q \in Syncers : GoodRun(sync'[q], OwnIds)
  <2>1. r \in Run
    BY <1>1 DEF GoodRun
  <2> QED BY <2>1, <1>1, <1>3 DEF Inv, TypeOK
<1>5. OwnIds' = OwnIds
  BY <1>3 DEF OwnIds
<1>6. TypeOK'
  BY <1>2, <1>3, <1>4 DEF Inv, TypeOK, GoodRows
<1> QED BY <1>2, <1>3, <1>4, <1>5, <1>6 DEF Inv, Kept, HandSafe

LEMMA SyncStepKeeps ==
  ASSUME Inv, NEW s \in Syncers, SyncStep(s) PROVE Kept
BY BeginKeeps, CheckKeeps, PassOverKeeps, TakeGroupKeeps, GenerateKeeps, PostKeeps,
   PutKeeps, RunEndsKeeps, TakeLegacyKeeps, WriteBackKeeps DEF SyncStep

-----------------------------------------------------------------------------
(* The steps of the owner and of the delete handler. *)

LEMMA RowWrittenKeeps ==
  ASSUME Inv, NEW i \in Blocks, NEW row \in Row, row.tempo \in OwnIds \cup {Null},
         RowWritten(i, row)
  PROVE  Kept
BY OneRowMoves, RowsMove DEF RowWritten, Inv, TypeOK

LEMMA LogTimeKeeps ==
  ASSUME Inv, NEW k \in Tickets, NEW d \in Minutes, NEW t \in Texts, LogTime(k, d, t)
  PROVE  Kept
<1> DEFINE row == [start |-> 100 * lastId, end |-> 100 * lastId + d, dur |-> d, ticket |-> k,
                   origin |-> "manual", text |-> t, by |-> "manual", described |-> d,
                   tempo |-> Null, dirty |-> FALSE, personal |-> FALSE, ignored |-> FALSE,
                   exported |-> FALSE, events |-> {}]
<1>1. lastId \in Nat /\ lastId + 1 \in Blocks /\ d \in Nat /\ lastId + 1 \in 0 .. MaxId
  BY SyncAssumption DEF LogTime, Inv, TypeOK, Blocks
<1>2. 100 * lastId \in Nat /\ 100 * lastId + d \in Nat
  BY <1>1
<1>3. row \in Row /\ row.tempo = Null
  BY <1>1, <1>2 DEF Row, Origins, Authors
<1>4. rows' = [rows EXCEPT ![lastId + 1] = row] /\ lastId' = lastId + 1
      /\ UNCHANGED <<line, already, tempo, issued, hand, sync, del>>
  BY DEF LogTime
<1> HIDE DEF row
<1>5. GoodRows(rows', OwnIds)
  BY <1>1, <1>3, <1>4, OneRowMoves
<1> QED BY <1>1, <1>4, <1>5, RowsMove

LEMMA EditsKeep ==
  ASSUME Inv, NEW i \in Blocks,
         \/ \E d \in Minutes : Resize(i, d)
         \/ \E t \in Texts : Reword(i, t)
         \/ \E k \in Tickets : Reassign(i, k)
         \/ \E p \in BOOLEAN : SetPersonal(i, p)
  PROVE  Kept
<1>1. rows[i] # Null
  BY DEF Resize, Reword, Reassign, SetPersonal
<1>2. rows[i] \in Row /\ rows[i].tempo \in OwnIds \cup {Null}
  BY <1>1 DEF Inv, GoodRows, Rows
<1>3. Minutes \subseteq Nat
  BY SyncAssumption
<1>4. ASSUME NEW d \in Minutes, Resize(i, d) PROVE Kept
  BY <1>2, <1>3, <1>4, EditTyped, RowWrittenKeeps DEF Resize
<1>5. ASSUME NEW t \in Texts, Reword(i, t) PROVE Kept
  BY <1>2, <1>5, EditTyped, RowWrittenKeeps DEF Reword
<1>6. ASSUME NEW k \in Tickets, Reassign(i, k) PROVE Kept
  BY <1>2, <1>6, EditTyped, RowWrittenKeeps DEF Reassign
<1>7. ASSUME NEW p \in BOOLEAN, SetPersonal(i, p) PROVE Kept
  <2> DEFINE r == [rows[i] EXCEPT !.personal = p]
  <2>1. r \in Row /\ r.tempo \in OwnIds \cup {Null}
    BY <1>2, EditTyped
  <2>2. RowWritten(i, r)
    BY <1>7 DEF SetPersonal
  <2> QED BY <2>1, <2>2, RowWrittenKeeps
<1> QED BY <1>4, <1>5, <1>6, <1>7

LEMMA StoreLineKeeps ==
  ASSUME Inv, NEW k \in Tickets,
         NEW stored \in [text : Texts \cup {Null}, manual : BOOLEAN, hours : Hours \cup {Null}],
         StoreLine(k, stored)
  PROVE  Kept
<1>1. /\ line' = [line EXCEPT ![k] = stored]
      /\ already' \in {already, [already EXCEPT ![k] = Null]}
      /\ rows' = LineMarked(k)
      /\ UNCHANGED <<lastId, tempo, issued, hand, sync, del>>
  BY DEF StoreLine
<1>2. GoodRows(rows', OwnIds)
  BY <1>1, MarkingKeepsRows
<1>3. OwnIds' = OwnIds
  BY <1>1 DEF OwnIds
<1>4. already' \in [Tickets -> Basis \cup {Null}]
  BY <1>1 DEF Inv, TypeOK
<1>5. line' \in [Tickets -> [text : Texts \cup {Null}, manual : BOOLEAN,
                             hours : Hours \cup {Null}]]
  BY <1>1 DEF Inv, TypeOK
<1>6. TypeOK'
  BY <1>1, <1>2, <1>4, <1>5 DEF Inv, TypeOK, GoodRows
<1> QED BY <1>1, <1>2, <1>3, <1>6 DEF Inv, Kept, HandSafe

LEMMA LinesKeep ==
  ASSUME Inv, NEW k \in Tickets,
         \/ \E t \in Texts \cup {Null} : SetText(k, t)
         \/ \E h \in Hours \cup {Null} : SetHours(k, h)
  PROVE  Kept
<1>1. line[k] \in [text : Texts \cup {Null}, manual : BOOLEAN, hours : Hours \cup {Null}]
  BY DEF Inv, TypeOK
<1>2. ASSUME NEW t \in Texts \cup {Null}, SetText(k, t) PROVE Kept
  <2> DEFINE stored == [line[k] EXCEPT !.text = t, !.manual = t # Null]
  <2>1. stored \in [text : Texts \cup {Null}, manual : BOOLEAN, hours : Hours \cup {Null}]
    BY <1>1
  <2>2. StoreLine(k, stored)
    BY <1>2 DEF SetText
  <2> QED BY <2>1, <2>2, StoreLineKeeps
<1>3. ASSUME NEW h \in Hours \cup {Null}, SetHours(k, h) PROVE Kept
  <2> DEFINE stored == [line[k] EXCEPT !.hours = h]
  <2>1. stored \in [text : Texts \cup {Null}, manual : BOOLEAN, hours : Hours \cup {Null}]
    BY <1>1
  <2>2. StoreLine(k, stored)
    BY <1>3 DEF SetHours
  <2> QED BY <2>1, <2>2, StoreLineKeeps
<1> QED BY <1>2, <1>3

(* The delete handler keeps the id it read, one of worklog's own.          *)
LEMMA DeleteKeeps ==
  ASSUME Inv,
         \/ \E i \in Blocks, credentials \in BOOLEAN : DeleteFetch(i, credentials)
         \/ DeleteStep
  PROVE  Kept
<1>1. ASSUME NEW i \in Blocks, NEW credentials \in BOOLEAN, DeleteFetch(i, credentials)
      PROVE  Kept
  <2>1. rows[i].tempo \in OwnIds \cup {Null} /\ rows[i].tempo \in Worklogs \cup {Null}
    BY <1>1, OwnIdsAreWorklogs DEF DeleteFetch, Inv, GoodRows
  <2>2. UNCHANGED <<rows, lastId, line, already, tempo, issued, hand, sync>>
    BY <1>1 DEF DeleteFetch
  <2>3. /\ del' \in [at : {"idle", "remote", "local"}, id : Blocks \cup {Null},
                     tempo : Worklogs \cup {Null}]
        /\ del'.tempo = rows[i].tempo
    BY <1>1, <2>1 DEF DeleteFetch
  <2>4. TypeOK'
    BY <2>2, <2>3 DEF Inv, TypeOK
  <2>5. OwnIds' = OwnIds
    BY <2>2 DEF OwnIds
  <2> QED BY <2>1, <2>2, <2>3, <2>4, <2>5 DEF Inv, Kept, HandSafe
<1>2. CASE DeleteRemote
  <2>1. UNCHANGED <<rows, lastId, line, already, issued, hand, sync>>
    BY <1>2 DEF DeleteRemote
  <2>2. /\ del' \in [at : {"idle", "remote", "local"}, id : Blocks \cup {Null},
                     tempo : Worklogs \cup {Null}]
        /\ del'.tempo = del.tempo
    BY <1>2 DEF DeleteRemote, Inv, TypeOK
  <2>3. tempo' = [tempo EXCEPT ![del.tempo] = Null]
    BY <1>2 DEF DeleteRemote
  <2>4. TypeOK'
    BY <2>1, <2>2, <2>3 DEF Inv, TypeOK
  <2>5. \A w \in hand : w # del.tempo /\ w \in Worklogs
    BY OwnIdsAreWorklogs DEF Inv, TypeOK, OwnIds
  <2>6. HandSafe
    BY <2>3, <2>5 DEF HandSafe, Inv, TypeOK
  <2>7. OwnIds' = OwnIds
    BY <2>1 DEF OwnIds
  <2> QED BY <2>1, <2>2, <2>4, <2>6, <2>7 DEF Inv, Kept
<1>3. CASE DeleteLocal
  <2>1. /\ rows' = [rows EXCEPT ![del.id] = Null] /\ del' = NoDelete
        /\ UNCHANGED <<lastId, line, already, tempo, issued, hand, sync>>
    BY <1>3 DEF DeleteLocal
  <2>2. GoodRows(rows', OwnIds)
    BY <2>1 DEF Inv, GoodRows, Rows
  <2>3. OwnIds' = OwnIds
    BY <2>1 DEF OwnIds
  <2>4. TypeOK'
    BY <2>1, <2>2 DEF Inv, TypeOK, GoodRows, NoDelete
  <2> QED BY <2>1, <2>2, <2>3, <2>4 DEF Inv, Kept, HandSafe, NoDelete
<1>4. CASE DeleteAborts
  <2>1. del' = NoDelete
        /\ UNCHANGED <<rows, lastId, line, already, tempo, issued, hand, sync>>
    BY <1>4 DEF DeleteAborts
  <2>2. OwnIds' = OwnIds
    BY <2>1 DEF OwnIds
  <2>3. TypeOK'
    BY <2>1 DEF Inv, TypeOK, NoDelete
  <2> QED BY <2>1, <2>2, <2>3 DEF Inv, Kept, HandSafe, NoDelete
<1> QED BY <1>1, <1>2, <1>3, <1>4 DEF DeleteStep

(* What the owner enters in Tempo is new there, and nobody holds its id.   *)
LEMMA EnterByHandKeeps ==
  ASSUME Inv, NEW k \in Tickets, NEW m \in Minutes, NEW t \in Texts, EnterByHand(k, m, t)
  PROVE  Kept
<1>1. issued \in Nat /\ issued < MaxWorklogs /\ issued + 1 \in Worklogs
      /\ issued + 1 \notin hand /\ m \in Nat
  BY SyncAssumption DEF EnterByHand, Inv, TypeOK
<1>2. /\ issued' = issued + 1 /\ hand' = hand \cup {issued + 1}
      /\ tempo' = [tempo EXCEPT ![issued + 1] = [ticket |-> k, total |-> m, text |-> t]]
      /\ UNCHANGED <<rows, lastId, line, already, sync, del>>
  BY DEF EnterByHand
<1>3. OwnIds' = OwnIds
  BY <1>1, <1>2 DEF OwnIds, Inv
<1>4. hand' \subseteq 1 .. issued'
  BY <1>1, <1>2 DEF Inv
<1>5. TypeOK'
  <2>1. [ticket |-> k, total |-> m, text |-> t] \in Worklog
    BY <1>1 DEF Worklog, Spoken
  <2>2. tempo' \in [Worklogs -> Worklog \cup {Null}]
    BY <1>2, <2>1 DEF Inv, TypeOK
  <2>3. issued' \in 0 .. MaxWorklogs /\ hand' \in SUBSET Worklogs
    BY <1>1, <1>2, SyncAssumption DEF Inv, TypeOK
  <2> QED BY <1>2, <2>2, <2>3 DEF Inv, TypeOK
<1>6. HandSafe
  BY <1>1, <1>2 DEF HandSafe, Inv, TypeOK
<1> QED BY <1>2, <1>3, <1>4, <1>5, <1>6 DEF Inv, Kept

-----------------------------------------------------------------------------
LEMMA NextKeeps ==
  ASSUME Inv, Next PROVE Kept
<1>1. CASE \E s \in Syncers : \/ SyncStep(s) \/ Refuse(s) \/ Abort(s)
                              \/ \E k \in Tickets : Unresolved(s, k)
  BY <1>1, SyncStepKeeps, RunEndsKeeps, PassOverKeeps
<1>2. CASE OwnerStep
  BY <1>2, EditsKeep, LogTimeKeeps, LinesKeep, DeleteKeeps, EnterByHandKeeps DEF OwnerStep
<1>3. CASE DeleteStep
  BY <1>3, DeleteKeeps
<1> QED BY <1>1, <1>2, <1>3 DEF Next

LEMMA InitInv == Init => Inv
<1> SUFFICES ASSUME Init PROVE Inv
  OBVIOUS
<1>1. 0 \in 0 .. MaxId /\ 0 \in 0 .. MaxWorklogs
  BY SyncAssumption
<1>2. Idle \in Run
  BY IdleIsGood DEF GoodRun
<1>3. TypeOK
  BY <1>1, <1>2 DEF Init, TypeOK, NoRows, Rows, NoLine, NoDelete
<1>4. GoodRows(rows, OwnIds)
  BY DEF Init, GoodRows, NoRows, Rows
<1>5. \A s \in Syncers : GoodRun(sync[s], OwnIds)
  BY IdleIsGood DEF Init
<1> QED BY <1>3, <1>4, <1>5 DEF Init, Inv, NoDelete

LEMMA SpecInv == Spec => []Inv
<1>1. Inv /\ UNCHANGED vars => Inv'
  BY DEF vars, Inv, TypeOK, OwnIds, GoodRows
<1> QED BY <1>1, InitInv, NextKeeps, PTL DEF Spec, Kept

(* Every value of the day, of Tempo, of the runs and of the delete handler *)
(* stays in its type, for any number of processes that sync.               *)
THEOREM SyncIsTyped == Spec => []TypeOK
<1>1. Inv => TypeOK
  BY DEF Inv
<1> QED BY <1>1, SpecInv, PTL

(* No sync and no delete changes or removes what the owner entered in      *)
(* Tempo by hand, however many processes sync, fail and die at once: every *)
(* id worklog holds is one that Tempo gave it.  (tempo_match.rs,           *)
(* check_line, records a match and never adopts it.)                       *)
THEOREM HandEntriesStay == Spec => HandEntriesUntouched
<1>1. Inv /\ [Next]_vars => [\A w \in hand : tempo'[w] = tempo[w]]_vars
  BY NextKeeps DEF Kept, HandSafe
<1> QED BY <1>1, SpecInv, PTL DEF Spec, HandEntriesUntouched

-----------------------------------------------------------------------------
(* Where the daemon alone syncs, its lock keeps the rows of a run as the   *)
(* run read them: the rows still to do have the id and the ticket of the   *)
(* snapshot, those a reply is written to have no other id than the one     *)
(* that was sent to.                                                       *)

Tracks(r, table) ==
  /\ \A i \in Blocks : r.todo[i] # Null => /\ i \notin r.ids /\ table[i] # Null
                                           /\ table[i].tempo = r.todo[i].tempo
                                           /\ table[i].ticket = r.todo[i].ticket
  /\ \A i \in r.ids : table[i] # Null => table[i].tempo \in {Null, r.existing}
  /\ r.at = "reply" /\ r.existing # Null => r.got = r.existing

Tracked == Tracks(sync[Daemon], rows)

IdsStay ==
  \A i \in Live : Synced(rows[i]) => rows'[i] # Null /\ rows'[i].tempo = rows[i].tempo

LEMMA IdleTracks ==
  ASSUME NEW table PROVE Tracks(Idle, table)
BY DEF Tracks, Idle, NoRows

(* A line that is not mixed has one id or none. *)
LEMMA OneId ==
  ASSUME Inv, NEW k \in Tickets, ~MixedLegacy(k), ~AllUnsynced(k)
  PROVE  \E w : LineIds(k) = {w}
<1>1. LineIds(k) \subseteq OwnIds
  BY DEF Inv, GoodRows, LineIds, Line, Live
<1>2. LineIds(k) \in SUBSET (1 .. MaxWorklogs)
  BY <1>1, OwnIdsAreWorklogs, SyncAssumption
<1>3. IsFiniteSet(LineIds(k))
  BY <1>2, FS_Interval, FS_Subset, SyncAssumption
<1>4. Cardinality(LineIds(k)) \in Nat /\ Cardinality(LineIds(k)) # 0
  BY <1>3, FS_CardinalityType, FS_EmptySet DEF AllUnsynced
<1>5. Cardinality(LineIds(k)) = 1
  BY <1>4 DEF MixedLegacy
<1> QED BY <1>3, <1>5, FS_Singleton

LEMMA TakeGroupTracks ==
  ASSUME Inv, Tracked, NEW k \in Tickets, TakeGroup(Daemon, k)
  PROVE  Tracks(sync'[Daemon], rows)
<1> DEFINE existing == IF AllUnsynced(k) THEN Null ELSE CHOOSE w \in LineIds(k) : TRUE
           todo == Without(sync[Daemon].todo, Waiting(Daemon, k))
           at == IF AllUnsynced(k) THEN "check" ELSE "send"
           r == [sync[Daemon] EXCEPT !.at = at, !.todo = todo, !.ids = Line(k),
                                     !.existing = existing, !.entry = Content(k)]
<1>1. sync' = [sync EXCEPT ![Daemon] = r] /\ sync[Daemon] \in Run /\ sync'[Daemon] = r
  BY SyncAssumption DEF TakeGroup, Inv, TypeOK
<1>2. \A i \in Line(k) : rows[i].tempo \in {Null, existing}
  <2>1. \A i \in Line(k) : rows[i].tempo \in LineIds(k) \cup {Null}
    BY DEF LineIds
  <2>2. CASE AllUnsynced(k)
    BY <2>1, <2>2 DEF AllUnsynced
  <2>3. CASE ~AllUnsynced(k)
    <3>1. PICK w : LineIds(k) = {w}
      BY <2>3, OneId DEF TakeGroup
    <3> QED BY <2>1, <2>3, <3>1
  <2> QED BY <2>2, <2>3
<1>3. \A i \in Blocks : todo[i] # Null =>
          /\ todo[i] = sync[Daemon].todo[i] /\ todo[i].ticket # k
  BY DEF Without, Waiting
<1>4. \A i \in Line(k) : rows[i].ticket = k
  BY DEF Line
<1>5. /\ r.todo = todo /\ r.ids = Line(k) /\ r.existing = existing /\ r.at # "reply"
  BY <1>1 DEF Run
<1> HIDE DEF r, todo, existing, at
<1>6. \A i \in Blocks : r.todo[i] # Null => /\ i \notin r.ids /\ rows[i] # Null
                                           /\ rows[i].tempo = r.todo[i].tempo
                                           /\ rows[i].ticket = r.todo[i].ticket
  BY <1>3, <1>4, <1>5 DEF Tracked, Tracks
<1> QED BY <1>1, <1>2, <1>5, <1>6 DEF Tracks

(* Legacy sends: the row goes to the id it had, and still has.             *)
LEMMA TakeLegacyTracks ==
  ASSUME Inv, Tracked, NEW i \in Blocks, TakeLegacy(Daemon, i)
  PROVE  Tracks(sync'[Daemon], rows)
<1> DEFINE b == sync[Daemon].todo[i]
           todo == [sync[Daemon].todo EXCEPT ![i] = Null]
           run == sync'[Daemon]
<1>1. sync[Daemon] \in Run /\ sync[Daemon].todo \in Rows /\ b # Null
      /\ sync \in [Syncers -> Run] /\ sync[Daemon].at = "groups"
  BY SyncAssumption DEF TakeLegacy, Inv, TypeOK, Run
<1>2. \/ run.todo = todo /\ run.ids = sync[Daemon].ids /\ run.existing = sync[Daemon].existing
         /\ run.at = "groups"
      \/ run.todo = todo /\ run.ids = {i} /\ run.existing = b.tempo /\ run.at = "send"
  <2>1. CASE RoundToHalfHour(b.dur) = 0
    <3>1. run = [sync[Daemon] EXCEPT !.todo[i] = Null,
                   !.legacy = IF Waiting(Daemon, b.ticket) = {i} THEN Null ELSE b.ticket]
      BY <1>1, <2>1, SyncAssumption DEF TakeLegacy
    <3> QED BY <3>1, <1>1 DEF Run
  <2>2. CASE RoundToHalfHour(b.dur) # 0
    <3> DEFINE legacy == IF Waiting(Daemon, b.ticket) = {i} THEN Null ELSE b.ticket
               entry == [ticket |-> b.ticket, total |-> RoundToHalfHour(b.dur),
                         text |-> IF b.text = Null THEN {} ELSE b.text]
    <3>1. run = [sync[Daemon] EXCEPT !.at = "send", !.todo[i] = Null, !.legacy = legacy,
                   !.ids = {i}, !.existing = b.tempo, !.entry = entry]
      BY <1>1, <2>2, SyncAssumption DEF TakeLegacy
    <3> HIDE DEF legacy, entry
    <3> QED BY <3>1, <1>1 DEF Run
  <2> QED BY <2>1, <2>2
<1>3. \A j \in Blocks : todo[j] # Null => j # i /\ todo[j] = sync[Daemon].todo[j]
  BY <1>1 DEF Rows
<1>4. rows[i].tempo = b.tempo
  BY <1>1 DEF Tracked, Tracks
<1> HIDE DEF run, todo
<1> SUFFICES Tracks(run, rows)
  BY DEF run
<1> QED BY <1>2, <1>3, <1>4 DEF Tracked, Tracks

(* The write-back gives a row the id it had or the first one it gets.      *)
LEMMA WriteBackTracks ==
  ASSUME Inv, Tracked, NEW i \in Blocks, WriteBack(Daemon, i)
  PROVE  Tracks(sync'[Daemon], rows') /\ IdsStay
<1> DEFINE got == sync[Daemon].got
           run == sync'[Daemon]
<1>1. sync[Daemon] \in Run /\ sync \in [Syncers -> Run] /\ sync[Daemon].at = "reply"
      /\ i \in sync[Daemon].ids /\ got \in Worklogs \cup {Null}
  BY SyncAssumption DEF WriteBack, Inv, TypeOK, Run
<1>2. \A j \in Blocks \ {i} : rows'[j] = rows[j]
  BY DEF WriteBack, Inv, TypeOK, Rows
<1>3. rows[i] # Null => /\ rows'[i] # Null /\ rows'[i].ticket = rows[i].ticket
                        /\ Synced(rows[i]) => rows'[i].tempo = rows[i].tempo
  <2> SUFFICES ASSUME rows[i] # Null
               PROVE  /\ rows'[i] # Null /\ rows'[i].ticket = rows[i].ticket
                      /\ Synced(rows[i]) => rows'[i].tempo = rows[i].tempo
    OBVIOUS
  <2>1. rows[i] \in Row
    BY DEF Inv, TypeOK, Rows
  <2>2. rows'[i] = SentAs(rows[i], got)
    BY DEF WriteBack, Inv, TypeOK, Rows
  <2>3. rows'[i] \in Row /\ rows'[i].tempo = got /\ rows'[i].ticket = rows[i].ticket
    BY <1>1, <2>1, <2>2, EditTyped
  <2>4. rows[i].tempo \in {Null, sync[Daemon].existing}
    BY <1>1 DEF Tracked, Tracks
  <2>5. Synced(rows[i]) => got = rows[i].tempo
    BY <1>1, <2>4 DEF Tracked, Tracks, Synced
  <2> QED BY <2>3, <2>5, NoRowIsNull
<1>4. IdsStay
  BY <1>2, <1>3 DEF IdsStay, Live
<1>5. /\ run.todo = sync[Daemon].todo /\ run.ids \subseteq sync[Daemon].ids \ {i}
      /\ run.ids # {} => run.existing = sync[Daemon].existing
      /\ run.at = "reply" => run.existing = sync[Daemon].existing /\ run.got = got
  <2>1. CASE sync[Daemon].ids = {i}
    <3>1. run = NextGroup(Daemon)
      BY <1>1, <2>1, SyncAssumption DEF WriteBack
    <3> QED BY <1>1, <3>1 DEF NextGroup, Run
  <2>2. CASE sync[Daemon].ids # {i}
    <3>1. run = [sync[Daemon] EXCEPT !.ids = sync[Daemon].ids \ {i}]
      BY <1>1, <2>2, SyncAssumption DEF WriteBack
    <3> QED BY <1>1, <3>1 DEF Run
  <2> QED BY <2>1, <2>2
<1>6. \A j \in Blocks : sync[Daemon].todo[j] # Null => j # i /\ rows'[j] = rows[j]
  BY <1>1, <1>2 DEF Tracked, Tracks
<1>7. sync[Daemon].ids \subseteq Blocks
  BY <1>1 DEF Run
<1> HIDE DEF run, got
<1> SUFFICES Tracks(run, rows')
  BY <1>4 DEF run
<1>8. \A j \in Blocks : run.todo[j] # Null => /\ j \notin run.ids /\ rows'[j] # Null
                                            /\ rows'[j].tempo = run.todo[j].tempo
                                            /\ rows'[j].ticket = run.todo[j].ticket
  BY <1>5, <1>6 DEF Tracked, Tracks
<1>9. \A j \in run.ids : rows'[j] # Null => rows'[j].tempo \in {Null, run.existing}
  BY <1>2, <1>5, <1>7 DEF Tracked, Tracks
<1>10. run.at = "reply" /\ run.existing # Null => run.got = run.existing
  BY <1>1, <1>5 DEF Tracked, Tracks, got
<1> QED BY <1>8, <1>9, <1>10 DEF Tracks

LEMMA GenerateTracks ==
  ASSUME Inv, Tracked, NEW t \in Texts, Generate(Daemon, t)
  PROVE  Tracks(sync'[Daemon], rows') /\ IdsStay
<1>1. \A i \in Blocks : /\ rows[i] = Null => rows'[i] = Null
                        /\ rows[i] # Null => /\ rows'[i] # Null
                                             /\ rows'[i].tempo = rows[i].tempo
                                             /\ rows'[i].ticket = rows[i].ticket
  <2>1. rows' = rows \/ rows' = LineMarked(sync[Daemon].entry.ticket)
    BY DEF Generate
  <2>2. \A i \in Blocks : rows[i] # Null =>
            /\ MarkDirty(rows[i]) # Null /\ MarkDirty(rows[i]).tempo = rows[i].tempo
            /\ MarkDirty(rows[i]).ticket = rows[i].ticket
    BY MarkTyped, NoRowIsNull DEF Inv, TypeOK, Rows
  <2> QED BY <2>1, <2>2 DEF LineMarked, Line, Live
<1>2. sync[Daemon] \in Run /\ sync \in [Syncers -> Run] /\ sync[Daemon].at = "send"
      /\ sync[Daemon].ids \subseteq Blocks
  BY SyncAssumption DEF Generate, Inv, TypeOK, Run
<1>3. sync'[Daemon] = [sync[Daemon] EXCEPT !.entry.text = t]
  BY <1>2, SyncAssumption DEF Generate
<1>4. /\ sync'[Daemon].todo = sync[Daemon].todo /\ sync'[Daemon].ids = sync[Daemon].ids
      /\ sync'[Daemon].existing = sync[Daemon].existing /\ sync'[Daemon].at = "send"
  BY <1>2, <1>3 DEF Run
<1>5. IdsStay
  BY <1>1 DEF IdsStay, Live
<1> DEFINE run == sync'[Daemon]
<1> HIDE DEF run
<1>6. /\ run.todo = sync[Daemon].todo /\ run.ids = sync[Daemon].ids
      /\ run.existing = sync[Daemon].existing /\ run.at = "send"
  BY <1>4 DEF run
<1>7. Tracks(run, rows')
  <2>1. \A i \in Blocks : run.todo[i] # Null => /\ i \notin run.ids /\ rows'[i] # Null
                                              /\ rows'[i].tempo = run.todo[i].tempo
                                              /\ rows'[i].ticket = run.todo[i].ticket
    BY <1>1, <1>6 DEF Tracked, Tracks
  <2>2. \A i \in run.ids : rows'[i] # Null => rows'[i].tempo \in {Null, run.existing}
    BY <1>1, <1>2, <1>6 DEF Tracked, Tracks
  <2> QED BY <1>6, <2>1, <2>2 DEF Tracks
<1> QED BY <1>5, <1>7 DEF run

(* A step that writes no row only hands on what the run holds.             *)
LEMMA QuietStepsTrack ==
  ASSUME Inv, Tracked,
         \/ Begin(Daemon) \/ FoundInTempo(Daemon) \/ NotFound(Daemon) \/ Post(Daemon)
         \/ PutWorklog(Daemon) \/ Finish(Daemon) \/ Refuse(Daemon) \/ Abort(Daemon)
         \/ \E k \in Tickets : SkipGroup(Daemon, k) \/ Unresolved(Daemon, k)
  PROVE  Tracks(sync'[Daemon], rows)
<1>0. sync[Daemon] \in Run /\ sync \in [Syncers -> Run] /\ Daemon \in Syncers
  BY SyncAssumption DEF Inv, TypeOK
<1>1. CASE Begin(Daemon)
  <2>1. sync'[Daemon] = [Idle EXCEPT !.at = "groups",
                           !.todo = [i \in Blocks |->
                             IF Eligible(i) /\ rows[i].ticket # Null THEN rows[i] ELSE Null]]
    BY <1>0, <1>1 DEF Begin
  <2> QED BY <2>1 DEF Tracks, Idle, Eligible, Live
<1>2. CASE FoundInTempo(Daemon)
  <2>1. sync'[Daemon] = [Idle EXCEPT !.at = "groups", !.todo = sync[Daemon].todo]
    BY <1>0, <1>2 DEF FoundInTempo
  <2> QED BY <2>1 DEF Tracked, Tracks, Idle
<1>3. CASE NotFound(Daemon)
  BY <1>0, <1>3 DEF NotFound, Tracked, Tracks, Run
<1>4. CASE Post(Daemon)
  BY <1>0, <1>4 DEF Post, Tracked, Tracks, Run
<1>5. CASE PutWorklog(Daemon)
  BY <1>0, <1>5 DEF PutWorklog, Tracked, Tracks, Run
<1>6. CASE Finish(Daemon) \/ Abort(Daemon)
  BY <1>0, <1>6, IdleTracks DEF Finish, Abort
<1>7. CASE Refuse(Daemon)
  BY <1>0, <1>7 DEF Refuse, NextGroup, Tracked, Tracks, Run
<1>8. CASE \E k \in Tickets : SkipGroup(Daemon, k) \/ Unresolved(Daemon, k)
  <2>1. PICK k \in Tickets : SkipGroup(Daemon, k) \/ Unresolved(Daemon, k)
    BY <1>8
  <2>2. sync'[Daemon] = [sync[Daemon] EXCEPT !.todo =
                           Without(sync[Daemon].todo, Waiting(Daemon, k))]
    BY <1>0, <2>1 DEF SkipGroup, Unresolved
  <2>3. \A i \in Blocks : sync'[Daemon].todo[i] # Null =>
                              sync'[Daemon].todo[i] = sync[Daemon].todo[i]
    BY <1>0, <2>2 DEF Without, Run
  <2>4. /\ sync'[Daemon].ids = sync[Daemon].ids /\ sync'[Daemon].at = sync[Daemon].at
        /\ sync'[Daemon].existing = sync[Daemon].existing
        /\ sync'[Daemon].got = sync[Daemon].got
    BY <1>0, <2>2 DEF Run
  <2> QED BY <2>3, <2>4 DEF Tracked, Tracks
<1> QED BY <1>1, <1>2, <1>3, <1>4, <1>5, <1>6, <1>7, <1>8

LEMMA DaemonStepTracks ==
  ASSUME Inv, Tracked, SyncStep(Daemon)
  PROVE  Tracks(sync'[Daemon], rows') /\ IdsStay
<1>1. CASE \E t \in Texts : Generate(Daemon, t)
  BY <1>1, GenerateTracks
<1>2. CASE \E i \in Blocks : WriteBack(Daemon, i)
  BY <1>2, WriteBackTracks
<1>3. CASE \/ \E k \in Tickets : TakeGroup(Daemon, k)
           \/ \E i \in Blocks : TakeLegacy(Daemon, i)
  <2>1. rows' = rows
    BY <1>3 DEF TakeGroup, TakeLegacy, Unsent
  <2> QED BY <1>3, <2>1, TakeGroupTracks, TakeLegacyTracks DEF IdsStay, Live
<1>4. CASE \/ Begin(Daemon) \/ FoundInTempo(Daemon) \/ NotFound(Daemon) \/ Post(Daemon)
           \/ PutWorklog(Daemon) \/ Finish(Daemon)
           \/ \E k \in Tickets : SkipGroup(Daemon, k)
  <2>1. rows' = rows
    BY <1>4 DEF Begin, FoundInTempo, NotFound, Post, PutWorklog, Finish, SkipGroup, Unsent
  <2> QED BY <1>4, <2>1, QuietStepsTrack DEF IdsStay, Live
<1> QED BY <1>1, <1>2, <1>3, <1>4 DEF SyncStep

(* The owner's edits and the delete wait for the lock.                     *)
LEMMA OwnerTracks ==
  ASSUME Inv, Tracked, OwnerStep \/ DeleteStep
  PROVE  Tracks(sync'[Daemon], rows')
<1>1. sync' = sync
  BY DEF OwnerStep, DeleteStep, Resize, Reword, Reassign, SetPersonal, RowWritten, LogTime,
         SetText, SetHours, StoreLine, DeleteFetch, EnterByHand, DeleteRemote, DeleteLocal,
         DeleteAborts
<1>2. sync[Daemon] = Idle \/ rows' = rows
  BY DEF OwnerStep, DeleteStep, Resize, Reword, Reassign, SetPersonal, RowWritten, LogTime,
         SetText, SetHours, StoreLine, DeleteFetch, EnterByHand, DeleteRemote, DeleteLocal,
         DeleteAborts, Unlocked
<1> QED BY <1>1, <1>2, IdleTracks DEF Tracked

LEMMA NextTracks ==
  ASSUME Syncers = {Daemon}, Inv, Tracked, Next
  PROVE  Tracked' /\ \A s \in Syncers : SyncStep(s) => IdsStay
<1>1. CASE SyncStep(Daemon)
  BY <1>1, DaemonStepTracks DEF Tracked
<1>2. CASE Refuse(Daemon) \/ Abort(Daemon) \/ \E k \in Tickets : Unresolved(Daemon, k)
  <2>1. rows' = rows
    BY <1>2 DEF Refuse, Abort, Unresolved, Unsent
  <2>2. Tracked' /\ IdsStay
    BY <1>2, <2>1, QuietStepsTrack DEF Tracked, IdsStay, Live
  <2> QED BY <2>2
<1>3. CASE OwnerStep \/ DeleteStep
  BY <1>3, OwnerTracks, DaemonStepTracks DEF Tracked
<1> QED BY <1>1, <1>2, <1>3 DEF Next

(* Where only the daemon syncs, no step of a run takes a worklog's id off  *)
(* the row that has it, whatever fails on the way, the line by line and    *)
(* the block by block sends alike.  (tempo.rs:15, "we never silently       *)
(* delete or merge their entries")                                         *)
THEOREM SyncLosesNoId ==
  ASSUME Syncers = {Daemon}
  PROVE  Spec => SyncKeepsIds
<1>1. Init => Tracked
  BY IdleTracks, SyncAssumption DEF Init, Tracked
<1>2. Inv /\ Tracked /\ [Next]_vars => Tracked'
  <2>1. Tracked /\ UNCHANGED vars => Tracked'
    BY DEF vars, Tracked
  <2> QED BY <2>1, NextTracks
<1>3. Inv /\ Tracked /\ [Next]_vars =>
        [\A s \in Syncers : SyncStep(s) =>
            \A i \in Live : Synced(rows[i]) =>
                \E j \in Blocks : rows'[j] # Null /\ rows'[j].tempo = rows[i].tempo]_vars
  BY NextTracks DEF IdsStay, Live
<1> QED BY <1>1, <1>2, <1>3, SpecInv, PTL DEF Spec, SyncKeepsIds

-----------------------------------------------------------------------------
(* Where the daemon alone syncs and no row leaves its line, a line has one *)
(* worklog, its own, and a run that has taken a line sends what the line   *)
(* says to that worklog or, while the line has none, to a new one.         *)

LinesKeepRows ==
  /\ del' = NoDelete
  /\ \A i \in Live : /\ rows'[i] # Null
                     /\ rows'[i].ticket = rows[i].ticket
                     /\ rows'[i].personal = rows[i].personal

RowsInOrder == \A i \in Live : i <= lastId /\ ~rows[i].personal /\ rows[i].ticket # Null

OneWorklogALine ==
  \A i, j \in Live : Synced(rows[i]) /\ Synced(rows[j]) =>
      (rows[i].tempo = rows[j].tempo <=> rows[i].ticket = rows[j].ticket)

Exact(k) == Settled(k) => \A w \in LineIds(k) : tempo[w] = Content(k)

OwnTextsThere == \A k \in Tickets : line[k].manual => line[k].text # Null

(* The run's payload is what its line says; its reply names the line's     *)
(* worklog, or the one the line is about to get.                           *)
RunSendsLine(r) ==
  /\ r.legacy = Null
  /\ r.at \in {"check", "send", "reply"} =>
       r.entry = Content(r.entry.ticket) /\ r.ids \subseteq Line(r.entry.ticket)
  /\ r.at \in {"check", "send"} =>
       r.ids = Line(r.entry.ticket) /\ LineIds(r.entry.ticket) = {r.existing} \ {Null}
  /\ r.at = "check" => r.existing = Null
  /\ r.at = "reply" =>
       /\ r.got # Null /\ tempo[r.got] = r.entry
       /\ \A i \in Live : Synced(rows[i]) =>
            (rows[i].tempo = r.got <=> rows[i].ticket = r.entry.ticket)

ExactInv ==
  /\ del = NoDelete /\ RowsInOrder /\ OneWorklogALine /\ OwnTextsThere
  /\ \A k \in Tickets : Exact(k)
  /\ RunSendsLine(sync[Daemon])

-----------------------------------------------------------------------------
(* Lines nobody wrote to. *)

LEMMA SameContent ==
  ASSUME NEW k \in Tickets, line'[k] = line[k], Line(k)' = Line(k),
         \A i \in Line(k) : /\ rows'[i].start = rows[i].start /\ rows'[i].dur = rows[i].dur
                            /\ rows'[i].text = rows[i].text
  PROVE  Content(k)' = Content(k)
<1>1. {Covered(rows'[i]) : i \in Line(k)'} = {Covered(rows[i]) : i \in Line(k)}
  BY DEF Covered
<1>2. {rows'[i].text : i \in Line(k)'} = {rows[i].text : i \in Line(k)}
  OBVIOUS
<1>3. Total(k)' = Total(k)
  BY <1>1 DEF Total
<1>4. TextOf(k)' = TextOf(k)
  BY <1>2 DEF TextOf, Descriptions
<1> QED BY <1>3, <1>4 DEF Content

(* A line keeps its rows when no row comes, goes or changes its line.      *)
LEMMA SameRows ==
  ASSUME NEW k \in Tickets, Live' = Live,
         \A i \in Live : rows'[i].ticket = rows[i].ticket /\ rows'[i].personal = rows[i].personal
  PROVE  Line(k)' = Line(k)
BY DEF Line

LEMMA UntouchedIsExact ==
  ASSUME NEW k \in Tickets, Exact(k), line'[k] = line[k], Line(k)' = Line(k),
         \A i \in Line(k) : rows'[i] = rows[i],
         \A w \in LineIds(k) : tempo'[w] = tempo[w]
  PROVE  Exact(k)'
<1>1. Content(k)' = Content(k)
  BY SameContent
<1>2. LineIds(k)' = LineIds(k)
  BY DEF LineIds
<1>3. Settled(k)' => Settled(k)
  BY DEF Settled, Synced
<1> QED BY <1>1, <1>2, <1>3 DEF Exact

(* An edited or unsent row keeps its line from being settled.              *)
LEMMA UnsettledIsExact ==
  ASSUME NEW k \in Tickets,
         Line(k)' # {} => \E i \in Line(k)' : rows'[i].tempo = Null \/ rows'[i].dirty
  PROVE  Exact(k)'
BY DEF Exact, Settled, Synced

LEMMA MarkedIsUnsettled ==
  ASSUME NEW b \in Row
  PROVE  MarkDirty(b).tempo = Null \/ MarkDirty(b).dirty
BY DEF MarkDirty, Row, Synced

-----------------------------------------------------------------------------
(* The steps of the daemon's run. *)

Others == UNCHANGED <<rows, lastId, line, tempo, del>>

LEMMA ExactButForRun ==
  ASSUME ExactInv, Others, RunSendsLine(sync[Daemon])'
  PROVE  ExactInv'
<1>1. /\ Live' = Live
      /\ \A k \in Tickets : Line(k)' = Line(k)
  BY DEF Others, Live, Line
<1>2. \A k \in Tickets : Exact(k)'
  BY <1>1, UntouchedIsExact DEF ExactInv, Others
<1>3. RowsInOrder' /\ OneWorklogALine' /\ OwnTextsThere' /\ del' = NoDelete
  BY <1>1 DEF ExactInv, Others, RowsInOrder, OneWorklogALine, OwnTextsThere, Synced
<1> QED BY <1>2, <1>3 DEF ExactInv

LEMMA RunTyped ==
  ASSUME Inv
  PROVE  /\ sync \in [Syncers -> Run] /\ Daemon \in Syncers /\ sync[Daemon] \in Run
         /\ sync[Daemon].at \in {"check", "send", "reply"} =>
              sync[Daemon].entry \in Worklog /\ sync[Daemon].entry.ticket \in Tickets
BY SyncAssumption DEF Inv, TypeOK, GoodRun, Worklog

(* Between groups, or on to the next one, the run holds nothing.           *)
LEMMA BetweenGroupsExact ==
  ASSUME Inv, ExactInv,
         \/ Begin(Daemon) \/ FoundInTempo(Daemon) \/ Finish(Daemon)
         \/ Refuse(Daemon) \/ Abort(Daemon)
  PROVE  ExactInv'
<1>1. Others
  BY DEF Begin, FoundInTempo, Finish, Refuse, Abort, Unsent, Others
<1>2. /\ sync'[Daemon].legacy = Null
      /\ sync'[Daemon].at \notin {"check", "send", "reply"}
  <2>0. sync[Daemon].legacy = Null
    BY DEF ExactInv, RunSendsLine
  <2>1. CASE Begin(Daemon)
    <3>1. sync'[Daemon] = [Idle EXCEPT !.at = "groups",
                             !.todo = [i \in Blocks |->
                               IF Eligible(i) /\ rows[i].ticket # Null THEN rows[i] ELSE Null]]
      BY <2>1, RunTyped DEF Begin
    <3> QED BY <3>1 DEF Idle
  <2>2. CASE FoundInTempo(Daemon)
    <3>1. sync'[Daemon] = [Idle EXCEPT !.at = "groups", !.todo = sync[Daemon].todo]
      BY <2>2, RunTyped DEF FoundInTempo
    <3> QED BY <3>1 DEF Idle
  <2>3. CASE Finish(Daemon) \/ Abort(Daemon)
    <3>1. sync'[Daemon] = Idle
      BY <2>3, RunTyped DEF Finish, Abort
    <3> QED BY <3>1 DEF Idle
  <2>4. CASE Refuse(Daemon)
    <3>1. sync'[Daemon] = NextGroup(Daemon)
      BY <2>4, RunTyped DEF Refuse
    <3> QED BY <2>0, <3>1, RunTyped DEF NextGroup, Run
  <2> QED BY <2>1, <2>2, <2>3, <2>4
<1> QED BY <1>1, <1>2, ExactButForRun DEF RunSendsLine

LEMMA PassOverExact ==
  ASSUME Inv, ExactInv, NEW k \in Tickets, SkipGroup(Daemon, k) \/ Unresolved(Daemon, k)
  PROVE  ExactInv'
<1>1. Others /\ sync[Daemon].at = "groups" /\ sync[Daemon].legacy = Null
  BY DEF SkipGroup, Unresolved, AtGroup, Unsent, Others
<1>2. sync'[Daemon] = [sync[Daemon] EXCEPT !.todo = Without(@, Waiting(Daemon, k))]
  BY RunTyped DEF SkipGroup, Unresolved
<1>3. sync'[Daemon].legacy = Null /\ sync'[Daemon].at = "groups"
  BY <1>1, <1>2, RunTyped DEF Run
<1> QED BY <1>1, <1>3, ExactButForRun DEF RunSendsLine

LEMMA NotFoundExact ==
  ASSUME Inv, ExactInv, NotFound(Daemon)
  PROVE  ExactInv'
<1>1. Others /\ sync[Daemon].at = "check"
  BY DEF NotFound, Unsent, Others
<1>2. sync'[Daemon] = [sync[Daemon] EXCEPT !.at = "send"]
  BY RunTyped DEF NotFound
<1>3. PICK k \in Tickets : k = sync[Daemon].entry.ticket
  BY <1>1, RunTyped
<1>4. Line(k)' = Line(k) /\ LineIds(k)' = LineIds(k)
  BY <1>1 DEF Others, Live, Line, LineIds
<1>5. Content(k)' = Content(k)
  BY <1>1, <1>4, SameContent DEF Others
<1>6. RunSendsLine(sync[Daemon])'
  BY <1>1, <1>2, <1>3, <1>4, <1>5, RunTyped DEF ExactInv, RunSendsLine, Run
<1> QED BY <1>1, <1>6, ExactButForRun

LEMMA OneIdALine ==
  ASSUME Inv, ExactInv, NEW k \in Tickets
  PROVE  ~MixedLegacy(k)
<1>1. \A v, w \in LineIds(k) : v = w
  BY DEF LineIds, Line, ExactInv, OneWorklogALine, Synced
<1>2. CASE LineIds(k) = {}
  BY <1>2, FS_EmptySet DEF MixedLegacy
<1>3. CASE LineIds(k) # {}
  <2>1. PICK w : LineIds(k) = {w}
    BY <1>1, <1>3
  <2> QED BY <2>1, FS_Singleton DEF MixedLegacy
<1> QED BY <1>2, <1>3

LEMMA TakeGroupExact ==
  ASSUME Inv, ExactInv, NEW k \in Tickets, TakeGroup(Daemon, k)
  PROVE  ExactInv'
<1> DEFINE existing == IF AllUnsynced(k) THEN Null ELSE CHOOSE w \in LineIds(k) : TRUE
           todo == Without(sync[Daemon].todo, Waiting(Daemon, k))
           at == IF AllUnsynced(k) THEN "check" ELSE "send"
           c == Content(k)
           r == [sync[Daemon] EXCEPT !.at = at, !.todo = todo, !.ids = Line(k),
                                     !.existing = existing, !.entry = c]
<1>1. Others /\ sync'[Daemon] = r /\ sync[Daemon].legacy = Null
  BY RunTyped DEF TakeGroup, AtGroup, Unsent, Others
<1>2. LineIds(k) = {existing} \ {Null}
  <2>1. CASE AllUnsynced(k)
    BY <2>1 DEF AllUnsynced
  <2>2. CASE ~AllUnsynced(k)
    <3>1. PICK w : LineIds(k) = {w}
      BY <2>2, OneId, OneIdALine
    <3> QED BY <2>2, <3>1 DEF LineIds
  <2> QED BY <2>1, <2>2
<1>3. Line(k)' = Line(k) /\ LineIds(k)' = LineIds(k)
  BY <1>1 DEF Others, Live, Line, LineIds
<1>4. Content(k)' = c
  BY <1>1, <1>3, SameContent DEF Others
<1>5. c.ticket = k
  BY DEF Content
<1>6. /\ r.legacy = Null /\ r.at = at /\ at \in {"check", "send"} /\ r.entry = c
      /\ r.ids = Line(k) /\ r.existing = existing /\ (at = "check" => existing = Null)
  <2> HIDE DEF c, todo
  <2> QED BY <1>1, RunTyped DEF Run
<1> HIDE DEF r, c, existing, at
<1>7. RunSendsLine(sync[Daemon])'
  BY <1>1, <1>2, <1>3, <1>4, <1>5, <1>6 DEF RunSendsLine
<1> QED BY <1>1, <1>7, ExactButForRun

(* No group has several ids, so none is sent block by block.               *)
LEMMA NoLegacySends ==
  ASSUME Inv, ExactInv, NEW i \in Blocks
  PROVE  ~TakeLegacy(Daemon, i)
<1> SUFFICES ASSUME TakeLegacy(Daemon, i) PROVE FALSE
  OBVIOUS
<1>1. sync[Daemon].todo[i].ticket \in Tickets
  BY SyncAssumption DEF TakeLegacy, Inv, GoodRun
<1>2. sync[Daemon].legacy = Null
  BY DEF ExactInv, RunSendsLine
<1> QED BY <1>1, <1>2, OneIdALine, NullAssumption DEF TakeLegacy

-----------------------------------------------------------------------------
(* The steps that write to one line, to its worklog or to its rows.        *)

SameLines == UNCHANGED <<rows, lastId, line, del>>

LEMMA SameLinesStay ==
  ASSUME SameLines
  PROVE  /\ Live' = Live
         /\ \A k \in Tickets : /\ Line(k)' = Line(k) /\ LineIds(k)' = LineIds(k)
                               /\ Content(k)' = Content(k)
         /\ ExactInv => RowsInOrder' /\ OneWorklogALine' /\ OwnTextsThere' /\ del' = NoDelete
<1>1. Live' = Live
  BY DEF SameLines, Live
<1>2. \A k \in Tickets : Line(k)' = Line(k) /\ LineIds(k)' = LineIds(k)
  BY <1>1 DEF SameLines, Line, LineIds
<1>3. \A k \in Tickets : Content(k)' = Content(k)
  BY <1>2, SameContent DEF SameLines
<1>4. ExactInv => RowsInOrder' /\ OneWorklogALine' /\ OwnTextsThere' /\ del' = NoDelete
  BY <1>1 DEF ExactInv, SameLines, RowsInOrder, OneWorklogALine, OwnTextsThere, Synced
<1> QED BY <1>1, <1>2, <1>3, <1>4

LEMMA IdsAreOwn ==
  ASSUME Inv, NEW k \in Tickets
  PROVE  LineIds(k) \subseteq 1 .. issued
BY DEF Inv, GoodRows, LineIds, Line, Live, OwnIds

LEMMA IssuedIsNew ==
  ASSUME Inv
  PROVE  issued \in Nat /\ issued + 1 \notin 1 .. issued /\ issued + 1 # Null
<1>1. issued \in Nat
  BY SyncAssumption DEF Inv, TypeOK
<1> QED BY <1>1, NullAssumption

LEMMA SendExact ==
  ASSUME Inv, ExactInv, sync[Daemon].at \in {"check", "send"}, NEW k \in Tickets,
         k = sync[Daemon].entry.ticket
  PROVE  /\ sync[Daemon].entry = Content(k) /\ sync[Daemon].ids = Line(k)
         /\ LineIds(k) = {sync[Daemon].existing} \ {Null}
         /\ sync[Daemon].legacy = Null
BY DEF ExactInv, RunSendsLine

LEMMA PostExact ==
  ASSUME Inv, ExactInv, Post(Daemon)
  PROVE  ExactInv'
<1>1. /\ sync[Daemon].at = "send" /\ sync[Daemon].existing = Null
      /\ tempo' = [tempo EXCEPT ![issued + 1] = sync[Daemon].entry]
      /\ SameLines /\ issued < MaxWorklogs
  BY DEF Post, SameLines
<1>2. sync'[Daemon] = [sync[Daemon] EXCEPT !.at = "reply", !.got = issued + 1]
  BY RunTyped DEF Post
<1>3. PICK k \in Tickets : k = sync[Daemon].entry.ticket
  BY <1>1, RunTyped
<1>4. /\ sync[Daemon].entry = Content(k) /\ sync[Daemon].ids = Line(k)
      /\ LineIds(k) = {} /\ sync[Daemon].legacy = Null
  BY <1>1, <1>3, SendExact
<1>5. \A j \in Tickets : \A w \in LineIds(j) : tempo'[w] = tempo[w]
  BY <1>1, IdsAreOwn, IssuedIsNew
<1>6. \A j \in Tickets : Exact(j)'
  BY <1>1, <1>5, SameLinesStay, UntouchedIsExact DEF ExactInv, SameLines
<1>7. issued + 1 \in Worklogs
  BY <1>1, IssuedIsNew, SyncAssumption
<1>8. tempo'[issued + 1] = sync[Daemon].entry
  BY <1>1, <1>7 DEF Inv, TypeOK
<1>9. \A i \in Live : Synced(rows[i]) =>
         rows[i].tempo # issued + 1 /\ rows[i].ticket # k
  <2>1. \A i \in Live : i \in Blocks /\ rows[i].tempo \in (1 .. issued) \cup {Null}
    BY DEF Inv, GoodRows, OwnIds, Live
  <2>2. \A i \in Live : Synced(rows[i]) => rows[i].ticket # k
    BY <1>4 DEF LineIds, Line, Synced, ExactInv, RowsInOrder
  <2> QED BY <2>1, <2>2, IssuedIsNew DEF Synced
<1>10. LET r == sync'[Daemon]
       IN  /\ r.at = "reply" /\ r.got = issued + 1 /\ r.legacy = Null
           /\ r.entry = Content(k) /\ r.entry.ticket = k /\ r.ids = Line(k)
  BY <1>2, <1>3, <1>4, RunTyped DEF Run
<1>11. RunSendsLine(sync[Daemon])'
  <2>1. Content(k)' = Content(k) /\ Line(k)' = Line(k) /\ Live' = Live /\ rows' = rows
    BY <1>1, SameLinesStay DEF SameLines
  <2> QED BY <1>4, <1>8, <1>9, <1>10, <2>1, IssuedIsNew DEF RunSendsLine, Synced
<1> QED BY <1>1, <1>6, <1>11, SameLinesStay DEF ExactInv

LEMMA PutExact ==
  ASSUME Inv, ExactInv, PutWorklog(Daemon)
  PROVE  ExactInv'
<1> DEFINE w == sync[Daemon].existing
<1>1. /\ sync[Daemon].at = "send" /\ w # Null
      /\ tempo' = [tempo EXCEPT ![w] = sync[Daemon].entry]
      /\ SameLines
  BY DEF PutWorklog, SameLines
<1>2. sync'[Daemon] = [sync[Daemon] EXCEPT !.at = "reply", !.got = w]
  BY RunTyped DEF PutWorklog
<1>3. PICK k \in Tickets : k = sync[Daemon].entry.ticket
  BY <1>1, RunTyped
<1>4. /\ sync[Daemon].entry = Content(k) /\ sync[Daemon].ids = Line(k)
      /\ LineIds(k) = {w} /\ sync[Daemon].legacy = Null
  BY <1>1, <1>3, SendExact
<1>5. w \in Worklogs
  BY <1>1, RunTyped DEF Run
<1>6. PICK i \in Line(k) : rows[i].tempo = w
  BY <1>4 DEF LineIds
<1>7. \A j \in Live : Synced(rows[j]) => (rows[j].tempo = w <=> rows[j].ticket = k)
  BY <1>1, <1>6 DEF ExactInv, OneWorklogALine, Line, Synced
<1>8. tempo'[w] = Content(k)
  BY <1>1, <1>4, <1>5 DEF Inv, TypeOK
<1>9. ASSUME NEW j \in Tickets PROVE Exact(j)'
  <2>1. CASE j = k
    <3>1. \A v \in LineIds(k)' : tempo'[v] = Content(k)'
      BY <1>1, <1>4, <1>8, SameLinesStay
    <3> QED BY <2>1, <3>1 DEF Exact
  <2>2. CASE j # k
    <3>1. w \notin LineIds(j)
      BY <1>1, <1>7, <2>2 DEF LineIds, Line, Synced
    <3>2. \A v \in LineIds(j) : tempo'[v] = tempo[v]
      BY <1>1, <3>1
    <3>3. Line(j)' = Line(j) /\ line' = line /\ rows' = rows
      BY <1>1, SameLinesStay DEF SameLines
    <3>4. Exact(j)
      BY DEF ExactInv
    <3> QED BY <3>2, <3>3, <3>4, UntouchedIsExact
  <2> QED BY <2>1, <2>2
<1>10. LET r == sync'[Daemon]
       IN  /\ r.at = "reply" /\ r.got = w /\ r.legacy = Null
           /\ r.entry = Content(k) /\ r.entry.ticket = k /\ r.ids = Line(k)
  BY <1>2, <1>3, <1>4, RunTyped DEF Run
<1> HIDE DEF w
<1>11. RunSendsLine(sync[Daemon])'
  <2>1. Content(k)' = Content(k) /\ Line(k)' = Line(k) /\ Live' = Live /\ rows' = rows
    BY <1>1, SameLinesStay DEF SameLines
  <2> QED BY <1>1, <1>7, <1>8, <1>10, <2>1 DEF RunSendsLine, Synced
<1> QED BY <1>1, <1>9, <1>11, SameLinesStay DEF ExactInv

LEMMA WriteBackExact ==
  ASSUME Inv, ExactInv, NEW i \in Blocks, WriteBack(Daemon, i)
  PROVE  ExactInv'
<1> DEFINE got == sync[Daemon].got
<1>1. /\ sync[Daemon].at = "reply" /\ i \in sync[Daemon].ids
      /\ rows' = IF rows[i] = Null THEN rows ELSE [rows EXCEPT ![i] = SentAs(@, got)]
      /\ UNCHANGED <<lastId, line, tempo, del>>
  BY DEF WriteBack
<1>2. PICK k \in Tickets : k = sync[Daemon].entry.ticket
  BY <1>1, RunTyped
<1>3. /\ sync[Daemon].entry = Content(k) /\ sync[Daemon].ids \subseteq Line(k)
      /\ got # Null /\ tempo[got] = Content(k) /\ sync[Daemon].legacy = Null
      /\ \A j \in Live : Synced(rows[j]) => (rows[j].tempo = got <=> rows[j].ticket = k)
  BY <1>1, <1>2 DEF ExactInv, RunSendsLine
<1>4. i \in Line(k) /\ i \in Live /\ rows[i] \in Row /\ rows[i].ticket = k
  BY <1>1, <1>3 DEF Line, Live, Inv, TypeOK, Rows
<1>5. got \in Worklogs
  BY <1>3, RunTyped DEF Run
<1>6. /\ rows' = [rows EXCEPT ![i] = SentAs(rows[i], got)]
      /\ SentAs(rows[i], got) \in Row /\ rows \in Rows
  BY <1>1, <1>4, <1>5, EditTyped DEF Live, Inv, TypeOK
<1>7. LET b == rows'[i]
      IN  /\ b # Null /\ b.tempo = got /\ ~b.dirty /\ b.ticket = k
          /\ b.personal = rows[i].personal /\ b.start = rows[i].start
          /\ b.dur = rows[i].dur /\ b.text = rows[i].text
  BY <1>4, <1>6, NoRowIsNull DEF SentAs, Row, Rows
<1>8. \A j \in Blocks : j # i => rows'[j] = rows[j]
  BY <1>6 DEF Rows
<1>9. Live' = Live /\ \A j \in Tickets : Line(j)' = Line(j)
  <2>1. Live' = Live
    BY <1>4, <1>7, <1>8 DEF Live
  <2>2. \A j \in Live : rows'[j].ticket = rows[j].ticket /\ rows'[j].personal = rows[j].personal
    BY <1>4, <1>7, <1>8 DEF Live
  <2> QED BY <2>1, <2>2, SameRows
<1> HIDE DEF got
<1>10. Content(k)' = Content(k)
  BY <1>1, <1>7, <1>8, <1>9, SameContent DEF Line, Live
<1>11. RowsInOrder' /\ OwnTextsThere' /\ del' = NoDelete
  BY <1>1, <1>4, <1>7, <1>8, <1>9 DEF ExactInv, RowsInOrder, OwnTextsThere, Live
<1>12. \A j \in Live : Synced(rows'[j]) => (rows'[j].tempo = got <=> rows'[j].ticket = k)
  BY <1>3, <1>7, <1>8 DEF Live, Synced
<1>13. OneWorklogALine'
  <2>1. \A a, b \in Live : a # i /\ b # i /\ Synced(rows'[a]) /\ Synced(rows'[b]) =>
            (rows'[a].tempo = rows'[b].tempo <=> rows'[a].ticket = rows'[b].ticket)
    BY <1>8 DEF ExactInv, OneWorklogALine, Live
  <2> QED BY <1>7, <1>9, <1>12, <2>1 DEF OneWorklogALine
<1>14. ASSUME NEW j \in Tickets PROVE Exact(j)'
  <2>1. CASE j = k
    <3>1. LineIds(k)' \subseteq {got}
      BY <1>3, <1>9, <1>12 DEF LineIds, Line, Live, Synced
    <3>2. \A v \in LineIds(k)' : tempo'[v] = Content(k)'
      BY <1>1, <1>3, <1>10, <3>1
    <3> QED BY <2>1, <3>2 DEF Exact
  <2>2. CASE j # k
    <3>1. i \notin Line(j) /\ Line(j) \subseteq Blocks
      BY <1>4, <2>2 DEF Line, Live
    <3>2. \A a \in Line(j) : rows'[a] = rows[a]
      BY <1>8, <3>1
    <3>3. Exact(j) /\ Line(j)' = Line(j) /\ line' = line /\ tempo' = tempo
      BY <1>1, <1>9 DEF ExactInv
    <3> QED BY <3>2, <3>3, UntouchedIsExact
  <2> QED BY <2>1, <2>2
<1>15. RunSendsLine(sync[Daemon])'
  <2>1. CASE sync[Daemon].ids = {i}
    <3>1. sync'[Daemon] = NextGroup(Daemon)
      BY <2>1, RunTyped DEF WriteBack
    <3>2. sync'[Daemon].at = "groups" /\ sync'[Daemon].legacy = Null
      BY <1>3, <3>1, RunTyped DEF NextGroup, Run
    <3> QED BY <3>2 DEF RunSendsLine
  <2>2. CASE sync[Daemon].ids # {i}
    <3>1. sync'[Daemon] = [sync[Daemon] EXCEPT !.ids = sync[Daemon].ids \ {i}]
      BY <2>2, RunTyped DEF WriteBack
    <3>2. LET r == sync'[Daemon]
          IN  /\ r.at = "reply" /\ r.got = got /\ r.legacy = Null
              /\ r.entry = Content(k) /\ r.entry.ticket = k /\ r.ids \subseteq Line(k)
      BY <1>1, <1>2, <1>3, <3>1, RunTyped DEF Run, got
    <3> QED BY <1>1, <1>3, <1>9, <1>10, <1>12, <3>2 DEF RunSendsLine
  <2> QED BY <2>1, <2>2
<1> QED BY <1>11, <1>13, <1>14, <1>15 DEF ExactInv

-----------------------------------------------------------------------------
(* A write to the rows of one line that leaves it something to send.       *)

OneLineWritten(k) ==
  /\ Live' = Live /\ UNCHANGED <<lastId, tempo, del>>
  /\ \A i \in Live \ Line(k) : rows'[i] = rows[i]
  /\ \A i \in Line(k) : /\ rows'[i].ticket = rows[i].ticket
                        /\ rows'[i].personal = rows[i].personal
                        /\ rows'[i].tempo = rows[i].tempo
  /\ Line(k) # {} => \E i \in Line(k) : rows'[i].tempo = Null \/ rows'[i].dirty
  /\ \A j \in Tickets : j # k => line'[j] = line[j]
  /\ line'[k].manual => line'[k].text # Null

LEMMA OneLineExact ==
  ASSUME ExactInv, NEW k \in Tickets, OneLineWritten(k)
  PROVE  /\ \A j \in Tickets : Line(j)' = Line(j) /\ LineIds(j)' = LineIds(j)
         /\ RunSendsLine(sync[Daemon])' => ExactInv'
<1>1. \A i \in Live : /\ rows'[i].ticket = rows[i].ticket
                      /\ rows'[i].personal = rows[i].personal
                      /\ rows'[i].tempo = rows[i].tempo
  BY DEF OneLineWritten
<1>2. Live' = Live /\ UNCHANGED <<lastId, tempo, del>>
  BY DEF OneLineWritten
<1>3. \A j \in Tickets : Line(j)' = Line(j)
  BY <1>1, <1>2, SameRows
<1>4. \A j \in Tickets : LineIds(j)' = LineIds(j)
  BY <1>1, <1>2, <1>3 DEF LineIds, Line
<1>5. RowsInOrder' /\ OneWorklogALine' /\ del' = NoDelete
  BY <1>1, <1>2 DEF ExactInv, RowsInOrder, OneWorklogALine, Synced
<1>6. OwnTextsThere'
  BY DEF ExactInv, OwnTextsThere, OneLineWritten
<1>7. ASSUME NEW j \in Tickets PROVE Exact(j)'
  <2>1. CASE j = k
    BY <1>3, <2>1, UnsettledIsExact DEF OneLineWritten
  <2>2. CASE j # k
    <3>1. \A i \in Line(j) : rows'[i] = rows[i]
      BY <2>2 DEF OneLineWritten, Line
    <3>2. line'[j] = line[j] /\ Exact(j)
      BY <2>2 DEF OneLineWritten, ExactInv
    <3> QED BY <1>2, <1>3, <3>1, <3>2, UntouchedIsExact
  <2> QED BY <2>1, <2>2
<1> QED BY <1>3, <1>4, <1>5, <1>6, <1>7 DEF ExactInv

(* Storing a line leaves its rows where they are and marks the sent ones.  *)
LEMMA StoredIsWritten ==
  ASSUME Inv, NEW k \in Tickets, rows' = LineMarked(k), NEW stored,
         line' = [line EXCEPT ![k] = stored], stored.manual => stored.text # Null,
         UNCHANGED <<lastId, tempo, del>>
  PROVE  /\ OneLineWritten(k)
         /\ \A i \in Line(k) : /\ rows'[i].start = rows[i].start /\ rows'[i].dur = rows[i].dur
                               /\ rows'[i].text = rows[i].text
<1>1. \A i \in Line(k) : rows[i] \in Row
  BY DEF Line, Live, Inv, TypeOK, Rows
<1>2. \A i \in Line(k) : /\ rows'[i] = MarkDirty(rows[i]) /\ i \in Blocks
                         /\ MarkDirty(rows[i]) # Null
  BY <1>1, MarkTyped, NoRowIsNull DEF LineMarked, Line, Live
<1>3. \A i \in Blocks \ Line(k) : rows'[i] = rows[i]
  BY DEF LineMarked
<1>4. Live' = Live
  BY <1>2, <1>3 DEF Live, Line
<1>5. \A i \in Line(k) : LET b == MarkDirty(rows[i])
                         IN  /\ b.ticket = rows[i].ticket /\ b.personal = rows[i].personal
                             /\ b.tempo = rows[i].tempo /\ b.start = rows[i].start
                             /\ b.dur = rows[i].dur /\ b.text = rows[i].text
                             /\ b.tempo = Null \/ b.dirty
  BY <1>1, MarkedIsUnsettled DEF MarkDirty, Row
<1>6. line'[k] = stored /\ \A j \in Tickets : j # k => line'[j] = line[j]
  BY DEF Inv, TypeOK
<1> QED BY <1>2, <1>3, <1>4, <1>5, <1>6 DEF OneLineWritten, Live

LEMMA GenerateExact ==
  ASSUME Inv, ExactInv, NEW t \in Texts, Generate(Daemon, t)
  PROVE  ExactInv'
<1>1. sync[Daemon].at = "send" /\ sync[Daemon].entry.text \notin Texts
  BY DEF Generate
<1>2. PICK k \in Tickets : k = sync[Daemon].entry.ticket
  BY <1>1, RunTyped
<1>3. /\ sync[Daemon].entry = Content(k) /\ sync[Daemon].ids = Line(k)
      /\ LineIds(k) = {sync[Daemon].existing} \ {Null} /\ sync[Daemon].legacy = Null
  BY <1>1, <1>2, SendExact
<1>4. line[k].text = Null /\ ~line[k].manual
  <2>1. TextOf(k) \notin Texts
    BY <1>1, <1>3 DEF Content
  <2> QED BY <2>1 DEF TextOf, Inv, TypeOK, ExactInv, OwnTextsThere
<1> DEFINE stored == [line[k] EXCEPT !.text = t]
<1>5. /\ line' = [line EXCEPT ![k] = stored] /\ rows' = LineMarked(k)
      /\ UNCHANGED <<lastId, tempo, del>>
  BY <1>2, <1>4 DEF Generate
<1>6. stored.text = t /\ t # Null /\ stored.hours = line[k].hours
  BY NullAssumption DEF Inv, TypeOK
<1>7. sync'[Daemon] = [sync[Daemon] EXCEPT !.entry.text = t]
  BY RunTyped DEF Generate
<1>8. line'[k] = stored
  BY <1>5 DEF Inv, TypeOK
<1> HIDE DEF stored
<1>9. /\ OneLineWritten(k)
      /\ \A i \in Line(k) : /\ rows'[i].start = rows[i].start /\ rows'[i].dur = rows[i].dur
                            /\ rows'[i].text = rows[i].text
  BY <1>5, <1>6, StoredIsWritten
<1>10. Line(k)' = Line(k) /\ LineIds(k)' = LineIds(k)
  BY <1>9, OneLineExact
<1>11. Content(k)' = [Content(k) EXCEPT !.text = t]
  <2>1. {Covered(rows'[i]) : i \in Line(k)'} = {Covered(rows[i]) : i \in Line(k)}
    BY <1>9, <1>10 DEF Covered
  <2>2. Total(k)' = Total(k)
    BY <1>6, <1>8, <2>1 DEF Total
  <2>3. TextOf(k)' = t
    BY <1>6, <1>8 DEF TextOf
  <2> QED BY <2>2, <2>3 DEF Content
<1>12. LET r == sync'[Daemon]
       IN  /\ r.at = "send" /\ r.legacy = Null /\ r.existing = sync[Daemon].existing
           /\ r.entry = [sync[Daemon].entry EXCEPT !.text = t] /\ r.ids = Line(k)
  BY <1>1, <1>3, <1>7, RunTyped DEF Run
<1>13. LET r == sync'[Daemon]
       IN  /\ r.at = "send" /\ r.legacy = Null /\ r.entry = Content(k)' /\ r.entry.ticket = k
           /\ r.ids = Line(k)' /\ LineIds(k)' = {r.existing} \ {Null}
  <2>1. Content(k).ticket = k
    BY DEF Content
  <2>2. [Content(k) EXCEPT !.text = t].ticket = k
    BY <2>1 DEF Content
  <2> QED BY <1>3, <1>10, <1>11, <1>12, <2>2
<1>14. RunSendsLine(sync[Daemon])'
  BY <1>13 DEF RunSendsLine
<1> QED BY <1>9, <1>14, OneLineExact

(* What the owner writes while no run holds the lock. *)
LEMMA IdleSends ==
  ASSUME sync'[Daemon] = Idle
  PROVE  RunSendsLine(sync[Daemon])'
BY DEF RunSendsLine, Idle

LEMMA StoreLineExact ==
  ASSUME Inv, ExactInv, NEW k \in Tickets,
         \/ \E t \in Texts \cup {Null} : SetText(k, t)
         \/ \E h \in Hours \cup {Null} : SetHours(k, h)
  PROVE  ExactInv'
<1>1. line[k] \in [text : Texts \cup {Null}, manual : BOOLEAN, hours : Hours \cup {Null}]
  BY DEF Inv, TypeOK
<1>2. PICK stored : StoreLine(k, stored) /\ (stored.manual => stored.text # Null)
  <2>1. ASSUME NEW t \in Texts \cup {Null}, SetText(k, t)
        PROVE  \E stored : StoreLine(k, stored) /\ (stored.manual => stored.text # Null)
    <3> DEFINE stored == [line[k] EXCEPT !.text = t, !.manual = t # Null]
    <3>1. stored.manual => stored.text # Null
      BY <1>1
    <3>2. StoreLine(k, stored)
      BY <2>1 DEF SetText
    <3> HIDE DEF stored
    <3> QED BY <3>1, <3>2
  <2>2. ASSUME NEW h \in Hours \cup {Null}, SetHours(k, h)
        PROVE  \E stored : StoreLine(k, stored) /\ (stored.manual => stored.text # Null)
    <3> DEFINE stored == [line[k] EXCEPT !.hours = h]
    <3>1. stored.manual => stored.text # Null
      BY <1>1 DEF ExactInv, OwnTextsThere
    <3>2. StoreLine(k, stored)
      BY <2>2 DEF SetHours
    <3> HIDE DEF stored
    <3> QED BY <3>1, <3>2
  <2> QED BY <2>1, <2>2
<1>3. /\ line' = [line EXCEPT ![k] = stored] /\ rows' = LineMarked(k)
      /\ UNCHANGED <<lastId, tempo, del>> /\ sync'[Daemon] = Idle
  BY <1>2 DEF StoreLine, Unlocked
<1> QED BY <1>2, <1>3, StoredIsWritten, OneLineExact, IdleSends

(* An edited row is unsent or marked; its line is not settled then.        *)
LEMMA EditedIsUnsettled ==
  ASSUME NEW b \in Row
  PROVE  /\ \A d : LET r == Resized(b, d) IN r.tempo = Null \/ r.dirty
         /\ \A t : LET r == Reworded(b, t) IN r.tempo = Null \/ r.dirty
         /\ \A k : LET r == Assigned(b, k) IN r.tempo = Null \/ r.dirty
BY DEF Resized, Reworded, Assigned, MarkDirty, Synced, Row

LEMMA EditExact ==
  ASSUME Inv, ExactInv, LinesKeepRows, NEW i \in Live, NEW row \in Row,
         RowWritten(i, row), row.tempo = rows[i].tempo, row.tempo = Null \/ row.dirty
  PROVE  ExactInv'
<1> DEFINE k == rows[i].ticket
<1>1. /\ rows' = [rows EXCEPT ![i] = row] /\ UNCHANGED <<lastId, line, tempo, del>>
      /\ sync'[Daemon] = Idle
  BY DEF RowWritten, Unlocked
<1>2. i \in Blocks /\ rows'[i] = row /\ row # Null
  BY <1>1, NoRowIsNull DEF Live, Inv, TypeOK, Rows
<1>3. \A j \in Blocks \ {i} : rows'[j] = rows[j]
  BY <1>1 DEF Inv, TypeOK, Rows
<1>4. Live' = Live
  BY <1>2, <1>3 DEF Live
<1>5. rows[i] \in Row /\ k \in Tickets /\ i \in Line(k)
  BY <1>2 DEF Inv, TypeOK, Rows, Row, Live, Line, ExactInv, RowsInOrder
<1>6. rows'[i].ticket = k /\ rows'[i].personal = rows[i].personal
  BY DEF LinesKeepRows
<1> HIDE DEF k
<1>7. OneLineWritten(k)
  BY <1>1, <1>2, <1>3, <1>4, <1>5, <1>6 DEF OneLineWritten, Live, Line, ExactInv, OwnTextsThere
<1> QED BY <1>1, <1>5, <1>7, OneLineExact, IdleSends

LEMMA EditsExact ==
  ASSUME Inv, ExactInv, LinesKeepRows, NEW i \in Blocks,
         \/ \E d \in Minutes : Resize(i, d)
         \/ \E t \in Texts : Reword(i, t)
         \/ \E k \in Tickets : Reassign(i, k)
         \/ \E p \in BOOLEAN : SetPersonal(i, p)
  PROVE  ExactInv'
<1>1. i \in Live
  BY DEF Resize, Reword, Reassign, SetPersonal, Live
<1>2. rows[i] \in Row
  BY <1>1 DEF Inv, TypeOK, Rows, Live
<1>3. ASSUME NEW d \in Minutes, Resize(i, d) PROVE ExactInv'
  BY <1>1, <1>2, <1>3, EditTyped, EditedIsUnsettled, EditExact, SyncAssumption DEF Resize
<1>4. ASSUME NEW t \in Texts, Reword(i, t) PROVE ExactInv'
  BY <1>1, <1>2, <1>4, EditTyped, EditedIsUnsettled, EditExact DEF Reword
<1>5. ASSUME NEW k \in Tickets, Reassign(i, k) PROVE ExactInv'
  BY <1>1, <1>2, <1>5, EditTyped, EditedIsUnsettled, EditExact DEF Reassign
<1>6. ASSUME NEW p \in BOOLEAN, SetPersonal(i, p) PROVE ExactInv'
  <2>1. /\ rows' = [rows EXCEPT ![i] = [rows[i] EXCEPT !.personal = p]]
        /\ UNCHANGED <<lastId, line, tempo, del>> /\ sync'[Daemon] = Idle
    BY <1>6 DEF SetPersonal, RowWritten, Unlocked
  <2>2. rows[i].personal = p
    BY <1>1, <1>2, <2>1 DEF LinesKeepRows, Row, Inv, TypeOK, Rows
  <2>3. [rows[i] EXCEPT !.personal = p] = rows[i]
    BY <1>2, <2>2 DEF Row
  <2>4. rows' = rows
    BY <2>1, <2>3 DEF Inv, TypeOK, Rows
  <2> QED BY <2>1, <2>4, IdleSends, ExactButForRun DEF Others
<1> QED BY <1>3, <1>4, <1>5, <1>6

LEMMA LogTimeExact ==
  ASSUME Inv, ExactInv, NEW k \in Tickets, NEW d \in Minutes, NEW t \in Texts, LogTime(k, d, t)
  PROVE  ExactInv'
<1> DEFINE row == [start |-> 100 * lastId, end |-> 100 * lastId + d, dur |-> d, ticket |-> k,
                   origin |-> "manual", text |-> t, by |-> "manual", described |-> d,
                   tempo |-> Null, dirty |-> FALSE, personal |-> FALSE, ignored |-> FALSE,
                   exported |-> FALSE, events |-> {}]
           n == lastId + 1
<1>1. /\ rows' = [rows EXCEPT ![n] = row] /\ lastId' = n
      /\ UNCHANGED <<line, tempo, del>> /\ sync'[Daemon] = Idle
  BY DEF LogTime, Unlocked
<1>2. lastId \in Nat /\ n \in Blocks /\ n \notin Live /\ \A i \in Live : i <= n
  BY SyncAssumption DEF LogTime, Inv, TypeOK, Blocks, Live, ExactInv, RowsInOrder
<1>3. row \in Row
  <2>1. d \in Nat /\ 100 * lastId \in Nat /\ 100 * lastId + d \in Nat
    BY <1>2, SyncAssumption
  <2> QED BY <2>1 DEF Row, Origins, Authors
<1>4. row # Null /\ row.ticket = k /\ ~row.personal /\ row.tempo = Null
  BY <1>3, NoRowIsNull
<1> HIDE DEF row, n
<1>5. rows'[n] = row /\ \A i \in Blocks \ {n} : rows'[i] = rows[i]
  BY <1>1, <1>2 DEF Inv, TypeOK, Rows
<1>6. Live' = Live \cup {n} /\ \A i \in Live : i \in Blocks \ {n}
  BY <1>2, <1>4, <1>5 DEF Live
<1>7. RowsInOrder'
  BY <1>1, <1>2, <1>4, <1>5, <1>6, NullAssumption DEF ExactInv, RowsInOrder, n
<1>8. OneWorklogALine'
  BY <1>4, <1>5, <1>6 DEF ExactInv, OneWorklogALine, Synced
<1>9. ASSUME NEW j \in Tickets PROVE Exact(j)'
  <2>1. CASE j = k
    <3>1. n \in Line(k)' /\ rows'[n].tempo = Null
      BY <1>4, <1>5, <1>6 DEF Line
    <3> QED BY <2>1, <3>1, UnsettledIsExact
  <2>2. CASE j # k
    <3>1. Line(j)' = Line(j) /\ \A i \in Line(j) : rows'[i] = rows[i]
      BY <1>4, <1>5, <1>6, <2>2 DEF Line
    <3>2. Exact(j) /\ line' = line /\ tempo' = tempo
      BY <1>1 DEF ExactInv
    <3> QED BY <3>1, <3>2, UntouchedIsExact
  <2> QED BY <2>1, <2>2
<1> QED BY <1>1, <1>7, <1>8, <1>9, IdleSends DEF ExactInv, OwnTextsThere

(* The owner's own entries get ids no row has. *)
LEMMA EnterByHandExact ==
  ASSUME Inv, ExactInv, NEW k \in Tickets, NEW m \in Minutes, NEW t \in Texts,
         EnterByHand(k, m, t)
  PROVE  ExactInv'
<1>1. /\ SameLines /\ sync' = sync
      /\ \A w \in 1 .. issued : tempo'[w] = tempo[w]
  BY IssuedIsNew DEF EnterByHand, SameLines, Inv, TypeOK
<1>2. \A j \in Tickets : \A w \in LineIds(j) : tempo'[w] = tempo[w]
  BY <1>1, IdsAreOwn
<1>3. \A j \in Tickets : Exact(j)'
  BY <1>1, <1>2, SameLinesStay, UntouchedIsExact DEF ExactInv, SameLines
<1>4. CASE sync[Daemon].at \notin {"check", "send", "reply"}
  BY <1>1, <1>3, <1>4, SameLinesStay DEF ExactInv, RunSendsLine
<1>5. CASE sync[Daemon].at \in {"check", "send", "reply"}
  <2>1. PICK j \in Tickets : j = sync[Daemon].entry.ticket
    BY <1>5, RunTyped
  <2>2. sync[Daemon].got \in (1 .. issued) \cup {Null}
    BY RunTyped DEF Inv, GoodRun, OwnIds
  <2>3. Content(j)' = Content(j) /\ Line(j)' = Line(j) /\ LineIds(j)' = LineIds(j)
        /\ Live' = Live /\ rows' = rows
    BY <1>1, SameLinesStay DEF SameLines
  <2>4. RunSendsLine(sync[Daemon])
    BY DEF ExactInv
  <2>5. RunSendsLine(sync[Daemon])'
    BY <1>1, <2>1, <2>2, <2>3, <2>4 DEF RunSendsLine, Synced
  <2> QED BY <1>1, <1>3, <2>5, SameLinesStay DEF ExactInv
<1> QED BY <1>4, <1>5

LEMMA NextExact ==
  ASSUME Syncers = {Daemon}, Inv, ExactInv, LinesKeepRows, Next
  PROVE  ExactInv'
<1>1. CASE SyncStep(Daemon)
  BY <1>1, BetweenGroupsExact, NotFoundExact, PassOverExact, TakeGroupExact, GenerateExact,
     PostExact, PutExact, NoLegacySends, WriteBackExact DEF SyncStep
<1>2. CASE Refuse(Daemon) \/ Abort(Daemon) \/ \E k \in Tickets : Unresolved(Daemon, k)
  BY <1>2, BetweenGroupsExact, PassOverExact
<1>3. CASE OwnerStep
  <2>1. \A i \in Blocks, credentials \in BOOLEAN : ~DeleteFetch(i, credentials)
    BY DEF DeleteFetch, LinesKeepRows, NoDelete
  <2> QED BY <1>3, <2>1, EditsExact, LogTimeExact, StoreLineExact, EnterByHandExact
          DEF OwnerStep
<1>4. ~DeleteStep
  BY DEF DeleteStep, DeleteRemote, DeleteLocal, DeleteAborts, ExactInv, NoDelete
<1> QED BY <1>1, <1>2, <1>3, <1>4 DEF Next

LEMMA InitExact == Init => ExactInv
<1> SUFFICES ASSUME Init PROVE ExactInv
  OBVIOUS
<1>1. Live = {} /\ \A k \in Tickets : Line(k) = {}
  BY DEF Init, NoRows, Live, Line
<1>2. sync[Daemon] = Idle
  BY SyncAssumption DEF Init
<1>3. RunSendsLine(sync[Daemon])
  BY <1>2 DEF RunSendsLine, Idle
<1> QED BY <1>1, <1>3 DEF Init, ExactInv, RowsInOrder, OneWorklogALine, OwnTextsThere, NoLine,
                          Exact, Settled

(* Where only the daemon syncs and no row is deleted, made personal or     *)
(* moved to another ticket, a line with nothing left to send is in Tempo   *)
(* exactly as it is here: whatever is edited between runs, whatever Tempo  *)
(* refuses, loses or answers late and wherever a run dies.  Without the    *)
(* second condition the code does not keep it: the row that leaves a line  *)
(* takes its minutes with it, and nothing marks the rest (README, known    *)
(* deviation 6).                                                           *)
(* (tempo.rs:3, finish_write, write-back)                                  *)
THEOREM SettledLinesAreExact ==
  ASSUME Syncers = {Daemon}
  PROVE  Spec /\ [][LinesKeepRows]_vars => []SettledLineIsExact
<1>1. Inv /\ ExactInv /\ [Next]_vars /\ [LinesKeepRows]_vars => ExactInv'
  <2>1. ASSUME Inv, ExactInv, UNCHANGED vars PROVE ExactInv'
    <3>1. Others /\ sync' = sync
      BY <2>1 DEF vars, Others
    <3>2. SameLines /\ tempo' = tempo
      BY <3>1 DEF Others, SameLines
    <3>3. CASE sync[Daemon].at \notin {"check", "send", "reply"}
      BY <2>1, <3>1, <3>3, ExactButForRun DEF ExactInv, RunSendsLine
    <3>4. CASE sync[Daemon].at \in {"check", "send", "reply"}
      <4>1. PICK j \in Tickets : j = sync[Daemon].entry.ticket
        BY <2>1, <3>4, RunTyped
      <4>2. Content(j)' = Content(j) /\ Line(j)' = Line(j) /\ LineIds(j)' = LineIds(j)
            /\ Live' = Live
        BY <3>2, SameLinesStay
      <4>3. RunSendsLine(sync[Daemon])
        BY <2>1 DEF ExactInv
      <4>4. RunSendsLine(sync[Daemon])'
        BY <3>1, <3>2, <4>1, <4>2, <4>3 DEF RunSendsLine, Synced, SameLines
      <4> QED BY <2>1, <3>1, <4>4, ExactButForRun
    <3> QED BY <3>3, <3>4
  <2> QED BY <2>1, NextExact
<1>2. ExactInv => SettledLineIsExact
  BY DEF ExactInv, Exact, SettledLineIsExact
<1> QED BY <1>1, <1>2, InitExact, SpecInv, PTL DEF Spec
=============================================================================
