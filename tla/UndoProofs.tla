----------------------------- MODULE UndoProofs -----------------------------
(***************************************************************************)
(* Proofs about a day's whole behaviour, from the histories and the step   *)
(* properties of MCBlockJournal: undo walks the owner's own changes back   *)
(* one at a time and never links an event twice, as the newest journal     *)
(* entries each lead from one table the day had to the next; and splits    *)
(* and merges only move the day's minutes.                                 *)
(***************************************************************************)
EXTENDS MCBlockJournal, BlockJournalProofs, SequenceTheorems

-----------------------------------------------------------------------------
(* A day just built is good, and the bounded runs only take BlockJournal's *)
(* own steps.                                                              *)

LEMMA MCStarts == MCInit => IInv /\ FreshIds
<1> SUFFICES ASSUME MCInit PROVE IInv /\ FreshIds
    OBVIOUS
<1> DEFINE day == Build(collected)
<1>1. /\ collected \in SUBSET Events
      /\ day \in Seq(Built) /\ Len(day) \in 0 .. MaxId /\ DOMAIN day = 1 .. Len(day)
    BY BuildAssumption, DayAssumption DEF MCInit
<1>2. /\ nextId = Len(day) + 1 /\ journal = <<>>
      /\ blocks = [i \in Ids |-> IF i \in DOMAIN day THEN FreshRow(day[i]) ELSE Null]
    BY DEF MCInit
<1>3. blocks \in GoodTable
    <2>1. \A i \in DOMAIN day : FreshRow(day[i]) \in GoodRow
        BY <1>1, FreshRowGood
    <2> QED
        BY <1>2, <2>1 DEF GoodTable
<1>4. nextId \in 1 .. MaxId + 1 /\ Below(blocks, nextId)
    BY <1>1, <1>2, BoundsAssumption DEF Below, RowsOf
<1> QED
    BY <1>1, <1>2, <1>3, <1>4 DEF IInv, RowsAreGood, FreshIds

LEMMA MCSteps == MCNext => Next
BY DEF MCNext, MCOwner, MCOther, MCExport, Next, UndoLast, OtherWriter, Acts, Late

LEMMA MCInvariant == MCSpec => [](IInv /\ FreshIds)
<1>1. IInv /\ FreshIds /\ [MCNext]_mcVars => IInv' /\ FreshIds'
    <2> SUFFICES ASSUME IInv, FreshIds, [MCNext]_mcVars PROVE IInv' /\ FreshIds'
        OBVIOUS
    <2>1. [Next]_vars
        BY MCSteps DEF mcVars
    <2> QED
        BY <2>1, NextFresh, NextGood
<1> QED
    BY <1>1, MCStarts, PTL DEF MCSpec

-----------------------------------------------------------------------------
(* An entry of the journal between two tables of the day: taking it back   *)
(* from the later one, or from one that differs from it in the markers     *)
(* only, is not refused as stale and yields the earlier.                   *)

SameRow(a, b) == Comparable(a) = Comparable(b) /\ a.events = b.events

SameAt(s, t, i) == (s[i] = Null <=> t[i] = Null) /\ (s[i] # Null => SameRow(s[i], t[i]))

Same(s, t) == \A i \in Ids : SameAt(s, t, i)

Linked(t, entry, u) ==
    /\ \A i \in RowsOf(entry.before) :
          /\ t[i] # Null /\ SameRow(entry.before[i], t[i])
          /\ u[i] = Null <=> entry.after[i] = Null
          /\ u[i] # Null => Comparable(u[i]) = Comparable(entry.after[i])
    /\ \A i \in Ids \ RowsOf(entry.before) :
          IF i \in entry.created THEN t[i] = Null ELSE SameAt(t, u, i)

LEMMA SameIsButMarkers ==
    ASSUME NEW s, NEW t, Same(s, t)
    PROVE  SameButMarkers(s, t)
BY DEF Same, SameAt, SameRow, SameButMarkers, RowsOf

LEMMA LinkedToSame ==
    ASSUME NEW t, NEW t2, NEW entry, NEW u, NEW u2, Linked(t, entry, u), Same(t2, t), Same(u, u2)
    PROVE  Linked(t2, entry, u2)
BY DEF Linked, Same, SameAt, SameRow, RowsOf

LEMMA MarkersAside ==
    ASSUME NEW b \in Row, NEW w, NEW x
    PROVE  /\ SameRow([b EXCEPT !.tempo = w, !.exported = x], b)
           /\ SameRow([b EXCEPT !.tempo = w], b)
BY DEF SameRow, Comparable, Row

(* Undo of the newest entry. *)
LEMMA RestoredIsSame ==
    ASSUME IInv, NEW t, NEW entry \in GoodEntry, Linked(t, entry, blocks)
    PROVE  ~Stale(entry) /\ Same(Restored(entry), t)
<1>1. ~Stale(entry)
    BY DEF Linked, Stale, Live, RowsOf
<1>2. ASSUME NEW i \in Ids PROVE SameAt(Restored(entry), t, i)
    <2>1. CASE i \in RowsOf(entry.before)
        <3> DEFINE b == entry.before[i]
        <3>1. b \in Row
            BY <2>1 DEF GoodEntry, GoodTable, GoodRow, RowsOf
        <3>2. Restored(entry)[i] = IF i \in Live
                  THEN [b EXCEPT !.tempo = blocks[i].tempo, !.exported = blocks[i].exported]
                  ELSE [b EXCEPT !.tempo = Null]
            BY <2>1 DEF Restored, Rewritten
        <3>3. SameRow(Restored(entry)[i], b)
            <4> DEFINE row == blocks[i]
            <4>1. Restored(entry)[i] = [b EXCEPT !.tempo = row.tempo, !.exported = row.exported]
                  \/ Restored(entry)[i] = [b EXCEPT !.tempo = Null]
                BY <3>2
            <4>2. SameRow([b EXCEPT !.tempo = row.tempo, !.exported = row.exported], b)
                BY <3>1, MarkersAside
            <4>3. SameRow([b EXCEPT !.tempo = Null], b)
                BY <3>1, MarkersAside
            <4> HIDE DEF b, row
            <4> QED BY <4>1, <4>2, <4>3
        <3>4. Restored(entry)[i] # Null
            <4>1. i \in Live => blocks[i] \in Row
                BY LiveIsGood DEF GoodRow
            <4> HIDE DEF b
            <4>2. Restored(entry)[i] \in Row
                BY <3>1, <3>2, <4>1 DEF Row
            <4> QED BY <4>2, NoRowIsNull
        <3>5. t[i] # Null /\ SameRow(b, t[i])
            BY <2>1 DEF Linked
        <3> HIDE DEF b
        <3> QED BY <3>3, <3>4, <3>5 DEF SameAt, SameRow
    <2>2. CASE i \notin RowsOf(entry.before)
        <3>1. Restored(entry)[i] = IF i \in entry.created THEN Null ELSE blocks[i]
            BY <2>2 DEF Restored
        <3>2. IF i \in entry.created THEN t[i] = Null ELSE SameAt(t, blocks, i)
            BY <2>2 DEF Linked
        <3> QED BY <3>1, <3>2 DEF SameAt, SameRow
    <2> QED BY <2>1, <2>2
<1> QED BY <1>1, <1>2 DEF Same

(* Every change of the owner's is journaled with the rows it touches; the  *)
(* rows it creates are new.                                                *)
Journals(touched, created) ==
    /\ touched \subseteq Live /\ created \subseteq Ids /\ created \cap Live = {}
    /\ Change(touched, blocks', created)
    /\ \A i \in Ids \ (touched \cup created) : blocks'[i] = blocks[i]

LEMMA OwnerJournals ==
    ASSUME IInv, FreshIds, OwnerChange
    PROVE  \E touched, created : Journals(touched, created)
<1>1. ASSUME NEW i \in Live, NEW row, Change({i}, [blocks EXCEPT ![i] = row], {})
      PROVE  Journals({i}, {})
    <2>1. blocks' = [blocks EXCEPT ![i] = row]
        BY <1>1 DEF Change
    <2>2. Change({i}, blocks', {})
        BY <1>1, <2>1
    <2>3. \A j \in Ids \ {i} : blocks'[j] = blocks[j]
        BY <2>1 DEF IInv, RowsAreGood, GoodTable
    <2> QED
        BY <2>2, <2>3 DEF Journals
<1>2. ASSUME NEW p \in Live, NEW absorbed \in SUBSET Live, Merge(p, absorbed)
      PROVE  Journals(absorbed \cup {p}, {})
    <2>1. PICK row : Change(absorbed \cup {p}, [Only(blocks, Ids \ absorbed) EXCEPT ![p] = row], {})
        BY <1>2 DEF Merge
    <2>2. blocks' = [Only(blocks, Ids \ absorbed) EXCEPT ![p] = row]
        BY <2>1 DEF Change
    <2>3. Change(absorbed \cup {p}, blocks', {})
        BY <2>1, <2>2
    <2>4. \A j \in Ids \ (absorbed \cup {p}) : blocks'[j] = blocks[j]
        BY <2>2 DEF Only
    <2> QED
        BY <2>3, <2>4 DEF Journals
<1>3. ASSUME NEW i \in Live, NEW d \in Minutes, Split(i, d)
      PROVE  Journals({i}, {nextId})
    <2>1. PICK table : /\ table = [blocks EXCEPT ![i] = FirstHalf(@, d),
                                                 ![nextId] = SecondHalf(blocks[i], d)]
                       /\ Change({i}, table, {nextId})
        BY <1>3 DEF Split
    <2>2. blocks' = table
        BY <2>1 DEF Change
    <2>3. Change({i}, blocks', {nextId})
        BY <2>1, <2>2
    <2>4. \A j \in Ids \ {i, nextId} : blocks'[j] = blocks[j]
        BY <2>1, <2>2 DEF IInv, RowsAreGood, GoodTable
    <2>5. nextId \in Ids /\ nextId \notin Live
        BY <1>3, BoundsAssumption DEF Split, IInv, Ids, FreshIds, Below, Live
    <2> QED
        BY <2>3, <2>4, <2>5 DEF Journals
<1>4. PICK i \in Live :
        \/ \E k \in Tickets : AssignTicket(i, k)
        \/ ClearTicket(i)
        \/ \E d \in Minutes : SetDuration(i, d)
        \/ \E t \in Texts : SetDescription(i, t)
        \/ \E p \in BOOLEAN : SetPersonal(i, p)
        \/ Ignore(i)
        \/ Unignore(i)
        \/ DeleteBlock(i)
        \/ \E S \in SUBSET Live : Merge(i, S)
        \/ \E d \in Minutes : Split(i, d)
    BY DEF OwnerChange
<1>5. CASE \/ \E k \in Tickets : AssignTicket(i, k)
           \/ ClearTicket(i)
           \/ \E d \in Minutes : SetDuration(i, d)
           \/ \E t \in Texts : SetDescription(i, t)
           \/ \E p \in BOOLEAN : SetPersonal(i, p)
           \/ Ignore(i)
           \/ Unignore(i)
           \/ DeleteBlock(i)
    <2>1. \E row : Change({i}, [blocks EXCEPT ![i] = row], {})
        BY <1>5 DEF AssignTicket, ClearTicket, SetDuration, SetDescription, SetPersonal,
                    Ignore, Unignore, DeleteBlock, Edit
    <2> QED
        BY <1>1, <2>1
<1> QED
    BY <1>2, <1>3, <1>4, <1>5

(* An entry that tells what a change did: the rows before and after it,    *)
(* and that every other row is untouched or new.                           *)
Records(entry) ==
    /\ \A i \in RowsOf(entry.before) :
          blocks[i] # Null /\ entry.before[i] = blocks[i] /\ entry.after[i] = blocks'[i]
    /\ \A i \in Ids \ RowsOf(entry.before) :
          IF i \in entry.created THEN blocks[i] = Null ELSE blocks'[i] = blocks[i]

LEMMA OwnerRecords ==
    ASSUME IInv, FreshIds, OwnerChange
    PROVE  \E entry \in GoodEntry :
              /\ Records(entry)
              /\ LET all == Append(journal, entry)
                 IN  journal' = IF Len(all) > UndoDepth THEN Tail(all) ELSE all
<1>1. PICK touched, created : Journals(touched, created)
    BY OwnerJournals
<1> DEFINE entry == [before  |-> Only(blocks, touched),
                     after   |-> Only(blocks', touched),
                     created |-> created]
<1>2. blocks' \in GoodTable
    <2>1. IInv'
        BY OwnerChangeGood
    <2> QED BY <2>1 DEF IInv, RowsAreGood, GoodTable, GoodRow
<1>3. entry \in GoodEntry
    BY <1>1, <1>2, OnlyGood DEF IInv, RowsAreGood, GoodEntry, Journals
<1>4. RowsOf(entry.before) = touched
    BY <1>1 DEF Journals, Only, RowsOf, Live
<1>5. Records(entry)
    <2>1. ASSUME NEW i \in touched
          PROVE  /\ blocks[i] # Null /\ entry.before[i] = blocks[i] /\ entry.after[i] = blocks'[i]
        BY <1>1 DEF Journals, Only, Live, RowsOf
    <2>2. ASSUME NEW i \in Ids \ touched
          PROVE  IF i \in created THEN blocks[i] = Null ELSE blocks'[i] = blocks[i]
        BY <1>1 DEF Journals, Live, RowsOf
    <2>3. entry.created = created
        OBVIOUS
    <2> HIDE DEF entry
    <2> QED BY <1>4, <2>1, <2>2, <2>3 DEF Records
<1>6. LET all == Append(journal, entry)
      IN  journal' = IF Len(all) > UndoDepth THEN Tail(all) ELSE all
    BY <1>1 DEF Journals, Change, Journaled
<1> HIDE DEF entry
<1> QED BY <1>3, <1>5, <1>6

LEMMA RecordsIsLinked ==
    ASSUME NEW entry, Records(entry)
    PROVE  Linked(blocks, entry, blocks')
BY DEF Records, Linked, SameAt, SameRow

-----------------------------------------------------------------------------
(* The newest entries of the journal are the owner's steps along the       *)
(* trail, as many as both remember.                                        *)

Walk ==
    /\ trail \in Seq(GoodTable)
    /\ \A k \in Nat : k < Len(trail) /\ k < Len(journal) =>
          Linked(trail[Len(trail) - k], journal[Len(journal) - k],
                 IF k = 0 THEN blocks ELSE trail[Len(trail) - k + 1])

LEMMA OwnerWalks ==
    ASSUME IInv, FreshIds, Walk, OwnerChange, trail' = Append(trail, blocks)
    PROVE  Walk'
<1>0. PICK entry \in GoodEntry :
          /\ Records(entry)
          /\ LET all == Append(journal, entry)
             IN  journal' = IF Len(all) > UndoDepth THEN Tail(all) ELSE all
    BY OwnerRecords
<1>1. /\ Linked(blocks, entry, blocks')
      /\ LET all == Append(journal, entry)
         IN  journal' = IF Len(all) > UndoDepth THEN Tail(all) ELSE all
    BY <1>0, RecordsIsLinked
<1> DEFINE n == Len(trail)
           m == Len(journal)
           all == Append(journal, entry)
           last == Len(journal')
<1>2. /\ trail \in Seq(GoodTable) /\ journal \in Seq(GoodEntry) /\ n \in Nat /\ m \in Nat
      /\ blocks \in GoodTable
    BY DEF Walk, IInv, RowsAreGood
<1>3. /\ trail' \in Seq(GoodTable) /\ Len(trail') = n + 1 /\ trail'[n + 1] = blocks
      /\ \A k \in 1 .. n : trail'[k] = trail[k]
    BY <1>2
<1>4. /\ all \in Seq(GoodEntry) /\ Len(all) = m + 1 /\ all[m + 1] = entry
      /\ \A k \in 1 .. m : all[k] = journal[k]
    BY <1>1, <1>2
<1>5. /\ last \in Nat /\ last <= m + 1
      /\ \A k \in Nat : k < last => journal'[last - k] = all[m + 1 - k]
    <2>1. journal' = all \/ (journal' = Tail(all) /\ all # <<>>)
        BY <1>1, <1>4
    <2> HIDE DEF all
    <2>2. CASE journal' = all
        BY <1>2, <1>4, <2>2
    <2>3. CASE journal' = Tail(all) /\ all # <<>>
        <3>1. last = m /\ \A k \in 1 .. m : journal'[k] = all[k + 1]
            BY <1>2, <1>4, <2>3
        <3> QED BY <1>2, <3>1
    <2> QED BY <2>1, <2>2, <2>3
<1>6. \A k \in Nat : k < n /\ k < m =>
          Linked(trail[n - k], journal[m - k], IF k = 0 THEN blocks ELSE trail[n - k + 1])
    BY DEF Walk
<1> HIDE DEF n, m, all, last
<1>7. ASSUME NEW k \in Nat, k < n + 1, k < last
      PROVE  Linked(trail'[n + 1 - k], journal'[last - k],
                    IF k = 0 THEN blocks' ELSE trail'[n + 1 - k + 1])
    <2>1. CASE k = 0
        <3>1. n + 1 - k = n + 1 /\ m + 1 - k = m + 1
            BY <1>2, <2>1
        <3>2. trail'[n + 1 - k] = blocks
            BY <1>3, <3>1
        <3>3. journal'[last - k] = all[m + 1 - k]
            BY <1>5, <1>7
        <3>4. journal'[last - k] = entry
            BY <1>4, <3>1, <3>3
        <3> QED BY <1>1, <2>1, <3>2, <3>4
    <2>2. CASE k # 0
        <3> DEFINE j == k - 1
        <3>1. j \in Nat /\ j < n /\ j < m /\ n - j \in 1 .. n /\ m - j \in 1 .. m
            BY <1>2, <1>5, <1>7, <2>2
        <3>2. trail'[n + 1 - k] = trail[n - j]
            BY <1>2, <1>3, <3>1
        <3>3. journal'[last - k] = journal[m - j]
            BY <1>2, <1>4, <1>5, <1>7, <3>1
        <3>4. trail'[n + 1 - k + 1] = IF j = 0 THEN blocks ELSE trail[n - j + 1]
            <4>1. CASE j = 0
                BY <1>2, <1>3, <4>1
            <4>2. CASE j # 0
                <5>1. n - j + 1 \in 1 .. n /\ n + 1 - k + 1 = n - j + 1
                    BY <1>2, <3>1, <4>2
                <5> QED BY <1>3, <4>2, <5>1
            <4> QED BY <4>1, <4>2
        <3>5. Linked(trail[n - j], journal[m - j], IF j = 0 THEN blocks ELSE trail[n - j + 1])
            BY <1>6, <3>1
        <3> QED BY <2>2, <3>2, <3>3, <3>4, <3>5
    <2> QED BY <2>1, <2>2
<1>8. \A k \in Nat : k < Len(trail)' /\ k < Len(journal)' =>
          Linked(trail'[Len(trail)' - k], journal'[Len(journal)' - k],
                 IF k = 0 THEN blocks' ELSE trail'[Len(trail)' - k + 1])
    <2>1. Len(trail') = n + 1 /\ Len(journal') = last
        BY <1>3 DEF last
    <2> SUFFICES ASSUME NEW k \in Nat, k < Len(trail'), k < Len(journal')
                 PROVE  Linked(trail'[Len(trail') - k], journal'[Len(journal') - k],
                               IF k = 0 THEN blocks' ELSE trail'[Len(trail') - k + 1])
        OBVIOUS
    <2>2. k < n + 1 /\ k < last
        BY <2>1
    <2>3. Linked(trail'[n + 1 - k], journal'[last - k],
                 IF k = 0 THEN blocks' ELSE trail'[n + 1 - k + 1])
        BY <1>7, <2>2
    <2>4. Len(trail') - k = n + 1 - k /\ Len(journal') - k = last - k
        BY <1>2, <1>5, <2>1
    <2> QED BY <2>3, <2>4, Zenon
<1>9. (trail \in Seq(GoodTable))'
    BY <1>3 DEF GoodTable, GoodRow
<1> QED
    BY <1>8, <1>9 DEF Walk, Linked, SameAt, SameRow, RowsOf

(* With a step of the owner's to walk back, undo takes it. *)
LEMMA UndoIsLinked ==
    ASSUME IInv, Walk, journal # <<>>, trail # <<>>
    PROVE  /\ Newest \in GoodEntry /\ ~Stale(Newest)
           /\ Same(Restored(Newest), trail[Len(trail)])
<1>1. journal \in Seq(GoodEntry) /\ trail \in Seq(GoodTable)
    BY DEF IInv, RowsAreGood, Walk
<1>2. 0 < Len(trail) /\ 0 < Len(journal) /\ Len(trail) \in Nat /\ Len(journal) \in Nat
    BY <1>1
<1>3. Linked(trail[Len(trail) - 0], journal[Len(journal) - 0], blocks)
    BY <1>2 DEF Walk
<1>4. Linked(trail[Len(trail)], Newest, blocks) /\ Newest \in GoodEntry
    BY <1>1, <1>2, <1>3 DEF Newest
<1> QED
    BY <1>4, RestoredIsSame

LEMMA ShorterByOne ==
    ASSUME NEW S, NEW s \in Seq(S), s # <<>>
    PROVE  LET front == SubSeq(s, 1, Len(s) - 1)
           IN  /\ front \in Seq(S) /\ Len(front) = Len(s) - 1
               /\ \A k \in 1 .. Len(s) - 1 : front[k] = s[k]
<1> DEFINE n == Len(s) - 1
           front == SubSeq(s, 1, n)
<1>1. n \in Nat /\ n + 1 = Len(s) /\ \A k \in 1 .. n : s[k] \in S
    OBVIOUS
<1> HIDE DEF n
<1>2. /\ front \in Seq(S) /\ Len(front) = IF 1 <= n THEN n - 1 + 1 ELSE 0
      /\ \A i \in 1 .. n - 1 + 1 : front[i] = s[1 + i - 1]
    BY <1>1, SubSeqProperties
<1>3. Len(front) = n
    BY <1>1, <1>2
<1>4. \A k \in 1 .. n : front[k] = s[k]
    BY <1>1, <1>2
<1> QED
    BY <1>2, <1>3, <1>4 DEF n

LEMMA UndoWalks ==
    ASSUME IInv, Walk, UndoRestores, trail' = IF trail = <<>> THEN <<>> ELSE Front1(trail)
    PROVE  Walk'
<1>1. CASE trail = <<>>
    <2>1. Len(trail') = 0 /\ trail' \in Seq(GoodTable')
        BY <1>1
    <2> QED BY <2>1 DEF Walk
<1>2. CASE trail # <<>>
    <2> DEFINE n == Len(trail)
               m == Len(journal)
    <2>1. /\ trail \in Seq(GoodTable) /\ journal \in Seq(GoodEntry) /\ n \in Nat /\ m \in Nat
          /\ n > 0 /\ m > 0
        BY <1>2 DEF Walk, IInv, RowsAreGood, UndoRestores
    <2>2. /\ trail' \in Seq(GoodTable) /\ Len(trail') = n - 1
          /\ \A k \in 1 .. n - 1 : trail'[k] = trail[k]
        BY <1>2, <2>1, ShorterByOne DEF Front1
    <2>3. /\ Len(journal') = m - 1
          /\ \A k \in 1 .. m - 1 : journal'[k] = journal[k]
        BY <2>1, ShorterByOne DEF UndoRestores, Older
    <2>4. Same(blocks', trail[n])
        BY <1>2, UndoIsLinked DEF UndoRestores
    <2>5. \A k \in Nat : k < n /\ k < m =>
              Linked(trail[n - k], journal[m - k], IF k = 0 THEN blocks ELSE trail[n - k + 1])
        BY DEF Walk
    <2> HIDE DEF n, m
    <2>6. ASSUME NEW k \in Nat, k < n - 1, k < m - 1
          PROVE  Linked(trail'[n - 1 - k], journal'[m - 1 - k],
                        IF k = 0 THEN blocks' ELSE trail'[n - 1 - k + 1])
        <3> DEFINE j == k + 1
        <3>1. /\ j \in Nat /\ j # 0 /\ j < n /\ j < m /\ n - j \in 1 .. n - 1
              /\ m - j \in 1 .. m - 1 /\ n - 1 - k = n - j /\ m - 1 - k = m - j
            BY <2>1, <2>6
        <3>2. Linked(trail[n - j], journal[m - j], trail[n - j + 1])
            BY <2>5, <3>1
        <3>3. trail'[n - 1 - k] = trail[n - j] /\ journal'[m - 1 - k] = journal[m - j]
            BY <2>2, <2>3, <3>1
        <3>4. CASE k = 0
            <4>1. trail[n - j + 1] = trail[n]
                BY <2>1, <3>4
            <4>2. Same(trail[n], blocks') /\ Same(trail[n - j], trail[n - j])
                BY <2>4 DEF Same, SameAt, SameRow
            <4>3. Linked(trail[n - j], journal[m - j], blocks')
                BY <3>2, <4>1, <4>2, LinkedToSame
            <4> QED BY <3>3, <3>4, <4>3
        <3>5. CASE k # 0
            <4>1. n - 1 - k + 1 = n - j + 1 /\ n - j + 1 \in 1 .. n - 1
                BY <2>1, <3>1, <3>5
            <4>2. trail'[n - 1 - k + 1] = trail[n - j + 1]
                BY <2>2, <4>1
            <4> QED BY <3>2, <3>3, <3>5, <4>2
        <3> QED BY <3>4, <3>5
    <2>7. \A k \in Nat : k < Len(trail)' /\ k < Len(journal)' =>
              Linked(trail'[Len(trail)' - k], journal'[Len(journal)' - k],
                     IF k = 0 THEN blocks' ELSE trail'[Len(trail)' - k + 1])
        BY <2>2, <2>3, <2>6
    <2>8. (trail \in Seq(GoodTable))'
        BY <2>2 DEF GoodTable, GoodRow
    <2> QED
        BY <2>7, <2>8 DEF Walk, Linked, SameAt, SameRow, RowsOf
<1> QED BY <1>1, <1>2

(* A bulk export changes a marker only. *)
LEMMA ExportWalks ==
    ASSUME IInv, Walk, MarkExported, trail' = trail
    PROVE  Walk'
<1> DEFINE n == Len(trail)
           m == Len(journal)
<1>1. Same(blocks, blocks')
    <2> SUFFICES ASSUME NEW i \in Ids PROVE SameAt(blocks, blocks', i)
        BY DEF Same
    <2>1. CASE i \in Live
        <3> DEFINE b == blocks[i]
        <3>1. b \in Row
            BY <2>1, LiveIsGood DEF GoodRow
        <3>2. blocks'[i] = [b EXCEPT !.exported = TRUE]
            BY <2>1 DEF MarkExported, Unjournaled
        <3> HIDE DEF b
        <3>3. blocks'[i] \in Row /\ SameRow(b, blocks'[i])
            BY <3>1, <3>2 DEF SameRow, Comparable, Row
        <3> QED BY <2>1, <3>3, NoRowIsNull DEF SameAt, Live, RowsOf, b
    <2>2. CASE i \notin Live
        BY <2>2 DEF MarkExported, Unjournaled, SameAt, Live, RowsOf
    <2> QED BY <2>1, <2>2
<1>2. journal' = journal
    BY DEF MarkExported, Unjournaled
<1>3. ASSUME NEW k \in Nat, k < n, k < m
      PROVE  Linked(trail[n - k], journal[m - k], IF k = 0 THEN blocks' ELSE trail[n - k + 1])
    <2>1. Linked(trail[n - k], journal[m - k], IF k = 0 THEN blocks ELSE trail[n - k + 1])
        BY <1>3 DEF Walk
    <2>2. Same(trail[n - k], trail[n - k])
        BY DEF Same, SameAt, SameRow
    <2> HIDE DEF n, m
    <2> QED BY <1>1, <2>1, <2>2, LinkedToSame
<1>4. (trail \in Seq(GoodTable))'
    BY DEF GoodTable, GoodRow, Walk
<1> QED
    BY <1>2, <1>3, <1>4 DEF Walk, Linked, SameAt, SameRow, RowsOf

LEMMA MCWalks == MCSpec => [](IInv /\ Walk)
<1>1. MCInit => Walk
    <2> SUFFICES ASSUME MCInit PROVE Walk
        OBVIOUS
    <2>1. trail = <<>> /\ Len(trail) = 0
        BY DEF MCInit
    <2> QED BY <2>1 DEF Walk
<1>2. IInv /\ FreshIds /\ Walk /\ [MCNext]_mcVars => Walk'
    <2> SUFFICES ASSUME IInv, FreshIds, Walk, [MCNext]_mcVars PROVE Walk'
        OBVIOUS
    <2>1. CASE MCOwner
        <3>1. CASE UndoStale /\ UNCHANGED trail
            <4>1. trail = <<>>
                BY <3>1, UndoIsLinked DEF UndoStale
            <4>2. trail' \in Seq(GoodTable') /\ Len(trail') = 0
                BY <3>1, <4>1
            <4> QED BY <4>2 DEF Walk
        <3> QED BY <2>1, <3>1, OwnerWalks, UndoWalks DEF MCOwner
    <2>2. CASE MCOther
        <3>1. trail' = <<>>
            BY <2>2 DEF MCOther
        <3>2. trail' \in Seq(GoodTable') /\ Len(trail') = 0
            BY <3>1
        <3> QED BY <3>2 DEF Walk
    <2>3. CASE MCExport
        BY <2>3, ExportWalks DEF MCExport
    <2>4. CASE UNCHANGED mcVars
        BY <2>4 DEF mcVars, vars, Walk, Linked, SameAt, SameRow, RowsOf, GoodTable, GoodRow
    <2> QED BY <2>1, <2>2, <2>3, <2>4 DEF MCNext
<1> QED
    BY <1>1, <1>2, MCInvariant, PTL DEF MCSpec

(* For every day, list of edits and journal depth, the owner's and any     *)
(* other writer's steps in any order: undo puts the day back as it was     *)
(* before the owner's newest change that no other writer came after, links *)
(* to events included, and discards no such change as stale.  (undo_last)  *)
THEOREM UndoRetraces ==
    MCSpec => UndoWalksBack
<1>1. ASSUME IInv, Walk
      PROVE  /\ UndoRestores /\ trail # <<>> => SameButMarkers(blocks', trail[Len(trail)])
             /\ UndoStale => trail = <<>>
    BY <1>1, UndoIsLinked, SameIsButMarkers DEF UndoRestores, UndoStale
<1>2. IInv /\ Walk /\ [MCNext]_mcVars =>
          [/\ UndoRestores /\ trail # <<>> => SameButMarkers(blocks', trail[Len(trail)])
           /\ UndoStale => trail = <<>>]_vars
    BY <1>1
<1> QED
    BY <1>2, MCWalks, PTL DEF MCSpec, UndoWalksBack

-----------------------------------------------------------------------------
(* Events and rows only: what a sync or an export writes aside, the same   *)
(* links between the tables the journal passed through.                    *)

Plain(row) == [row EXCEPT !.tempo = Null, !.exported = FALSE, !.events = {}, !.dirty = FALSE]

AlikeRow(a, b) == Plain(a) = Plain(b) /\ a.events = b.events

AlikeAt(s, t, i) == (s[i] = Null <=> t[i] = Null) /\ (s[i] # Null => AlikeRow(s[i], t[i]))

SameTable(s, t) == \A i \in Ids : AlikeAt(s, t, i)

Leads(t, entry, u) ==
    /\ \A i \in RowsOf(entry.before) :
          /\ t[i] # Null /\ AlikeRow(entry.before[i], t[i])
          /\ u[i] = Null <=> entry.after[i] = Null
          /\ u[i] # Null => /\ Plain(u[i]) = Plain(entry.after[i])
                            /\ entry.after[i].tempo = entry.before[i].tempo
    /\ \A i \in Ids \ RowsOf(entry.before) :
          IF i \in entry.created THEN t[i] = Null ELSE AlikeAt(t, u, i)

LEMMA LeadsToAlike ==
    ASSUME NEW t, NEW t2, NEW entry, NEW u, NEW u2, Leads(t, entry, u), SameTable(t2, t), SameTable(u, u2)
    PROVE  Leads(t2, entry, u2)
BY DEF Leads, SameTable, AlikeAt, AlikeRow, RowsOf

LEMMA AlikeIsLinkedOnce ==
    ASSUME NEW s, NEW t, SameTable(s, t), LinkedOnce(s)
    PROVE  LinkedOnce(t)
BY DEF SameTable, AlikeAt, AlikeRow, LinkedOnce, RowsOf

LEMMA MarkersUnlike ==
    ASSUME NEW b \in Row, NEW w, NEW x, NEW f
    PROVE  /\ AlikeRow([b EXCEPT !.tempo = w, !.exported = x], b)
           /\ AlikeRow([b EXCEPT !.tempo = w], b)
           /\ AlikeRow(b, [b EXCEPT !.exported = x])
           /\ AlikeRow(b, [b EXCEPT !.tempo = w, !.dirty = f])
BY DEF AlikeRow, Plain, Row

(* Rows that were never sent differ in no flag Plain leaves aside. *)
LEMMA UnsentPlain ==
    ASSUME NEW a \in GoodRow, NEW b \in GoodRow, ~Synced(a), ~Synced(b), Plain(a) = Plain(b)
    PROVE  Comparable(a) = Comparable(b)
<1>1. a \in Row /\ b \in Row /\ a.dirty = FALSE /\ b.dirty = FALSE
    BY DEF GoodRow, RowOK, Row
<1>2. ASSUME NEW r \in Row, r.dirty = FALSE
      PROVE  Comparable(r) = Plain(r)
    BY <1>2 DEF Comparable, Plain, Row
<1> QED BY <1>1, <1>2

LEMMA UndoneIsAlike ==
    ASSUME IInv, NEW t, NEW entry \in GoodEntry, Leads(t, entry, blocks), ~Refused(entry)
    PROVE  ~Stale(entry) /\ SameTable(Restored(entry), t)
<1>1. ~Stale(entry)
    <2> SUFFICES ASSUME NEW i \in RowsOf(entry.before)
                 PROVE  /\ (i \in Live) = (i \in RowsOf(entry.after))
                        /\ i \in Live => Comparable(blocks[i]) = Comparable(entry.after[i])
        BY DEF Stale
    <2>1. (i \in Live) = (i \in RowsOf(entry.after))
        BY DEF Leads, Live, RowsOf
    <2>2. ASSUME i \in Live PROVE Comparable(blocks[i]) = Comparable(entry.after[i])
        <3>1. ~Synced(blocks[i]) /\ ~Synced(entry.before[i])
            BY <2>2 DEF Refused, LiveSynced
        <3>2. Plain(blocks[i]) = Plain(entry.after[i]) /\ entry.after[i].tempo = entry.before[i].tempo
            BY <2>2 DEF Leads, Live, RowsOf
        <3>3. ~Synced(entry.after[i])
            BY <3>1, <3>2 DEF Synced
        <3>4. blocks[i] \in GoodRow /\ entry.after[i] \in GoodRow
            BY <2>1, <2>2, LiveIsGood DEF GoodEntry, GoodTable, RowsOf
        <3> QED BY <3>1, <3>2, <3>3, <3>4, UnsentPlain
    <2> QED BY <2>1, <2>2
<1>2. ASSUME NEW i \in Ids PROVE AlikeAt(Restored(entry), t, i)
    <2>1. CASE i \in RowsOf(entry.before)
        <3> DEFINE b == entry.before[i]
                   row == blocks[i]
        <3>1. b \in Row
            BY <2>1 DEF GoodEntry, GoodTable, GoodRow, RowsOf
        <3>2. Restored(entry)[i] = IF i \in Live
                  THEN [b EXCEPT !.tempo = row.tempo, !.exported = row.exported]
                  ELSE [b EXCEPT !.tempo = Null]
            BY <2>1 DEF Restored, Rewritten
        <3>3. i \in Live => row \in Row
            BY LiveIsGood DEF GoodRow
        <3>4. t[i] # Null /\ AlikeRow(b, t[i])
            BY <2>1 DEF Leads
        <3> HIDE DEF b, row
        <3>5. AlikeRow(Restored(entry)[i], b)
            <4>1. AlikeRow([b EXCEPT !.tempo = row.tempo, !.exported = row.exported], b)
                BY <3>1, MarkersUnlike
            <4>2. AlikeRow([b EXCEPT !.tempo = Null], b)
                BY <3>1, MarkersUnlike
            <4> QED BY <3>2, <4>1, <4>2
        <3>6. Restored(entry)[i] \in Row
            BY <3>1, <3>2, <3>3 DEF Row
        <3> QED BY <3>4, <3>5, <3>6, NoRowIsNull DEF AlikeAt, AlikeRow
    <2>2. CASE i \notin RowsOf(entry.before)
        <3>1. Restored(entry)[i] = IF i \in entry.created THEN Null ELSE blocks[i]
            BY <2>2 DEF Restored
        <3>2. IF i \in entry.created THEN t[i] = Null ELSE AlikeAt(t, blocks, i)
            BY <2>2 DEF Leads
        <3> QED BY <3>1, <3>2 DEF AlikeAt, AlikeRow
    <2> QED BY <2>1, <2>2
<1> QED BY <1>1, <1>2 DEF SameTable

-----------------------------------------------------------------------------
(* What a change of the owner's does to the links and the Tempo ids. *)

Tidy == /\ LinkedOnce(blocks) => LinkedOnce(blocks')
        /\ \A i \in Live \cap RowsOf(blocks') : blocks'[i].tempo = blocks[i].tempo

LEMMA EditIsTidy ==
    ASSUME IInv, NEW i \in Live, NEW row,
           row # Null => row.tempo = blocks[i].tempo /\ row.events \subseteq blocks[i].events,
           Change({i}, [blocks EXCEPT ![i] = row], {})
    PROVE  Tidy
<1>1. blocks'[i] = row /\ \A j \in Ids \ {i} : blocks'[j] = blocks[j]
    BY DEF Change, IInv, RowsAreGood, GoodTable, Live, RowsOf
<1>2. \A j \in RowsOf(blocks') :
          j \in Live /\ blocks'[j].tempo = blocks[j].tempo /\ blocks'[j].events \subseteq blocks[j].events
    BY <1>1 DEF Live, RowsOf
<1> QED
    BY <1>2 DEF Tidy, LinkedOnce, Live

LEMMA EditsKeepLinks ==
    ASSUME NEW b \in GoodRow
    PROVE  /\ \A k \in Tickets : Assigned(b, k).events = b.events
           /\ Cleared(b).events = b.events
           /\ \A d \in Nat : Resized(b, d).events = b.events
           /\ \A t \in Texts : Reworded(b, t).events = b.events
           /\ \A p \in BOOLEAN : [b EXCEPT !.personal = p].events = b.events
           /\ Ignored(b).events = b.events /\ Unignored(b).events = b.events
BY DEF GoodRow, Row, Assigned, Cleared, Resized, Reworded, Ignored, Unignored, MarkDirty

LEMMA MergeIsTidy ==
    ASSUME IInv, NEW p \in Live, NEW absorbed \in SUBSET Live, Merge(p, absorbed)
    PROVE  Tidy
<1> DEFINE all    == absorbed \cup {p}
           start  == Min({blocks[i].start : i \in all})
           total  == MapThenSumSet(LAMBDA i : blocks[i].dur, all)
           E      == UNION {blocks[i].events : i \in absorbed}
           table  == [Only(blocks, Ids \ absorbed) EXCEPT
                         ![p] = Absorbing(@, start, total, E)]
<1>1. p \notin absorbed /\ p \in Ids /\ blocks' = table
    BY DEF Merge, Change, Live, RowsOf
<1>2. blocks[p] \in Row
    BY LiveIsGood DEF GoodRow
<1> HIDE DEF start, total, E
<1>3. /\ blocks'[p] = Absorbing(blocks[p], start, total, E)
      /\ \A i \in RowsOf(blocks') \ {p} : i \in Live \ absorbed /\ blocks'[i] = blocks[i]
    BY <1>1 DEF Only, Live, RowsOf
<1>4. blocks'[p].events = blocks[p].events \cup E /\ blocks'[p].tempo = blocks[p].tempo
    BY <1>2, <1>3 DEF Absorbing, MarkDirty, Row
<1>5. ASSUME LinkedOnce(blocks), NEW i \in RowsOf(blocks') \ {p}
      PROVE  blocks'[i].events \cap blocks'[p].events = {}
    <2>1. \A j \in absorbed \cup {p} : blocks[i].events \cap blocks[j].events = {}
        BY <1>3, <1>5 DEF LinkedOnce, Live
    <2> QED
        BY <1>3, <1>4, <2>1 DEF E
<1>6. ASSUME LinkedOnce(blocks) PROVE LinkedOnce(blocks')
    BY <1>3, <1>5, <1>6 DEF LinkedOnce, Live
<1> QED
    BY <1>3, <1>4, <1>6 DEF Tidy

LEMMA SplitIsTidy ==
    ASSUME IInv, FreshIds, NEW i \in Live, NEW d \in Minutes, Split(i, d)
    PROVE  Tidy
<1> DEFINE b == blocks[i]
<1>1. nextId \notin Live /\ d \in Nat /\ nextId \in Ids
    BY BoundsAssumption DEF FreshIds, Below, Live, IInv, Split, Ids
<1>2. b \in Row /\ b.start \in Nat /\ (\A e \in Events : e.at \in Nat)
    BY LiveIsGood, BoundsAssumption DEF GoodRow, Row
<1>3. blocks' = [blocks EXCEPT ![i] = FirstHalf(@, d), ![nextId] = SecondHalf(b, d)]
    BY DEF Split, Change
<1>4. /\ blocks'[i] = FirstHalf(b, d) /\ blocks'[nextId] = SecondHalf(b, d)
      /\ \A j \in Ids \ {i, nextId} : blocks'[j] = blocks[j]
    BY <1>1, <1>3 DEF IInv, RowsAreGood, GoodTable, Live, RowsOf
<1> HIDE DEF b
<1>5. /\ FirstHalf(b, d).events = {e \in b.events : e.at < b.start + d}
      /\ FirstHalf(b, d).tempo = b.tempo
    <2> DEFINE r == [b EXCEPT !.events = {e \in @ : e.at < b.start + d}]
    <2>1. r.events = {e \in b.events : e.at < b.start + d} /\ r.tempo = b.tempo
          /\ r \in Row
        BY <1>2 DEF Row
    <2> HIDE DEF r
    <2>2. Resized(r, d).events = r.events /\ Resized(r, d).tempo = r.tempo
        BY <2>1 DEF Resized, MarkDirty, Row
    <2> QED BY <2>1, <2>2 DEF FirstHalf, r
<1>6. SecondHalf(b, d).events = {e \in b.events : e.at >= b.start + d}
    BY <1>2 DEF SecondHalf, Row
<1>7. ASSUME LinkedOnce(blocks) PROVE LinkedOnce(blocks')
    <2> DEFINE first == blocks'[i].events
               second == blocks'[nextId].events
    <2>1. first \subseteq b.events /\ second \subseteq b.events /\ first \cap second = {}
        <3>1. first = {e \in b.events : e.at < b.start + d}
            BY <1>4, <1>5
        <3>2. second = {e \in b.events : e.at >= b.start + d}
            BY <1>4, <1>6
        <3>3. \A e \in b.events : e.at \in Nat
            BY <1>2 DEF Row
        <3> HIDE DEF first, second
        <3> QED BY <1>1, <1>2, <3>1, <3>2, <3>3
    <2>2. \A j \in RowsOf(blocks') \ {i, nextId} :
              j \in Live /\ blocks'[j] = blocks[j] /\ blocks[j].events \cap b.events = {}
        BY <1>4, <1>7 DEF LinkedOnce, Live, RowsOf, b
    <2> SUFFICES ASSUME NEW j \in RowsOf(blocks'), NEW k \in RowsOf(blocks'), j # k
                 PROVE  blocks'[j].events \cap blocks'[k].events = {}
        BY DEF LinkedOnce
    <2>3. CASE j \in {i, nextId} /\ k \in {i, nextId}
        BY <2>1, <2>3
    <2>4. CASE j \in {i, nextId} /\ k \notin {i, nextId}
        BY <2>1, <2>2, <2>4
    <2>5. CASE j \notin {i, nextId} /\ k \in {i, nextId}
        BY <2>1, <2>2, <2>5
    <2>6. CASE j \notin {i, nextId} /\ k \notin {i, nextId}
        BY <1>7, <2>2, <2>6 DEF LinkedOnce, Live
    <2> QED BY <2>3, <2>4, <2>5, <2>6
<1>8. \A j \in Live \cap RowsOf(blocks') : blocks'[j].tempo = blocks[j].tempo
    BY <1>1, <1>4, <1>5 DEF Live, RowsOf, b
<1> QED
    BY <1>7, <1>8 DEF Tidy

LEMMA OwnerIsTidy ==
    ASSUME IInv, FreshIds, OwnerChange
    PROVE  Tidy
<1> PICK i \in Live :
        \/ \E k \in Tickets : AssignTicket(i, k)
        \/ ClearTicket(i)
        \/ \E d \in Minutes : SetDuration(i, d)
        \/ \E t \in Texts : SetDescription(i, t)
        \/ \E p \in BOOLEAN : SetPersonal(i, p)
        \/ Ignore(i)
        \/ Unignore(i)
        \/ DeleteBlock(i)
        \/ \E S \in SUBSET Live : Merge(i, S)
        \/ \E d \in Minutes : Split(i, d)
    BY DEF OwnerChange
<1>0. blocks[i] \in GoodRow
    BY LiveIsGood
<1>1. CASE \E k \in Tickets : AssignTicket(i, k)
    BY <1>0, <1>1, EditSucceeds, EditsKeepLinks, EditIsTidy DEF AssignTicket, Edit, Successor
<1>2. CASE ClearTicket(i)
    BY <1>0, <1>2, EditSucceeds, EditsKeepLinks, EditIsTidy DEF ClearTicket, Edit, Successor
<1>3. CASE \E d \in Minutes : SetDuration(i, d)
    BY <1>0, <1>3, EditSucceeds, EditsKeepLinks, EditIsTidy, BoundsAssumption
       DEF SetDuration, Edit, Successor
<1>4. CASE \E t \in Texts : SetDescription(i, t)
    BY <1>0, <1>4, EditSucceeds, EditsKeepLinks, EditIsTidy DEF SetDescription, Edit, Successor
<1>5. CASE \E p \in BOOLEAN : SetPersonal(i, p)
    BY <1>0, <1>5, EditSucceeds, EditsKeepLinks, EditIsTidy DEF SetPersonal, Edit, Successor
<1>6. CASE Ignore(i) \/ Unignore(i)
    BY <1>0, <1>6, EditSucceeds, EditsKeepLinks, EditIsTidy DEF Ignore, Unignore, Edit, Successor
<1>7. CASE DeleteBlock(i)
    BY <1>7, EditIsTidy DEF DeleteBlock
<1>8. CASE \E S \in SUBSET Live : Merge(i, S)
    BY <1>8, MergeIsTidy
<1>9. CASE \E d \in Minutes : Split(i, d)
    BY <1>9, SplitIsTidy
<1> QED
    BY <1>1, <1>2, <1>3, <1>4, <1>5, <1>6, <1>7, <1>8, <1>9

LEMMA RecordsLeads ==
    ASSUME NEW entry \in GoodEntry, Records(entry), Tidy
    PROVE  Leads(blocks, entry, blocks')
<1>1. ASSUME NEW i \in RowsOf(entry.before), blocks'[i] # Null
      PROVE  blocks'[i].tempo = blocks[i].tempo
    BY <1>1 DEF Records, Tidy, Live, RowsOf
<1> QED
    BY <1>1 DEF Records, Leads, AlikeAt, AlikeRow

-----------------------------------------------------------------------------
(* The tables the journal passed through: each entry leads from one to the *)
(* next, the last is the day's but for markers, and each event is linked   *)
(* once in each.                                                           *)

Passed(h) ==
    /\ \A j \in 1 .. Len(journal) : Leads(h[j], journal[j], h[j + 1])
    /\ SameTable(h[Len(journal) + 1], blocks)
    /\ \A j \in 1 .. Len(journal) + 1 : LinkedOnce(h[j])

Past == \E h : Passed(h)

LEMMA OwnerPasses ==
    ASSUME IInv, FreshIds, Past, OwnerChange
    PROVE  Past'
<1>1. PICK h : Passed(h)
    BY DEF Past
<1>2. PICK entry \in GoodEntry :
          /\ Records(entry)
          /\ LET all == Append(journal, entry)
             IN  journal' = IF Len(all) > UndoDepth THEN Tail(all) ELSE all
    BY OwnerRecords
<1> DEFINE m == Len(journal)
           all == Append(journal, entry)
           last == Len(journal')
           s == m + 1 - last
           g == [j \in 1 .. last + 1 |-> IF j = last + 1 THEN blocks' ELSE h[j + s]]
<1>3. /\ all \in Seq(GoodEntry) /\ m \in Nat /\ Len(all) = m + 1 /\ all[m + 1] = entry
      /\ \A k \in 1 .. m : all[k] = journal[k]
    BY DEF IInv, RowsAreGood
<1>4. last \in Nat /\ s \in Nat /\ \A j \in 1 .. last : journal'[j] = all[j + s]
    <2>1. journal' = all \/ (journal' = Tail(all) /\ all # <<>>)
        <3>1. journal' = IF Len(all) > UndoDepth THEN Tail(all) ELSE all
            BY <1>2
        <3>2. all # <<>>
            BY <1>3
        <3> HIDE DEF all
        <3> QED BY <3>1, <3>2
    <2> HIDE DEF all
    <2>2. CASE journal' = all
        BY <1>3, <2>2
    <2>3. CASE journal' = Tail(all) /\ all # <<>>
        <3>1. last = m /\ \A k \in 1 .. m : journal'[k] = all[k + 1]
            BY <1>3, <2>3
        <3> QED BY <1>3, <3>1
    <2> QED BY <2>1, <2>2, <2>3
<1>5. SameTable(h[m + 1], blocks) /\ LinkedOnce(h[m + 1])
    BY <1>1, <1>3 DEF Passed
<1>6. LinkedOnce(blocks)
    BY <1>5, AlikeIsLinkedOnce
<1>7. Tidy
    BY OwnerIsTidy
<1>8. Leads(h[m + 1], entry, blocks')
    <2>1. Leads(blocks, entry, blocks')
        BY <1>2, <1>7, RecordsLeads
    <2>2. SameTable(blocks', blocks')
        BY DEF SameTable, AlikeAt, AlikeRow
    <2> QED
        BY <1>5, <2>1, <2>2, LeadsToAlike
<1>9. /\ \A j \in 1 .. m : Leads(h[j], journal[j], h[j + 1])
      /\ \A j \in 1 .. m + 1 : LinkedOnce(h[j])
    BY <1>1 DEF Passed
<1>10. s = m + 1 - last
    OBVIOUS
<1> HIDE DEF m, all, last, s
<1>11. g[last + 1] = blocks' /\ \A j \in 1 .. last : g[j] = h[j + s]
    BY <1>4
<1> HIDE DEF g
<1>12. ASSUME NEW j \in 1 .. last PROVE Leads(g[j], journal'[j], g[j + 1])
    <2>1. g[j] = h[j + s] /\ journal'[j] = all[j + s]
        BY <1>4, <1>11
    <2>2. CASE j = last
        <3>1. j + s = m + 1
            BY <1>3, <1>4, <1>10, <2>2
        <3> QED BY <1>3, <1>8, <1>11, <2>1, <2>2, <3>1
    <2>3. CASE j # last
        <3>1. j + s \in 1 .. m /\ j + 1 \in 1 .. last /\ (j + 1) + s = (j + s) + 1
            BY <1>3, <1>4, <1>10, <2>3
        <3>2. g[j + 1] = h[(j + s) + 1] /\ all[j + s] = journal[j + s]
            BY <1>3, <1>11, <3>1
        <3> QED BY <1>9, <2>1, <3>1, <3>2
    <2> QED BY <2>2, <2>3
<1>13. ASSUME NEW j \in 1 .. last + 1 PROVE LinkedOnce(g[j])
    <2>1. CASE j = last + 1
        BY <1>6, <1>7, <1>11, <2>1 DEF Tidy
    <2>2. CASE j # last + 1
        <3>1. j \in 1 .. last /\ j + s \in 1 .. m + 1
            BY <1>3, <1>4, <1>10, <2>2
        <3> QED BY <1>9, <1>11, <3>1
    <2> QED BY <2>1, <2>2
<1>14. SameTable(g[last + 1], blocks')
    BY <1>11 DEF SameTable, AlikeAt, AlikeRow
<1>15. \E f : /\ \A j \in 1 .. last : Leads(f[j], journal'[j], f[j + 1])
              /\ SameTable(f[last + 1], blocks')
              /\ \A j \in 1 .. last + 1 : LinkedOnce(f[j])
    BY <1>12, <1>13, <1>14
<1> QED
    BY <1>15 DEF Past, Passed, last, Leads, SameTable, AlikeAt, AlikeRow, LinkedOnce, RowsOf

(* Undo of the newest entry goes one table back. *)
LEMMA NewestLeads ==
    ASSUME IInv, NEW h, Passed(h), journal # <<>>, ~Refused(Newest)
    PROVE  ~Stale(Newest) /\ SameTable(Restored(Newest), h[Len(journal)])
<1> DEFINE m == Len(journal)
<1>1. m \in Nat /\ m > 0 /\ Newest \in GoodEntry /\ Newest = journal[m]
    BY DEF IInv, RowsAreGood, Newest
<1>2. Leads(h[m], journal[m], h[m + 1]) /\ SameTable(h[m + 1], blocks)
    BY <1>1 DEF Passed
<1>3. SameTable(h[m], h[m])
    BY DEF SameTable, AlikeAt, AlikeRow
<1>4. Leads(h[m], Newest, blocks)
    BY <1>1, <1>2, <1>3, LeadsToAlike
<1> QED
    BY <1>1, <1>4, UndoneIsAlike

LEMMA AlikeSwaps ==
    ASSUME NEW s, NEW t, SameTable(s, t)
    PROVE  SameTable(t, s)
BY DEF SameTable, AlikeAt, AlikeRow

LEMMA UndoPasses ==
    ASSUME IInv, Past, UndoRestores
    PROVE  Past'
<1>1. PICK h : Passed(h)
    BY DEF Past
<1> DEFINE m == Len(journal)
<1>2. m \in Nat /\ m > 0 /\ journal \in Seq(GoodEntry)
    BY DEF UndoRestores, IInv, RowsAreGood
<1>3. Len(journal') = m - 1 /\ \A k \in 1 .. m - 1 : journal'[k] = journal[k]
    BY <1>2, ShorterByOne DEF UndoRestores, Older
<1>4. SameTable(h[m], blocks')
    BY <1>1, NewestLeads, AlikeSwaps DEF UndoRestores
<1> HIDE DEF m
<1>5. /\ \A j \in 1 .. Len(journal') : Leads(h[j], journal'[j], h[j + 1])
      /\ SameTable(h[Len(journal') + 1], blocks')
      /\ \A j \in 1 .. Len(journal') + 1 : LinkedOnce(h[j])
    <2>1. Len(journal') + 1 = m
        BY <1>2, <1>3
    <2>2. \A j \in 1 .. m - 1 : j \in 1 .. m
        BY <1>2
    <2> QED
        BY <1>1, <1>2, <1>3, <1>4, <2>1, <2>2 DEF Passed, m
<1>6. \E f : /\ \A j \in 1 .. Len(journal') : Leads(f[j], journal'[j], f[j + 1])
             /\ SameTable(f[Len(journal') + 1], blocks')
             /\ \A j \in 1 .. Len(journal') + 1 : LinkedOnce(f[j])
    BY <1>5
<1> QED
    BY <1>6 DEF Past, Passed, Leads, SameTable, AlikeAt, AlikeRow, LinkedOnce, RowsOf

(* A step that changes markers and the like only. *)
LEMMA AsidePasses ==
    ASSUME Past, SameTable(blocks, blocks'), journal' = journal
    PROVE  Past'
<1>1. PICK h : Passed(h)
    BY DEF Past
<1>2. SameTable(h[Len(journal) + 1], blocks')
    BY <1>1 DEF Passed, SameTable, AlikeAt, AlikeRow
<1>3. \E f : /\ \A j \in 1 .. Len(journal') : Leads(f[j], journal'[j], f[j + 1])
             /\ SameTable(f[Len(journal') + 1], blocks')
             /\ \A j \in 1 .. Len(journal') + 1 : LinkedOnce(f[j])
    BY <1>1, <1>2 DEF Passed
<1> QED
    BY <1>3 DEF Past, Passed, Leads, SameTable, AlikeAt, AlikeRow, LinkedOnce, RowsOf

(* Time logged by hand is a row no entry knows of, linked to no event.     *)
LEMMA HandPasses ==
    ASSUME IInv, FreshIds, Past,
           NEW k \in Tickets, NEW start \in HandStarts, NEW d \in Minutes, NEW t \in Texts,
           LogTime(k, start, d, t)
    PROVE  Past'
<1>1. PICK h : Passed(h)
    BY DEF Past
<1>2. PICK row : row # Null /\ row.events = {} /\ blocks' = [blocks EXCEPT ![nextId] = row]
    <2> DEFINE row == [start |-> start, end |-> start + d, dur |-> d, ticket |-> k,
                       origin |-> "manual", text |-> t, by |-> "manual",
                       described |-> d, tempo |-> Null, dirty |-> FALSE,
                       personal |-> FALSE, ignored |-> FALSE, exported |-> FALSE,
                       events |-> {}]
    <2>1. blocks' = [blocks EXCEPT ![nextId] = row] /\ row.events = {}
        BY DEF LogTime
    <2>2. row # Null
        <3>1. start \in Nat /\ d \in Nat /\ start + d \in Nat
            BY BoundsAssumption
        <3>2. row \in Row
            BY <3>1 DEF Row, Origins, Authors
        <3> QED BY <3>2, NoRowIsNull
    <2> HIDE DEF row
    <2> QED BY <2>1, <2>2
<1>3. /\ nextId \in Ids /\ journal' = journal
      /\ journal \in Seq(GoodEntry)
      /\ \A j \in 1 .. Len(journal) : journal[j] \in EntryBelow(nextId)
    BY BoundsAssumption DEF LogTime, IInv, RowsAreGood, FreshIds, Ids
<1>4. /\ blocks'[nextId] = row
      /\ \A i \in Ids \ {nextId} : blocks'[i] = blocks[i]
    BY <1>2, <1>3 DEF IInv, RowsAreGood, GoodTable
<1> DEFINE with(table) == [i \in Ids |-> IF i = nextId THEN row ELSE table[i]]
           g == [j \in 1 .. Len(journal) + 1 |-> with(h[j])]
<1>5. ASSUME NEW table, LinkedOnce(table) PROVE LinkedOnce(with(table))
    BY <1>2, <1>5 DEF LinkedOnce, RowsOf
<1>6. ASSUME NEW s, NEW u, NEW entry \in EntryBelow(nextId), Leads(s, entry, u)
      PROVE  Leads(with(s), entry, with(u))
    <2>1. nextId \notin RowsOf(entry.before) /\ nextId \notin entry.created
        BY <1>3, <1>6 DEF EntryBelow, Below, Ids
    <2>2. ASSUME NEW i \in Ids, i # nextId PROVE with(s)[i] = s[i] /\ with(u)[i] = u[i]
        BY <2>2
    <2>3. with(s)[nextId] = row /\ with(u)[nextId] = row
        BY <1>3
    <2>4. RowsOf(entry.before) \subseteq Ids
        BY DEF RowsOf
    <2> HIDE DEF with
    <2> QED
        BY <1>2, <1>6, <2>1, <2>2, <2>3, <2>4 DEF Leads, AlikeAt, AlikeRow
<1>7. SameTable(with(h[Len(journal) + 1]), blocks')
    BY <1>1, <1>2, <1>4 DEF Passed, SameTable, AlikeAt, AlikeRow
<1>8. \A j \in 1 .. Len(journal) : j \in 1 .. Len(journal) + 1 /\ j + 1 \in 1 .. Len(journal) + 1
    BY <1>3
<1>9. Len(journal) + 1 \in 1 .. Len(journal) + 1
    BY <1>3
<1>10. \A j \in 1 .. Len(journal) + 1 : g[j] = with(h[j])
    OBVIOUS
<1> HIDE DEF with, g
<1>11. \E f : /\ \A j \in 1 .. Len(journal') : Leads(f[j], journal'[j], f[j + 1])
              /\ SameTable(f[Len(journal') + 1], blocks')
              /\ \A j \in 1 .. Len(journal') + 1 : LinkedOnce(f[j])
    <2>1. \A j \in 1 .. Len(journal) : Leads(g[j], journal[j], g[j + 1])
        BY <1>1, <1>3, <1>6, <1>8, <1>10 DEF Passed
    <2>2. \A j \in 1 .. Len(journal) + 1 : LinkedOnce(g[j])
        BY <1>1, <1>5, <1>10 DEF Passed
    <2>3. SameTable(g[Len(journal) + 1], blocks')
        BY <1>7, <1>9, <1>10
    <2> QED BY <1>3, <2>1, <2>2, <2>3
<1> QED
    BY <1>11 DEF Past, Passed, Leads, SameTable, AlikeAt, AlikeRow, LinkedOnce, RowsOf

LEMMA ExportPasses ==
    ASSUME IInv, Past, MarkExported
    PROVE  Past'
<1>1. ASSUME NEW i \in Ids PROVE AlikeAt(blocks, blocks', i)
    <2>1. CASE i \in Live
        <3> DEFINE b == blocks[i]
        <3>1. b \in Row
            BY <2>1, LiveIsGood DEF GoodRow
        <3>2. blocks'[i] = [b EXCEPT !.exported = TRUE]
            BY <2>1 DEF MarkExported, Unjournaled
        <3> HIDE DEF b
        <3>3. blocks'[i] \in Row
            BY <3>1, <3>2 DEF Row
        <3>4. AlikeRow(b, blocks'[i])
            <4>1. AlikeRow(b, [b EXCEPT !.exported = TRUE])
                BY <3>1, MarkersUnlike
            <4> QED BY <3>2, <4>1
        <3> QED BY <2>1, <3>3, <3>4, NoRowIsNull DEF AlikeAt, Live, RowsOf, b
    <2>2. CASE i \notin Live
        BY <2>2 DEF MarkExported, Unjournaled, AlikeAt, Live, RowsOf
    <2> QED BY <2>1, <2>2
<1> QED
    BY <1>1, AsidePasses DEF SameTable, MarkExported, Unjournaled

LEMMA SyncPasses ==
    ASSUME IInv, Past, NEW k \in Tickets, NEW w \in Worklogs, LineSent(k, w)
    PROVE  Past'
<1>1. ASSUME NEW i \in Ids PROVE AlikeAt(blocks, blocks', i)
    <2>1. CASE i \in Line(k)
        <3> DEFINE b == blocks[i]
        <3>1. b \in Row /\ i \in Live
            BY <2>1, LiveIsGood DEF GoodRow, Line
        <3>2. blocks'[i] = [b EXCEPT !.tempo = w, !.dirty = FALSE]
            BY <2>1 DEF LineSent, Unjournaled, SentAs
        <3> HIDE DEF b
        <3>3. blocks'[i] \in Row
            BY <3>1, <3>2 DEF Row
        <3>4. AlikeRow(b, blocks'[i])
            <4>1. AlikeRow(b, [b EXCEPT !.tempo = w, !.dirty = FALSE])
                BY <3>1, MarkersUnlike
            <4> QED BY <3>2, <4>1
        <3> QED BY <3>1, <3>3, <3>4, NoRowIsNull DEF AlikeAt, Live, RowsOf, b
    <2>2. CASE i \notin Line(k)
        BY <2>2 DEF LineSent, Unjournaled, AlikeAt, AlikeRow
    <2> QED BY <2>1, <2>2
<1> QED
    BY <1>1, AsidePasses DEF SameTable, LineSent, Unjournaled

(* For every day whose built blocks share no event, every list of edits    *)
(* and every journal depth, the owner, log_time, the collectors, the sync  *)
(* and the export stepping in any order, but no rebuild and no estimate:   *)
(* undo never makes one event count in two rows.  (undo_last)              *)
THEOREM UndoneLinksStayApart ==
    ASSUME Writers \subseteq {"owner", "hand", "collect", "sync", "export"},
           \A E \in DOMAIN Days : \A m, n \in DOMAIN Build(E) :
               m # n => Build(E)[m].events \cap Build(E)[n].events = {}
    PROVE  MCSpec => UndoLinksOnce
<1>1. MCInit => Past
    <2> SUFFICES ASSUME MCInit PROVE Past
        OBVIOUS
    <2> DEFINE h == [j \in {1} |-> blocks]
               day == Build(collected)
    <2>1. /\ journal = <<>> /\ Len(journal) = 0
          /\ blocks = [i \in Ids |-> IF i \in DOMAIN day THEN FreshRow(day[i]) ELSE Null]
        BY DEF MCInit
    <2>2. \A i \in RowsOf(blocks) : i \in DOMAIN day /\ blocks[i].events = day[i].events
        BY <2>1 DEF RowsOf, FreshRow
    <2>3. LinkedOnce(blocks)
        BY <2>2 DEF LinkedOnce, MCInit
    <2>4. h[1] = blocks /\ SameTable(blocks, blocks)
        BY DEF SameTable, AlikeAt, AlikeRow
    <2> HIDE DEF h
    <2>5. Passed(h)
        BY <2>1, <2>3, <2>4 DEF Passed
    <2> QED BY <2>5 DEF Past
<1>2. IInv /\ FreshIds /\ Past /\ [MCNext]_mcVars => Past'
    <2> SUFFICES ASSUME IInv, FreshIds, Past, [MCNext]_mcVars PROVE Past'
        OBVIOUS
    <2>1. CASE MCOwner
        <3>1. CASE OwnerChange
            BY <3>1, OwnerPasses
        <3>2. CASE UndoRestores
            BY <3>2, UndoPasses
        <3>3. CASE UndoStale
            BY <3>3, NewestLeads DEF UndoStale, Past
        <3> QED BY <2>1, <3>1, <3>2, <3>3 DEF MCOwner
    <2>2. CASE MCOther
        <3>1. CASE \E k \in Tickets, s \in HandStarts, d \in Minutes, t \in Texts :
                       LogTime(k, s, d, t)
            BY <3>1, HandPasses
        <3>2. CASE \E k \in Tickets, w \in Worklogs : LineSent(k, w)
            BY <3>2, SyncPasses
        <3>3. CASE \E e \in Late : Collect(e)
            <4>1. blocks' = blocks /\ journal' = journal
                BY <3>3 DEF Collect
            <4>2. SameTable(blocks, blocks')
                BY <4>1 DEF SameTable, AlikeAt, AlikeRow
            <4> QED BY <4>1, <4>2, AsidePasses
        <3>4. ~Acts("rebuild") /\ ~Acts("estimate")
            BY DEF Acts
        <3> QED BY <2>2, <3>1, <3>2, <3>3, <3>4 DEF MCOther
    <2>3. CASE MCExport
        BY <2>3, ExportPasses DEF MCExport
    <2>4. CASE UNCHANGED mcVars
        <3>1. blocks' = blocks /\ journal' = journal
            BY <2>4 DEF mcVars, vars
        <3>2. SameTable(blocks, blocks')
            BY <3>1 DEF SameTable, AlikeAt, AlikeRow
        <3> QED BY <3>1, <3>2, AsidePasses
    <2> QED BY <2>1, <2>2, <2>3, <2>4 DEF MCNext
<1>3. ASSUME IInv, Past, UndoRestores
      PROVE  LinkedOnce(blocks')
    <2>1. PICK h : Passed(h)
        BY <1>3 DEF Past
    <2>2. SameTable(h[Len(journal)], blocks')
        BY <1>3, <2>1, NewestLeads, AlikeSwaps DEF UndoRestores
    <2>3. LinkedOnce(h[Len(journal)])
        <3>1. Len(journal) \in 1 .. Len(journal) + 1
            BY <1>3 DEF IInv, RowsAreGood, UndoRestores
        <3> QED BY <2>1, <3>1 DEF Passed
    <2> QED BY <2>2, <2>3, AlikeIsLinkedOnce
<1>4. IInv /\ Past /\ [MCNext]_mcVars =>
          [UndoRestores /\ LinkedOnce(blocks) => LinkedOnce(blocks')]_vars
    BY <1>3
<1> QED
    BY <1>1, <1>2, <1>4, MCInvariant, PTL DEF MCSpec, UndoLinksOnce
-----------------------------------------------------------------------------
(* Split and merge. *)

LEMMA LoggedIs ==
    ASSUME NEW table \in GoodTable
    PROVE  /\ LoggedMinutes(table) = Durations(table, RowsOf(table))
           /\ IsFiniteSet(RowsOf(table)) /\ \A i \in RowsOf(table) : table[i].dur \in Nat
<1>1. IsFiniteSet(Ids) /\ RowsOf(table) \subseteq Ids
    BY FS_Interval, BoundsAssumption DEF Ids, RowsOf
<1>2. \A i \in RowsOf(table) : table[i] \in Row
    BY DEF GoodTable, RowsOf, GoodRow
<1> QED
    BY <1>1, <1>2, FS_Subset DEF Durations, LoggedMinutes, Row

LEMMA MergedRow ==
    ASSUME IInv, NEW p \in Live, NEW absorbed \in SUBSET Live, Merge(p, absorbed)
    PROVE  /\ p \notin absorbed /\ p \in Ids
           /\ blocks'[p] \in Row /\ blocks'[p].dur = Durations(blocks, absorbed \cup {p})
           /\ \A i \in absorbed : blocks'[i] = Null
           /\ \A i \in Ids \ (absorbed \cup {p}) : blocks'[i] = blocks[i]
<1> DEFINE all    == absorbed \cup {p}
           start  == Min({blocks[i].start : i \in all})
           total  == MapThenSumSet(LAMBDA i : blocks[i].dur, all)
           E      == UNION {blocks[i].events : i \in absorbed}
           row    == [blocks[p] EXCEPT !.start = start, !.dur = total, !.end = start + total,
                                       !.events = @ \cup E]
<1>1. /\ p \notin absorbed /\ p \in Ids /\ total \in 0 .. MaxMinutes
      /\ blocks' = [Only(blocks, Ids \ absorbed) EXCEPT ![p] = Absorbing(@, start, total, E)]
    BY DEF Merge, Change, Live, RowsOf
<1>2. blocks[p] \in Row /\ \A i \in all : blocks[i] \in Row
    BY LiveIsGood DEF GoodRow
<1>3. start \in Nat
    <2> DEFINE S == {blocks[i].start : i \in all}
    <2>1. S \in SUBSET Nat /\ S # {}
        BY <1>2 DEF Row
    <2>2. \E m \in S : \A n \in S : m <= n
        BY <2>1, SmallestNat
    <2> QED
        BY <2>1, <2>2 DEF Min
<1>4. total = Durations(blocks, all)
    BY DEF Durations
<1>5. E \in SUBSET Events
    BY <1>2 DEF Row
<1> HIDE DEF all, start, total, E
<1>6. total \in Nat
    BY <1>1, BoundsAssumption
<1>7. row \in Row /\ row.dur = total
    <2>1. start + total \in Nat /\ blocks[p].events \cup E \in SUBSET Events
        BY <1>2, <1>3, <1>5, <1>6 DEF Row
    <2> QED BY <1>2, <1>3, <1>6, <2>1 DEF Row
<1>8. Absorbing(blocks[p], start, total, E) = MarkDirty(row)
    BY DEF Absorbing
<1> HIDE DEF row
<1>9. MarkDirty(row) \in Row /\ MarkDirty(row).dur = total
    BY <1>7 DEF MarkDirty, Row
<1>10. blocks'[p] = MarkDirty(row)
    BY <1>1, <1>8 DEF Only
<1>11. /\ \A i \in absorbed : blocks'[i] = Null
       /\ \A i \in Ids \ all : blocks'[i] = blocks[i]
    BY <1>1 DEF Only, Live, RowsOf, all
<1> QED
    BY <1>1, <1>4, <1>9, <1>10, <1>11 DEF all

LEMMA MergeMovesTime ==
    ASSUME IInv, IInv', NEW p \in Live, NEW absorbed \in SUBSET Live, Merge(p, absorbed)
    PROVE  LoggedMinutes(blocks') = LoggedMinutes(blocks)
<1> DEFINE all    == absorbed \cup {p}
           others == Live \ all
<1>1. /\ p \notin absorbed /\ p \in Ids
      /\ blocks'[p] \in Row /\ blocks'[p].dur = Durations(blocks, all)
      /\ \A i \in absorbed : blocks'[i] = Null
      /\ \A i \in Ids \ all : blocks'[i] = blocks[i]
    BY MergedRow
<1>2. blocks \in GoodTable /\ blocks' \in GoodTable
    BY DEF IInv, RowsAreGood
<1>3. RowsOf(blocks') \ {p} = others /\ p \in RowsOf(blocks')
    BY <1>1, NoRowIsNull DEF RowsOf, Live
<1>4. LoggedMinutes(blocks') = Durations(blocks, all) + Durations(blocks', others)
    BY <1>1, <1>2, <1>3, LoggedIs, OneOut
<1>5. IsFiniteSet(others) /\ \A i \in others : blocks'[i] = blocks[i]
    <2>1. IsFiniteSet(RowsOf(blocks') \ {p})
        BY <1>2, LoggedIs, FS_RemoveElement
    <2> QED BY <1>1, <1>3, <2>1 DEF Live, RowsOf
<1>6. Durations(blocks', others) = Durations(blocks, others)
    BY <1>5, DurationsSame
<1>7. LoggedMinutes(blocks) = Durations(blocks, all) + Durations(blocks, others)
    BY <1>2, LoggedIs, Together DEF Live
<1> QED
    BY <1>4, <1>6, <1>7

LEMMA SplitMovesTime ==
    ASSUME IInv, IInv', FreshIds, NEW i \in Live, NEW d \in Minutes, Split(i, d)
    PROVE  LoggedMinutes(blocks') = LoggedMinutes(blocks)
<1> DEFINE b == blocks[i]
           others == Live \ {i}
<1>1. nextId \notin Live /\ d \in Nat /\ nextId \in Ids /\ i \in Ids /\ i # nextId
    BY BoundsAssumption DEF FreshIds, Below, Live, RowsOf, IInv, Split, Ids
<1>2. b \in Row /\ blocks \in GoodTable /\ blocks' \in GoodTable
    BY LiveIsGood DEF GoodRow, IInv, RowsAreGood
<1>3. blocks' = [blocks EXCEPT ![i] = FirstHalf(@, d), ![nextId] = SecondHalf(b, d)]
    BY DEF Split, Change
<1>4. /\ blocks'[i] = FirstHalf(b, d) /\ blocks'[nextId] = SecondHalf(b, d)
      /\ \A j \in Ids \ {i, nextId} : blocks'[j] = blocks[j]
    BY <1>1, <1>3 DEF IInv, RowsAreGood, GoodTable
<1>5. FirstHalf(b, d) \in Row /\ FirstHalf(b, d).dur = d
    <2> DEFINE r == [b EXCEPT !.events = {e \in @ : e.at < b.start + d}]
    <2>1. r \in Row
        BY <1>2 DEF Row
    <2> HIDE DEF r
    <2> DEFINE q == [r EXCEPT !.dur = d, !.end = r.start + d, !.by = "manual"]
    <2>2. q \in Row /\ q.dur = d
        <3>1. r.start + d \in Nat /\ "manual" \in Authors
            BY <1>1, <2>1 DEF Row, Authors
        <3> QED BY <1>1, <2>1, <3>1 DEF Row
    <2>3. Resized(r, d) = MarkDirty(q)
        BY DEF Resized
    <2> HIDE DEF q
    <2>4. MarkDirty(q) \in Row /\ MarkDirty(q).dur = d
        BY <2>2 DEF MarkDirty, Row
    <2> QED BY <2>3, <2>4 DEF FirstHalf, r
<1>6. SecondHalf(b, d).dur = b.dur - d /\ SecondHalf(b, d) # Null
    <2>1. SecondHalf(b, d).dur = b.dur - d
        BY <1>2 DEF SecondHalf, Row
    <2>2. SecondHalf(b, d) \in Row
        BY <1>1, <1>2, SecondHalfGood, LiveIsGood DEF Split, GoodRow
    <2> QED BY <2>1, <2>2, NoRowIsNull
<1> HIDE DEF b
<1>7. RowsOf(blocks') = others \cup {i, nextId} /\ Live = others \cup {i}
    BY <1>1, <1>4, <1>5, <1>6, NoRowIsNull DEF RowsOf, Live
<1>8. LoggedMinutes(blocks') = d + ((b.dur - d) + Durations(blocks', others))
    <2>1. LoggedMinutes(blocks') = d + Durations(blocks', RowsOf(blocks') \ {i})
        BY <1>2, <1>4, <1>5, <1>7, LoggedIs, OneOut
    <2>2. /\ IsFiniteSet(RowsOf(blocks') \ {i})
          /\ \A j \in RowsOf(blocks') \ {i} : blocks'[j].dur \in Nat
        BY <1>2, LoggedIs, FS_RemoveElement
    <2>3. nextId \in RowsOf(blocks') \ {i} /\ (RowsOf(blocks') \ {i}) \ {nextId} = others
        BY <1>1, <1>7
    <2>4. Durations(blocks', RowsOf(blocks') \ {i}) = (b.dur - d) + Durations(blocks', others)
        BY <1>4, <1>6, <2>2, <2>3, OneOut
    <2> QED BY <2>1, <2>4
<1>9. LoggedMinutes(blocks) = b.dur + Durations(blocks, others)
    BY <1>2, LoggedIs, OneOut DEF Live, b
<1>10. IsFiniteSet(others) /\ \A j \in others : blocks'[j] = blocks[j]
    BY <1>1, <1>2, <1>4, LoggedIs, FS_RemoveElement DEF Live, RowsOf
<1>11. Durations(blocks', others) = Durations(blocks, others)
    BY <1>10, DurationsSame
<1>12. Durations(blocks, others) \in Nat /\ b.dur \in Nat
    BY <1>2, <1>10, LoggedIs, DurationsNat DEF Live, Row
<1> QED
    BY <1>1, <1>8, <1>9, <1>11, <1>12

(* For any day, ids, lengths and bound, from every state that any writers  *)
(* can reach: a split and a merge keep the minutes logged on the day, and  *)
(* where no event counts twice before, none does after.                    *)
THEOREM TimeIsMoved == Spec => SplitAndMergeMoveTime
<1>1. IInv /\ IInv' /\ FreshIds =>
        [\A i \in Live :
          (\E d \in Minutes : Split(i, d)) \/ (\E S \in SUBSET Live : Merge(i, S))
              => /\ LoggedMinutes(blocks') = LoggedMinutes(blocks)
                 /\ LinkedOnce(blocks) => LinkedOnce(blocks')]_vars
  <2> SUFFICES ASSUME IInv, IInv', FreshIds, NEW i \in Live,
                      (\E d \in Minutes : Split(i, d)) \/ (\E S \in SUBSET Live : Merge(i, S))
               PROVE  /\ LoggedMinutes(blocks') = LoggedMinutes(blocks)
                      /\ LinkedOnce(blocks) => LinkedOnce(blocks')
    OBVIOUS
  <2>1. CASE \E d \in Minutes : Split(i, d)
    BY <2>1, SplitMovesTime, SplitIsTidy DEF Tidy
  <2>2. CASE \E S \in SUBSET Live : Merge(i, S)
    BY <2>2, MergeMovesTime, MergeIsTidy DEF Tidy
  <2> QED BY <2>1, <2>2
<1> QED BY <1>1, Invariance, FreshAlways, PTL DEF SplitAndMergeMoveTime
=============================================================================
