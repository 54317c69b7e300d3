------------------------- MODULE BlockJournalProofs -------------------------
(***************************************************************************)
(* TLAPS proofs about BlockJournal: the rows and the journal keep their    *)
(* types and stay good, no edit loses a worklog or leaves a sent row       *)
(* unmarked, undo leaves the markers alone, and a rebuild hands no         *)
(* worklog on twice.                                                       *)
(***************************************************************************)
EXTENDS BlockJournal, FoldLemmas

-----------------------------------------------------------------------------
(* What each statement writes into a good row leaves it a good row. *)

(* Marking an edited row keeps it good: the flag is set on sent rows only. *)
LEMMA MarkDirtyGood ==
    ASSUME NEW b \in Row, b.start + b.dur <= b.end, b.dirty => Synced(b)
    PROVE  MarkDirty(b) \in GoodRow
BY DEF MarkDirty, Row, GoodRow, RowOK, Synced

LEMMA AssignedGood ==
    ASSUME NEW b \in GoodRow, NEW k \in Tickets
    PROVE  Assigned(b, k) \in GoodRow
BY DEF MarkDirty, Assigned, GoodRow, RowOK, Row, Synced, Origins

LEMMA ClearedGood ==
    ASSUME NEW b \in GoodRow
    PROVE  Cleared(b) \in GoodRow
BY DEF MarkDirty, Cleared, GoodRow, RowOK, Row, Synced, Origins

LEMMA ResizedGood ==
    ASSUME NEW b \in GoodRow, NEW d \in Nat
    PROVE  Resized(b, d) \in GoodRow
<1> DEFINE r == [b EXCEPT !.dur = d, !.end = b.start + d, !.by = "manual"]
<1>1. b \in Row /\ b.start + d \in Nat /\ "manual" \in Authors
    BY DEF GoodRow, Row, Authors
<1>2. r \in Row /\ r.start = b.start /\ r.dur = d /\ r.end = b.start + d
      /\ r.dirty = b.dirty /\ r.tempo = b.tempo
    BY <1>1 DEF Row
<1>3. r.start + r.dur <= r.end /\ (r.dirty => Synced(r))
    BY <1>1, <1>2 DEF GoodRow, RowOK, Synced
<1>4. Resized(b, d) = MarkDirty(r)
    BY DEF Resized
<1> QED
    BY <1>2, <1>3, <1>4, MarkDirtyGood

LEMMA RewordedGood ==
    ASSUME NEW b \in GoodRow, NEW t \in Texts
    PROVE  Reworded(b, t) \in GoodRow
BY DEF MarkDirty, Reworded, GoodRow, RowOK, Row, Synced, Authors

(* Hiding a row and showing it again touch neither its time nor its sync.  *)
LEMMA MarkedGood ==
    ASSUME NEW b \in GoodRow, NEW p \in BOOLEAN
    PROVE  /\ [b EXCEPT !.personal = p] \in GoodRow
           /\ Ignored(b) \in GoodRow
           /\ Unignored(b) \in GoodRow
           /\ [b EXCEPT !.exported = TRUE] \in GoodRow
BY DEF Ignored, Unignored, GoodRow, RowOK, Row, Synced

LEMMA FirstHalfGood ==
    ASSUME NEW b \in GoodRow, NEW d \in Nat
    PROVE  FirstHalf(b, d) \in GoodRow
<1> DEFINE r == [b EXCEPT !.events = {e \in @ : e.at < b.start + d}]
<1>1. r \in GoodRow /\ r.start = b.start
    BY DEF GoodRow, RowOK, Row, Synced
<1>2. FirstHalf(b, d) = Resized(r, d)
    BY DEF FirstHalf
<1> QED
    BY <1>1, <1>2, ResizedGood

(* The tail of a split keeps what the block had left: it ends where the    *)
(* block did, d minutes later than its own start allows.                   *)
LEMMA SecondHalfGood ==
    ASSUME NEW b \in GoodRow, NEW d \in Nat, d < b.dur
    PROVE  SecondHalf(b, d) \in GoodRow
<1>1. b \in Row /\ b.start + b.dur <= b.end /\ b.dur \in Nat /\ b.start \in Nat /\ b.end \in Nat
    BY DEF GoodRow, RowOK, Row
<1>2. b.start + d \in Nat /\ b.dur - d \in Nat /\ (b.start + d) + (b.dur - d) <= b.end
    BY <1>1
<1>3. {e \in b.events : e.at >= b.start + d} \in SUBSET Events
    BY <1>1 DEF Row
<1> DEFINE r == SecondHalf(b, d)
<1>4. r \in Row /\ r.start = b.start + d /\ r.dur = b.dur - d /\ r.end = b.end
      /\ r.dirty = FALSE
    BY <1>1, <1>2, <1>3 DEF SecondHalf, Row, Authors
<1> QED
    BY <1>2, <1>4 DEF GoodRow, RowOK

LEMMA AbsorbingGood ==
    ASSUME NEW b \in GoodRow, NEW start \in Nat, NEW total \in Nat,
           NEW events \in SUBSET Events
    PROVE  Absorbing(b, start, total, events) \in GoodRow
<1> DEFINE r == [b EXCEPT !.start = start, !.dur = total, !.end = start + total,
                          !.events = @ \cup events]
<1>1. b \in Row /\ start + total \in Nat /\ b.events \cup events \in SUBSET Events
    BY DEF GoodRow, Row
<1>2. r \in Row /\ r.start = start /\ r.dur = total /\ r.end = start + total
      /\ r.dirty = b.dirty /\ r.tempo = b.tempo
    BY <1>1 DEF Row
<1>3. r.start + r.dur <= r.end /\ (r.dirty => Synced(r))
    BY <1>1, <1>2 DEF GoodRow, RowOK, Synced
<1>4. Absorbing(b, start, total, events) = MarkDirty(r)
    BY DEF Absorbing
<1> QED
    BY <1>2, <1>3, <1>4, MarkDirtyGood

(* The estimator claims no more than the block's span.                     *)
LEMMA EstimatedGood ==
    ASSUME NEW b \in GoodRow, NEW t \in Texts, NEW d \in Nat,
           NEW k \in Tickets \cup {Null}, d <= Span(b)
    PROVE  Estimated(b, t, d, k, Span(b)) \in GoodRow
<1>1. b \in Row /\ b.start \in Nat /\ b.end \in Nat /\ b.ticket \in Tickets \cup {Null}
      /\ b.origin \in Origins
    BY DEF GoodRow, Row
<1>2. Span(b) \in Nat /\ b.start + d <= b.end
    BY <1>1 DEF Span
<1> DEFINE r == Estimated(b, t, d, k, Span(b))
<1>3. r \in Row /\ r.start = b.start /\ r.dur = d /\ r.end = b.end
      /\ r.dirty = b.dirty /\ r.tempo = b.tempo
    BY <1>1, <1>2 DEF Estimated, Row, Authors, Origins
<1> QED
    BY <1>2, <1>3 DEF GoodRow, RowOK, Synced

LEMMA SentGood ==
    ASSUME NEW b \in GoodRow, NEW w \in Worklogs
    PROVE  SentAs(b, w) \in GoodRow
BY DEF SentAs, GoodRow, RowOK, Row
-----------------------------------------------------------------------------
(* What a rebuild inserts.                                                 *)

(* Of the events at the least distance, an earliest one is the nearest.    *)
LEMMA Nearest ==
    ASSUME NEW S \in SUBSET Events, S # {}, NEW t \in Nat
    PROVE  \E e \in S : \A f \in S : ~Closer(f, e, t)
<1> DEFINE D == {Distance(e, t) : e \in S}
<1>1. \A e \in S : Distance(e, t) \in Nat /\ e.at \in Nat
    BY BoundsAssumption DEF Distance
<1>2. PICK m \in D : \A n \in D : m <= n
    BY <1>1, SmallestNat
<1> DEFINE N == {e \in S : Distance(e, t) = m}
           A == {e.at : e \in N}
<1>3. PICK a \in A : \A n \in A : a <= n
    <2>1. A \in SUBSET Nat /\ A # {}
        BY <1>1, <1>2
    <2> HIDE DEF A
    <2> QED BY <2>1, SmallestNat
<1>4. PICK e \in N : e.at = a
    BY <1>3
<1>5. ASSUME NEW f \in S
      PROVE  ~Closer(f, e, t)
    <2>1. m <= Distance(f, t) /\ Distance(e, t) = m
        BY <1>2, <1>4
    <2>2. Distance(f, t) = m => a <= f.at
        BY <1>3
    <2> QED
        BY <1>1, <1>4, <2>1, <2>2 DEF Closer
<1> QED
    BY <1>4, <1>5

LEMMA PieceEventsType ==
    ASSUME NEW b \in Built, Located(b.events) # {}, NEW from \in Nat, NEW to \in Nat
    PROVE  PieceEvents(b, from, to) \in (SUBSET Events) \ {{}}
<1> DEFINE S == Located(b.events)
<1>1. b.events \in SUBSET Events /\ S \in SUBSET Events /\ S # {}
    BY DEF Built, Located
<1>2. (CHOOSE e \in S : \A f \in S : ~Closer(f, e, from)) \in S
    <2> HIDE DEF S
    <2> QED BY <1>1, Nearest
<1> QED
    BY <1>1, <1>2 DEF PieceEvents, Located

LEMMA KeyOfType ==
    ASSUME NEW E \in SUBSET Events
    PROVE  KeyOf(E) \in Tickets \cup {Null}
<1> DEFINE real == {e \in E : e.kind # "lifecycle"}
           keys == {e.key : e \in IF real = {} THEN E ELSE real} \ {Null}
<1>1. keys \subseteq Tickets
    BY BoundsAssumption
<1>2. Cardinality(keys) = 1 => keys # {}
    BY FS_EmptySet
<1> QED
    BY <1>1, <1>2 DEF KeyOf

(* Cutting a built block at ticket edges leaves built blocks.              *)
LEMMA PieceType ==
    ASSUME NEW b \in Built, Located(b.events) # {}, NEW from \in Nat, NEW to \in Nat, from < to
    PROVE  Piece(b, from, to) \in Built
<1> DEFINE E == PieceEvents(b, from, to)
           k == KeyOf(E)
<1>1. E \in (SUBSET Events) \ {{}} /\ k \in Tickets \cup {Null}
    BY PieceEventsType, KeyOfType
<1>2. Piece(b, from, to) = [b EXCEPT !.start = from, !.end = to, !.events = E, !.ticket = k]
    BY DEF Piece
<1>3. Piece(b, from, to) \in
        [start : Nat, end : Nat, ticket : Tickets \cup {Null}, cal : BOOLEAN,
         events : (SUBSET Events) \ {{}}]
    <2> HIDE DEF E, k
    <2> QED BY <1>1, <1>2 DEF Built
<1>4. Piece(b, from, to).start = from /\ Piece(b, from, to).end = to
    <2> HIDE DEF E, k
    <2> QED BY <1>1, <1>2 DEF Built
<1> QED
    BY <1>3, <1>4 DEF Built

Piecewise == [built : Built, of : Nat]

LEMMA PiecesType ==
    ASSUME blocks \in GoodTable, collected \in SUBSET Events
    PROVE  Pieces \subseteq Piecewise
<1>1. \A i \in Live : blocks[i] \in GoodRow
    BY DEF Live, RowsOf, GoodTable
<1>2. ASSUME NEW n \in DOMAIN Build(collected)
      PROVE  Build(collected)[n] \in Built /\ n \in Nat
    BY BuildAssumption
<1>3. ASSUME NEW n \in Nat, NEW b \in Built
      PROVE  Cut(n, b) \subseteq Piecewise
    <2>1. b.start \in Nat /\ b.end \in Nat
        BY DEF Built
    <2>2. \A p \in TicketChanges(b) : blocks[p].start \in Nat
        BY <1>1 DEF TicketChanges, TicketedOver, Priors, GoodRow, Row
    <2>3. Edges(b) \subseteq Nat
        BY <2>1, <2>2 DEF Edges
    <2>4. IsCut(b) /\ ~Vanishes(b) => \A w \in Gaps(b) : Piece(b, w[1], w[2]) \in Built
        BY <2>3, PieceType DEF Gaps, Vanishes
    <2> QED
        BY <2>4 DEF Cut, Piecewise
<1> QED
    BY <1>2, <1>3 DEF Pieces

LEMMA FreshRowGood ==
    ASSUME NEW b \in Built
    PROVE  FreshRow(b) \in GoodRow
BY DEF FreshRow, Built, GoodRow, RowOK, Row, Origins, Authors

(* A carried row keeps the built block's time and is not marked as edited. *)
LEMMA CarriedRowGood ==
    ASSUME NEW b \in Built, NEW c \in GoodRow
    PROVE  CarriedRow(b, c) \in GoodRow
<1> DEFINE r0 == FreshRow(b)
           r1 == CarryTicket(r0, c)
           r2 == CarryText(r1, c)
<1>1. c \in Row
    BY DEF GoodRow
<1>2. r0 \in GoodRow /\ r0.dirty = FALSE
    BY FreshRowGood DEF FreshRow
<1>3. r1 \in GoodRow /\ r1.dirty = FALSE
    <2> DEFINE r == [r0 EXCEPT !.ticket = c.ticket, !.origin = c.origin]
    <2>1. r1 \in {r0, r}
        BY DEF CarryTicket
    <2> HIDE DEF r0
    <2>2. r \in GoodRow /\ r.dirty = FALSE
        BY <1>1, <1>2 DEF GoodRow, RowOK, Row
    <2> HIDE DEF r
    <2> QED BY <1>2, <2>1, <2>2
<1>4. r2 \in GoodRow /\ r2.dirty = FALSE
    <2> DEFINE r == [r1 EXCEPT !.text = c.text, !.by = c.by, !.described = c.described]
    <2>1. r2 \in {r1, r}
        BY DEF CarryText
    <2> HIDE DEF r1
    <2>2. r \in GoodRow /\ r.dirty = FALSE
        BY <1>1, <1>3 DEF GoodRow, RowOK, Row
    <2> HIDE DEF r
    <2> QED BY <1>3, <2>1, <2>2
<1>5. CarriedRow(b, c) = [r2 EXCEPT !.tempo = c.tempo, !.exported = c.exported,
                                    !.ignored = c.ignored, !.personal = c.ignored]
    BY DEF CarriedRow
<1> HIDE DEF r2
<1> QED
    BY <1>1, <1>4, <1>5 DEF GoodRow, RowOK, Row, Synced
-----------------------------------------------------------------------------
(* The inductive invariant: RowsAreGood, and the types it needs of the     *)
(* other variables.  The rows in the journal must be good too, because     *)
(* undo puts them back.                                                    *)
IInv ==
    /\ RowsAreGood
    /\ nextId \in 1 .. MaxId + 1
    /\ collected \in SUBSET Events

LEMMA LiveIsGood ==
    ASSUME IInv
    PROVE  Live \subseteq Ids /\ \A i \in Live : blocks[i] \in GoodRow /\ blocks[i] # Null
BY DEF IInv, RowsAreGood, GoodTable, Live, RowsOf

LEMMA OnlyGood ==
    ASSUME NEW table \in GoodTable, NEW S
    PROVE  Only(table, S) \in GoodTable
BY DEF Only, GoodTable

LEMMA OneRowGood ==
    ASSUME NEW table \in GoodTable, NEW i \in Ids, NEW row \in GoodRow \cup {Null}
    PROVE  [table EXCEPT ![i] = row] \in GoodTable
BY DEF GoodTable

LEMMA JournaledGood ==
    ASSUME RowsAreGood, NEW touched, NEW table \in GoodTable, NEW created \in SUBSET Ids,
           Journaled(touched, table, created)
    PROVE  journal' \in Seq(GoodEntry)
<1> DEFINE entry == [before  |-> Only(blocks, touched),
                     after   |-> Only(table, touched),
                     created |-> created]
           all   == Append(journal, entry)
<1>1. entry \in GoodEntry
    BY OnlyGood DEF RowsAreGood, GoodEntry
<1>2. all \in Seq(GoodEntry) /\ all # <<>>
    <2> HIDE DEF entry
    <2> QED BY <1>1 DEF RowsAreGood
<1>3. Tail(all) \in Seq(GoodEntry)
    <2> HIDE DEF all
    <2> QED BY <1>2
<1>4. journal' = IF Len(all) > UndoDepth THEN Tail(all) ELSE all
    BY DEF Journaled
<1> HIDE DEF all
<1> QED
    BY <1>2, <1>3, <1>4

LEMMA ChangeGood ==
    ASSUME IInv, NEW touched, NEW table \in GoodTable, NEW created \in SUBSET Ids,
           nextId + Cardinality(created) \in 1 .. MaxId + 1,
           Change(touched, table, created)
    PROVE  IInv'
<1>1. blocks' \in GoodTable
    BY DEF Change
<1>2. journal' \in Seq(GoodEntry)
    BY JournaledGood DEF Change, IInv
<1>3. nextId' \in 1 .. MaxId + 1 /\ collected' \in SUBSET Events
    BY DEF Change, IInv
<1>4. RowsAreGood'
    BY <1>1, <1>2 DEF RowsAreGood, GoodTable, GoodEntry, GoodRow
<1> QED
    BY <1>3, <1>4 DEF IInv

LEMMA EditGood ==
    ASSUME IInv, NEW i \in Ids, NEW row \in GoodRow \cup {Null},
           Change({i}, [blocks EXCEPT ![i] = row], {})
    PROVE  IInv'
<1>1. [blocks EXCEPT ![i] = row] \in GoodTable
    BY OneRowGood DEF IInv, RowsAreGood
<1>2. nextId + Cardinality({}) \in 1 .. MaxId + 1
    BY FS_EmptySet DEF IInv
<1> QED
    BY <1>1, <1>2, ChangeGood
LEMMA MergeGood ==
    ASSUME IInv, NEW p \in Live, NEW absorbed \in SUBSET Live, Merge(p, absorbed)
    PROVE  IInv'
<1> DEFINE all    == absorbed \cup {p}
           start  == Min({blocks[i].start : i \in all})
           total  == MapThenSumSet(LAMBDA i : blocks[i].dur, all)
           events == UNION {blocks[i].events : i \in absorbed}
           table  == [Only(blocks, Ids \ absorbed) EXCEPT
                         ![p] = Absorbing(@, start, total, events)]
<1>1. /\ p \notin absorbed
      /\ total \in 0 .. MaxMinutes
      /\ Change(all, table, {})
    BY DEF Merge
<1>2. p \in Ids /\ blocks[p] \in GoodRow /\ \A i \in all : blocks[i] \in GoodRow
    BY LiveIsGood
<1>3. start \in Nat
    <2> DEFINE S == {blocks[i].start : i \in all}
    <2>1. S \in SUBSET Nat /\ S # {}
        BY <1>2 DEF GoodRow, Row
    <2>2. \E m \in S : \A n \in S : m <= n
        BY <2>1, SmallestNat
    <2> QED
        BY <2>1, <2>2 DEF Min
<1>4. total \in Nat
    <2> HIDE DEF total
    <2> QED BY <1>1, BoundsAssumption
<1>5. events \in SUBSET Events
    BY <1>2 DEF GoodRow, Row
<1>6. Absorbing(blocks[p], start, total, events) \in GoodRow
    <2> HIDE DEF start, total, events
    <2> QED BY <1>2, <1>3, <1>4, <1>5, AbsorbingGood
<1>7. table \in GoodTable
    <2> HIDE DEF start, total, events
    <2>1. Only(blocks, Ids \ absorbed) \in GoodTable
        BY OnlyGood DEF IInv, RowsAreGood
    <2>2. Only(blocks, Ids \ absorbed)[p] = blocks[p]
        BY <1>1, <1>2 DEF Only
    <2> QED
        BY <1>2, <1>6, <2>1, <2>2, OneRowGood
<1>8. nextId + Cardinality({}) \in 1 .. MaxId + 1
    BY FS_EmptySet DEF IInv
<1> HIDE DEF all, table
<1> QED
    BY <1>1, <1>7, <1>8, ChangeGood

LEMMA SplitGood ==
    ASSUME IInv, NEW i \in Live, NEW d \in Minutes, Split(i, d)
    PROVE  IInv'
<1> DEFINE table == [blocks EXCEPT ![i] = FirstHalf(@, d),
                                   ![nextId] = SecondHalf(blocks[i], d)]
<1>1. /\ d < blocks[i].dur /\ nextId <= MaxId
      /\ Change({i}, table, {nextId})
    BY DEF Split
<1>2. i \in Ids /\ blocks[i] \in GoodRow /\ d \in Nat /\ nextId \in Ids /\ MaxId \in Nat
    BY <1>1, LiveIsGood, BoundsAssumption DEF IInv, Ids
<1>3. FirstHalf(blocks[i], d) \in GoodRow /\ SecondHalf(blocks[i], d) \in GoodRow
    BY <1>1, <1>2, FirstHalfGood, SecondHalfGood
<1>4. table \in GoodTable
    BY <1>2, <1>3 DEF IInv, RowsAreGood, GoodTable
<1>5. nextId + Cardinality({nextId}) \in 1 .. MaxId + 1
    BY <1>1, <1>2, FS_Singleton DEF IInv, Ids
<1> HIDE DEF table
<1> QED
    BY <1>1, <1>2, <1>4, <1>5, ChangeGood

LEMMA OwnerChangeGood ==
    ASSUME IInv, OwnerChange
    PROVE  IInv'
<1> PICK i \in Live :
        \/ \E k \in Tickets : AssignTicket(i, k)
        \/ ClearTicket(i)
        \/ \E d \in Minutes : SetDuration(i, d)
        \/ \E t \in Texts : SetDescription(i, t)
        \/ \E p \in BOOLEAN : SetPersonal(i, p)
        \/ Ignore(i)
        \/ Unignore(i)
        \/ DeleteBlock(i)
        \/ \E S \in SUBSET Live : Merge(i, S)
        \/ \E d \in Minutes : Split(i, d)
    BY DEF OwnerChange
<1>0. i \in Ids /\ blocks[i] \in GoodRow
    BY LiveIsGood
<1>1. CASE \E k \in Tickets : AssignTicket(i, k)
    BY <1>0, <1>1, AssignedGood, EditGood DEF AssignTicket, Edit
<1>2. CASE ClearTicket(i)
    BY <1>0, <1>2, ClearedGood, EditGood DEF ClearTicket, Edit
<1>3. CASE \E d \in Minutes : SetDuration(i, d)
    BY <1>0, <1>3, ResizedGood, EditGood, BoundsAssumption DEF SetDuration, Edit
<1>4. CASE \E t \in Texts : SetDescription(i, t)
    BY <1>0, <1>4, RewordedGood, EditGood DEF SetDescription, Edit
<1>5. CASE \E p \in BOOLEAN : SetPersonal(i, p)
    BY <1>0, <1>5, MarkedGood, EditGood DEF SetPersonal, Edit
<1>6. CASE Ignore(i)
    BY <1>0, <1>6, MarkedGood, EditGood DEF Ignore, Edit
<1>7. CASE Unignore(i)
    BY <1>0, <1>7, MarkedGood, EditGood DEF Unignore, Edit
<1>8. CASE DeleteBlock(i)
    BY <1>0, <1>8, EditGood DEF DeleteBlock
<1>9. CASE \E S \in SUBSET Live : Merge(i, S)
    BY <1>9, MergeGood
<1>10. CASE \E d \in Minutes : Split(i, d)
    BY <1>10, SplitGood
<1> QED
    BY <1>1, <1>2, <1>3, <1>4, <1>5, <1>6, <1>7, <1>8, <1>9, <1>10
(* Undo puts back only entries whose rows were unsynced when they were     *)
(* recorded, so none of them is marked as edited; the marker columns of a  *)
(* live row stay as they are.                                              *)
LEMMA RestoredGood ==
    ASSUME IInv, NEW entry \in GoodEntry, ~Refused(entry)
    PROVE  Restored(entry) \in GoodTable
<1>1. entry.before \in GoodTable
    BY DEF GoodEntry
<1>2. ASSUME NEW i \in RowsOf(entry.before)
      PROVE  Rewritten(entry, i) \in GoodRow
    <2>1. entry.before[i] \in GoodRow /\ ~Synced(entry.before[i])
        BY <1>1 DEF RowsOf, GoodTable, Refused
    <2>2. entry.before[i].dirty = FALSE
        BY <2>1 DEF GoodRow, RowOK, Row
    <2>3. i \in Live => blocks[i] \in GoodRow
        BY LiveIsGood
    <2> DEFINE b == entry.before[i]
    <2> HIDE DEF b
    <2>4. b \in GoodRow /\ b.dirty = FALSE
        BY <2>1, <2>2 DEF b
    <2>5. i \in Live => [b EXCEPT !.tempo = blocks[i].tempo,
                                  !.exported = blocks[i].exported] \in GoodRow
        BY <2>3, <2>4 DEF GoodRow, RowOK, Row
    <2>6. [b EXCEPT !.tempo = Null] \in GoodRow
        BY <2>4 DEF GoodRow, RowOK, Row
    <2> QED
        BY <2>5, <2>6 DEF Rewritten, b
<1>3. blocks \in GoodTable
    BY DEF IInv, RowsAreGood
<1> QED
    BY <1>2, <1>3 DEF Restored, GoodTable

LEMMA NewestGood ==
    ASSUME IInv, journal # <<>>
    PROVE  Newest \in GoodEntry /\ Older \in Seq(GoodEntry)
BY DEF IInv, RowsAreGood, Newest, Older

LEMMA UndoGood ==
    ASSUME IInv, UndoLast
    PROVE  IInv'
<1>1. CASE UndoStale
    <2>1. blocks' \in GoodTable /\ journal' \in Seq(GoodEntry)
        BY <1>1, NewestGood DEF UndoStale, IInv, RowsAreGood
    <2> QED
        BY <1>1, <2>1 DEF UndoStale, IInv, RowsAreGood, GoodTable, GoodEntry, GoodRow
<1>2. CASE UndoRestores
    <2>1. blocks' \in GoodTable /\ journal' \in Seq(GoodEntry)
        BY <1>2, NewestGood, RestoredGood DEF UndoRestores
    <2> QED
        BY <1>2, <2>1 DEF UndoRestores, IInv, RowsAreGood, GoodTable, GoodEntry, GoodRow
<1> QED
    BY <1>1, <1>2 DEF UndoLast

(* Every row of a rebuilt table is a kept row, or was made for a piece of  *)
(* a built block.                                                          *)
LEMMA RebuildGood ==
    ASSUME IInv, Rebuild
    PROVE  IInv'
<1> DEFINE id(p) == nextId + Cardinality({q \in Pieces : PieceBefore(q, p)})
           at(i) == CHOOSE p \in Pieces : id(p) = i
<1>1. PICK carried \in [Pieces -> Priors \cup {Null}] :
          blocks' = [i \in Ids |->
                IF \E p \in Pieces : id(p) = i THEN NewRow(at(i), carried[at(i)])
                ELSE IF i \in Kept THEN blocks[i] ELSE Null]
    BY DEF Rebuild
<1>2. Pieces \subseteq Piecewise
    BY PiecesType DEF IInv, RowsAreGood
<1>3. ASSUME NEW p \in Pieces, NEW c \in Priors \cup {Null}
      PROVE  NewRow(p, c) \in GoodRow
    <2>1. p.built \in Built
        BY <1>2 DEF Piecewise
    <2>2. c # Null => blocks[c] \in GoodRow
        BY LiveIsGood DEF Priors
    <2> QED
        BY <2>1, <2>2, FreshRowGood, CarriedRowGood DEF NewRow
<1>4. ASSUME NEW i \in Ids
      PROVE  blocks'[i] \in GoodRow \cup {Null}
    <2>1. CASE \E p \in Pieces : id(p) = i
        <3>1. at(i) \in Pieces
            BY <2>1
        <3> HIDE DEF at
        <3>2. carried[at(i)] \in Priors \cup {Null}
            BY <1>1, <3>1
        <3>3. blocks'[i] = NewRow(at(i), carried[at(i)])
            BY <1>1, <2>1
        <3> QED
            BY <1>3, <3>1, <3>2, <3>3
    <2>2. CASE ~\E p \in Pieces : id(p) = i
        <3>1. blocks'[i] = IF i \in Kept THEN blocks[i] ELSE Null
            BY <1>1, <2>2
        <3> QED
            BY <3>1, LiveIsGood DEF Kept
    <2> QED
        BY <2>1, <2>2
<1>5. blocks' \in GoodTable
    <2>1. blocks' = [i \in Ids |-> blocks'[i]]
        BY <1>1
    <2> QED
        BY <1>4, <2>1 DEF GoodTable
<1>6. UNCHANGED <<collected, journal>> /\ nextId' \in 1 .. MaxId + 1
    BY DEF Rebuild
<1> QED
    BY <1>5, <1>6 DEF IInv, RowsAreGood, GoodTable, GoodEntry, GoodRow
LEMMA LogTimeGood ==
    ASSUME IInv, NEW k \in Tickets, NEW start \in HandStarts, NEW d \in Minutes,
           NEW t \in Texts, LogTime(k, start, d, t)
    PROVE  IInv'
<1> DEFINE row == [start |-> start, end |-> start + d, dur |-> d, ticket |-> k,
                   origin |-> "manual", text |-> t, by |-> "manual",
                   described |-> d, tempo |-> Null, dirty |-> FALSE,
                   personal |-> FALSE, ignored |-> FALSE, exported |-> FALSE,
                   events |-> {}]
<1>1. start \in Nat /\ d \in Nat /\ MaxId \in Nat
    BY BoundsAssumption
<1>2. row \in GoodRow
    BY <1>1 DEF GoodRow, RowOK, Row, Origins, Authors
<1>3. nextId \in Ids /\ nextId + 1 \in 1 .. MaxId + 1
    BY <1>1 DEF LogTime, IInv, Ids
<1>4. blocks' = [blocks EXCEPT ![nextId] = row]
    BY DEF LogTime
<1> HIDE DEF row
<1>5. blocks' \in GoodTable
    BY <1>2, <1>3, <1>4, OneRowGood DEF IInv, RowsAreGood
<1> QED
    BY <1>3, <1>5 DEF LogTime, IInv, RowsAreGood, GoodTable, GoodEntry, GoodRow

LEMMA UnjournaledGood ==
    ASSUME IInv, NEW table \in GoodTable, Unjournaled(table)
    PROVE  IInv'
BY DEF Unjournaled, IInv, RowsAreGood, GoodTable, GoodEntry, GoodRow

LEMMA OtherWriterGood ==
    ASSUME IInv, OtherWriter
    PROVE  IInv'
<1>0. blocks \in GoodTable
    BY DEF IInv, RowsAreGood
<1>1. CASE Rebuild
    BY <1>1, RebuildGood
<1>2. CASE \E k \in Tickets, s \in HandStarts, d \in Minutes, t \in Texts :
               LogTime(k, s, d, t)
    BY <1>2, LogTimeGood
<1>3. ASSUME NEW i \in Live, NEW t \in Texts, NEW d \in Minutes,
             NEW k \in Tickets \cup {Null}, EstimateBlock(i, t, d, k)
      PROVE  IInv'
    <2>1. Estimated(blocks[i], t, d, k, Span(blocks[i])) \in GoodRow
        BY <1>3, LiveIsGood, EstimatedGood, BoundsAssumption DEF EstimateBlock
    <2>2. [blocks EXCEPT ![i] = Estimated(@, t, d, k, Span(@))] \in GoodTable
        BY <1>0, <2>1, LiveIsGood DEF GoodTable
    <2> QED
        BY <1>3, <2>2, UnjournaledGood DEF EstimateBlock
<1>4. ASSUME NEW k \in Tickets, NEW w \in Worklogs, LineSent(k, w)
      PROVE  IInv'
    <2> DEFINE table == [i \in Ids |-> IF i \in Line(k) THEN SentAs(blocks[i], w)
                                      ELSE blocks[i]]
    <2>1. table \in GoodTable
        BY <1>0, LiveIsGood, SentGood DEF GoodTable, Line
    <2>2. Unjournaled(table)
        BY <1>4 DEF LineSent
    <2> HIDE DEF table
    <2> QED
        BY <2>1, <2>2, UnjournaledGood
<1>5. CASE MarkExported
    <2> DEFINE table == [i \in Ids |-> IF i \in Live THEN [blocks[i] EXCEPT !.exported = TRUE]
                                      ELSE Null]
    <2>1. table \in GoodTable
        BY LiveIsGood, MarkedGood DEF GoodTable
    <2>2. Unjournaled(table)
        BY <1>5 DEF MarkExported
    <2> HIDE DEF table
    <2> QED
        BY <2>1, <2>2, UnjournaledGood
<1> QED
    BY <1>1, <1>2, <1>3, <1>4, <1>5 DEF OtherWriter

LEMMA InitGood ==
    Init => IInv
BY BoundsAssumption DEF Init, IInv, RowsAreGood, GoodTable, GoodEntry

LEMMA NextGood ==
    IInv /\ [Next]_vars => IInv'
<1> SUFFICES ASSUME IInv, [Next]_vars PROVE IInv'
    OBVIOUS
<1>1. CASE OwnerChange
    BY <1>1, OwnerChangeGood
<1>2. CASE UndoLast
    BY <1>2, UndoGood
<1>3. CASE \E e \in Events : Collect(e)
    BY <1>3 DEF Collect, IInv, RowsAreGood, GoodTable, GoodEntry, GoodRow
<1>4. CASE OtherWriter
    BY <1>4, OtherWriterGood
<1>5. CASE UNCHANGED vars
    BY <1>5 DEF vars, IInv, RowsAreGood, GoodTable, GoodEntry, GoodRow
<1> QED
    BY <1>1, <1>2, <1>3, <1>4, <1>5 DEF Next

LEMMA Invariance ==
    Spec => []IInv
<1> QED
    BY InitGood, NextGood, PTL DEF Spec

-----------------------------------------------------------------------------
(* Every table and every journal entry keeps its type: no operation writes *)
(* a negative duration, a stray id, an origin or an author outside the     *)
(* columns' values.                                                        *)
THEOREM TypesHold ==
    Spec => []TypeOK
<1>1. GoodTable \subseteq Table
    BY DEF GoodTable, Table, GoodRow
<1>2. GoodEntry \subseteq Entry
    BY <1>1 DEF GoodEntry, Entry
<1>3. Seq(GoodEntry) \subseteq Seq(Entry)
    BY <1>2
<1>4. IInv => TypeOK
    BY <1>1, <1>3 DEF IInv, RowsAreGood, TypeOK
<1> QED
    BY <1>4, Invariance, PTL

(* For every day, every list of edits and any number of blocks: the time   *)
(* on a row fits between its start and its end, and only a sent row is     *)
(* marked as edited, also after any undo.                                  *)
THEOREM RowsStayGood ==
    Spec => []RowsAreGood
<1>1. IInv => RowsAreGood
    BY DEF IInv
<1> QED
    BY <1>1, Invariance, PTL
(* A row that undo rewrites keeps the markers of the live row it replaces; *)
(* a row it takes away was not sent; a row it brings back is not sent.     *)
THEOREM UndoLeavesMarkersAlone ==
    Spec => UndoKeepsMarkers
<1> DEFINE Kept1 == \A i \in Live \cap RowsOf(blocks') :
                /\ blocks'[i].tempo = blocks[i].tempo
                /\ blocks'[i].exported = blocks[i].exported
           Kept2 == \A i \in Live \ RowsOf(blocks') : ~Synced(blocks[i])
           Kept3 == \A i \in RowsOf(blocks') \ Live : ~Synced(blocks'[i])
<1>1. ASSUME IInv, UndoRestores
      PROVE  Kept1 /\ Kept2 /\ Kept3
    <2>1. blocks' = Restored(Newest) /\ Newest \in GoodEntry /\ ~Refused(Newest)
        BY <1>1, NewestGood DEF UndoRestores
    <2>2. ASSUME NEW i \in RowsOf(Newest.before)
          PROVE  /\ i \in Ids
                 /\ blocks'[i] # Null
                 /\ i \in Live => /\ blocks'[i].tempo = blocks[i].tempo
                                  /\ blocks'[i].exported = blocks[i].exported
                 /\ i \notin Live => blocks'[i].tempo = Null
        <3>1. i \in Ids /\ Newest.before[i] \in GoodRow
            BY <2>1 DEF RowsOf, GoodEntry, GoodTable
        <3>2. blocks'[i] = Rewritten(Newest, i)
            BY <2>1, <3>1 DEF Restored
        <3>3. i \in Live => blocks[i] \in GoodRow
            BY <1>1, LiveIsGood
        <3> DEFINE b == Newest.before[i]
        <3>4. b \in Row
            BY <3>1 DEF GoodRow
        <3> HIDE DEF b
        <3>5. blocks'[i] = IF i \in Live
                           THEN [b EXCEPT !.tempo = blocks[i].tempo,
                                          !.exported = blocks[i].exported]
                           ELSE [b EXCEPT !.tempo = Null]
            BY <3>2 DEF Rewritten, b
        <3>6. blocks'[i] \in Row
            BY <3>3, <3>4, <3>5 DEF GoodRow, Row
        <3>7. blocks'[i] # Null
            BY <3>6, NoRowIsNull
        <3>8. i \in Live => /\ blocks'[i].tempo = blocks[i].tempo
                           /\ blocks'[i].exported = blocks[i].exported
            BY <3>4, <3>5 DEF Row
        <3>9. i \notin Live => blocks'[i].tempo = Null
            BY <3>4, <3>5 DEF Row
        <3> QED
            BY <3>1, <3>7, <3>8, <3>9
    <2>3. \A i \in Ids \ RowsOf(Newest.before) :
              blocks'[i] = IF i \in Newest.created THEN Null ELSE blocks[i]
        BY <2>1 DEF Restored
    <2>4. Live \subseteq Ids /\ RowsOf(blocks') \subseteq Ids
        BY DEF Live, RowsOf
    <2>5. Kept1
        BY <2>2, <2>3, <2>4 DEF RowsOf
    <2>6. Kept2
        BY <2>1, <2>2, <2>3, <2>4 DEF RowsOf, Live, Refused, LiveSynced
    <2>7. Kept3
        BY <2>2, <2>3, <2>4 DEF RowsOf, Live, Synced
    <2> QED
        BY <2>5, <2>6, <2>7
<1>2. ASSUME UndoStale
      PROVE  Kept1 /\ Kept2 /\ Kept3
    BY <1>2 DEF UndoStale, Live
<1>3. IInv /\ [Next]_vars => [UndoLast => Kept1 /\ Kept2 /\ Kept3]_vars
    BY <1>1, <1>2 DEF UndoLast
<1> QED
    BY <1>3, Invariance, PTL DEF Spec, UndoKeepsMarkers

-----------------------------------------------------------------------------
(* Ids are given out once: no row, and none that undo may put back or take *)
(* away, has the id the next new row gets.                                 *)

Below(table, n) == \A i \in RowsOf(table) : i < n

EntryBelow(n) == {e \in GoodEntry : Below(e.before, n) /\ \A i \in e.created : i < n}

FreshIds ==
    /\ Below(blocks, nextId)
    /\ journal \in Seq(EntryBelow(nextId))

LEMMA ImageFinite ==
    ASSUME NEW S, IsFiniteSet(S), NEW T, NEW f \in [S -> T], T = {f[x] : x \in S}
    PROVE  IsFiniteSet(T)
<1>1. f \in Surjection(S, T)
    BY DEF Surjection
<1> QED
    BY <1>1, FS_Surjection

(* A rebuild makes finitely many pieces. *)
LEMMA CutFinite ==
    ASSUME NEW n, NEW b
    PROVE  IsFiniteSet(Cut(n, b))
<1>1. IsFiniteSet(TicketChanges(b))
    <2>1. IsFiniteSet(Ids)
        BY FS_Interval, BoundsAssumption DEF Ids
    <2>2. TicketChanges(b) \in SUBSET Ids
        BY DEF TicketChanges, TicketedOver, Priors, Live, RowsOf
    <2> QED
        BY <2>1, <2>2, FS_Subset
<1>2. IsFiniteSet(Edges(b))
    <2> DEFINE S == TicketChanges(b)
               f == [p \in S |-> blocks[p].start]
               T == {f[p] : p \in S}
               U == {t \in {blocks[p].start : p \in TicketChanges(b)} : b.start < t /\ t < b.end}
    <2>1. IsFiniteSet(T)
        <3>1. f \in [S -> T] /\ T = {f[x] : x \in S}
            OBVIOUS
        <3> HIDE DEF f, T
        <3> QED
            BY <1>1, <3>1, ImageFinite
    <2>2. U \in SUBSET T
        OBVIOUS
    <2>3. IsFiniteSet(U)
        <3> HIDE DEF T, U
        <3> QED
            BY <2>1, <2>2, FS_Subset
    <2>4. IsFiniteSet({b.start}) /\ IsFiniteSet({b.end})
        BY FS_Singleton
    <2>5. {b.start, b.end} = {b.start} \cup {b.end}
        OBVIOUS
    <2>6. IsFiniteSet({b.start, b.end})
        BY <2>4, <2>5, FS_Union
    <2> HIDE DEF U
    <2>7. IsFiniteSet({b.start, b.end} \cup U)
        BY <2>3, <2>6, FS_Union
    <2> QED
        BY <2>7 DEF Edges, U
<1>3. IsFiniteSet(Gaps(b))
    <2>1. IsFiniteSet(Edges(b) \X Edges(b))
        BY <1>2, FS_Product
    <2>2. Gaps(b) \in SUBSET (Edges(b) \X Edges(b))
        BY DEF Gaps
    <2> QED
        BY <2>1, <2>2, FS_Subset
<1>4. IsFiniteSet({[built |-> b, of |-> n]}) /\ IsFiniteSet({})
    BY FS_Singleton, FS_EmptySet
<1> DEFINE g == [w \in Gaps(b) |-> [built |-> Piece(b, w[1], w[2]), of |-> n]]
           C == {[built |-> Piece(b, w[1], w[2]), of |-> n] : w \in Gaps(b)}
<1>5. IsFiniteSet(C)
    <2>1. g \in [Gaps(b) -> C] /\ C = {g[w] : w \in Gaps(b)}
        OBVIOUS
    <2> HIDE DEF g, C
    <2> QED
        BY <1>3, <2>1, ImageFinite
<1> QED
    BY <1>4, <1>5 DEF Cut

LEMMA PiecesFinite ==
    ASSUME collected \in SUBSET Events
    PROVE  IsFiniteSet(Pieces)
<1> DEFINE day == Build(collected)
           f == [n \in DOMAIN day |-> Cut(n, day[n])]
           T == {Cut(n, day[n]) : n \in DOMAIN day}
<1>1. IsFiniteSet(DOMAIN day)
    <2>1. day \in Seq(Built)
        BY BuildAssumption
    <2>2. DOMAIN day = 1 .. Len(day) /\ Len(day) \in Nat
        BY <2>1
    <2> QED
        BY <2>2, FS_Interval
<1>2. IsFiniteSet(T)
    <2>1. f \in [DOMAIN day -> T] /\ T = {f[n] : n \in DOMAIN day}
        OBVIOUS
    <2> HIDE DEF f, T, day
    <2> QED
        BY <1>1, <2>1, ImageFinite
<1>3. \A c \in T : IsFiniteSet(c)
    BY CutFinite
<1>4. Pieces = UNION T
    BY DEF Pieces
<1> HIDE DEF T
<1> QED
    BY <1>2, <1>3, <1>4, FS_UNION

LEMMA BelowMore ==
    ASSUME NEW m \in Nat, NEW n \in Nat, m <= n
    PROVE  /\ \A table : Below(table, m) => Below(table, n)
           /\ EntryBelow(m) \subseteq EntryBelow(n)
           /\ Seq(EntryBelow(m)) \subseteq Seq(EntryBelow(n))
<1>1. \A table : Below(table, m) => Below(table, n)
    BY DEF Below, RowsOf, Ids
<1>2. EntryBelow(m) \subseteq EntryBelow(n)
    BY <1>1 DEF EntryBelow, GoodEntry, Ids
<1> QED
    BY <1>1, <1>2

LEMMA ChangeFresh ==
    ASSUME IInv, FreshIds, NEW touched, NEW table \in GoodTable, NEW created \in SUBSET Ids,
           Change(touched, table, created), nextId' \in Nat, nextId <= nextId',
           Below(table, nextId'), \A i \in created : i < nextId'
    PROVE  FreshIds'
<1> DEFINE entry == [before  |-> Only(blocks, touched),
                     after   |-> Only(table, touched),
                     created |-> created]
           all   == Append(journal, entry)
<1>1. nextId \in Nat
    BY BoundsAssumption DEF IInv
<1>2. entry \in GoodEntry
    BY OnlyGood DEF IInv, RowsAreGood, GoodEntry
<1>3. Below(entry.before, nextId')
    BY <1>1 DEF FreshIds, Below, Only, RowsOf, Live, Ids
<1>4. entry \in EntryBelow(nextId')
    BY <1>2, <1>3 DEF EntryBelow
<1>5. all \in Seq(EntryBelow(nextId')) /\ all # <<>>
    <2>1. journal \in Seq(EntryBelow(nextId'))
        BY <1>1, BelowMore DEF FreshIds
    <2> HIDE DEF entry
    <2> QED BY <1>4, <2>1
<1>6. Tail(all) \in Seq(EntryBelow(nextId'))
    <2> HIDE DEF all
    <2> QED BY <1>5
<1>7. journal' \in Seq(EntryBelow(nextId'))
    <2>1. journal' = IF Len(all) > UndoDepth THEN Tail(all) ELSE all
        BY DEF Change, Journaled
    <2> HIDE DEF all
    <2> QED BY <1>5, <1>6, <2>1
<1>8. Below(blocks', nextId')
    BY DEF Change
<1>9. EntryBelow(nextId)' = EntryBelow(nextId')
    BY DEF EntryBelow, GoodEntry, GoodTable, GoodRow, Below, RowsOf
<1> QED
    BY <1>7, <1>8, <1>9 DEF FreshIds, Below, RowsOf

(* An undo puts back rows with ids given out long ago. *)
LEMMA UndoFresh ==
    ASSUME IInv, FreshIds, UndoLast
    PROVE  FreshIds'
<1>1. journal # <<>> /\ journal' = Older /\ nextId' = nextId
    BY DEF UndoLast, UndoStale, UndoRestores
<1>2. Newest \in EntryBelow(nextId) /\ Older \in Seq(EntryBelow(nextId))
    <2> DEFINE E == EntryBelow(nextId)
    <2>1. journal \in Seq(E)
        BY DEF FreshIds
    <2> HIDE DEF E
    <2>2. Newest \in E /\ Older \in Seq(E)
        BY <1>1, <2>1 DEF Newest, Older
    <2> QED
        BY <2>2 DEF E
<1>3. blocks' = blocks \/ blocks' = Restored(Newest)
    BY DEF UndoLast, UndoStale, UndoRestores
<1>4. Below(Restored(Newest), nextId)
    <2>1. RowsOf(Restored(Newest)) \subseteq RowsOf(Newest.before) \cup Live
        BY DEF Restored, RowsOf, Live
    <2>2. Below(Newest.before, nextId)
        BY <1>2 DEF EntryBelow
    <2> QED
        BY <2>1, <2>2 DEF FreshIds, Below, Live
<1>5. Below(blocks', nextId)
    BY <1>3, <1>4 DEF FreshIds
<1>6. EntryBelow(nextId)' = EntryBelow(nextId)
    BY <1>1 DEF EntryBelow, GoodEntry, GoodTable, GoodRow, Below, RowsOf
<1> QED
    BY <1>1, <1>2, <1>5, <1>6 DEF FreshIds, Below, RowsOf

(* A step that leaves the journal and adds no id beyond the next one.      *)
LEMMA JournalStays ==
    ASSUME IInv, FreshIds, journal' = journal, nextId' \in Nat, nextId <= nextId',
           Below(blocks', nextId')
    PROVE  FreshIds'
<1>1. nextId \in Nat
    BY BoundsAssumption DEF IInv
<1>2. journal' \in Seq(EntryBelow(nextId'))
    BY <1>1, BelowMore DEF FreshIds
<1>3. EntryBelow(nextId)' = EntryBelow(nextId')
    BY DEF EntryBelow, GoodEntry, GoodTable, GoodRow, Below, RowsOf
<1> QED
    BY <1>2, <1>3 DEF FreshIds, Below, RowsOf

(* The pieces of a rebuild take the next ids, one each. *)
LEMMA RebuildFresh ==
    ASSUME IInv, FreshIds, Rebuild
    PROVE  FreshIds'
<1> DEFINE before(p) == {q \in Pieces : PieceBefore(q, p)}
           id(p) == nextId + Cardinality(before(p))
           at(i) == CHOOSE p \in Pieces : id(p) = i
<1>1. PICK carried \in [Pieces -> Priors \cup {Null}] :
          blocks' = [i \in Ids |->
                IF \E p \in Pieces : id(p) = i THEN NewRow(at(i), carried[at(i)])
                ELSE IF i \in Kept THEN blocks[i] ELSE Null]
    BY DEF Rebuild
<1>2. nextId' = nextId + Cardinality(Pieces) /\ journal' = journal
    BY DEF Rebuild
<1>3. IsFiniteSet(Pieces) /\ Cardinality(Pieces) \in Nat /\ nextId \in Nat
    BY PiecesFinite, FS_CardinalityType, BoundsAssumption DEF IInv
<1>4. ASSUME NEW p \in Pieces
      PROVE  id(p) < nextId'
    <2>1. before(p) \in SUBSET Pieces
        OBVIOUS
    <2>2. p \notin before(p)
        <3>1. p.built \in Built /\ p.of \in Nat
            BY PiecesType DEF Piecewise, IInv, RowsAreGood
        <3>2. p.built.start \in Nat
            BY <3>1 DEF Built
        <3> QED
            BY <3>1, <3>2 DEF PieceBefore
    <2> HIDE DEF before
    <2>3. /\ IsFiniteSet(before(p)) /\ Cardinality(before(p)) <= Cardinality(Pieces)
          /\ Cardinality(before(p)) # Cardinality(Pieces)
        BY <1>3, <2>1, <2>2, FS_Subset
    <2>4. Cardinality(before(p)) \in Nat
        BY <2>3, FS_CardinalityType
    <2> QED
        BY <1>2, <1>3, <2>3, <2>4
<1>5. nextId' \in Nat /\ nextId <= nextId'
    BY <1>2, <1>3
<1>6. Below(blocks', nextId')
    <2> SUFFICES ASSUME NEW i \in Ids, blocks'[i] # Null PROVE i < nextId'
        BY DEF Below, RowsOf
    <2> HIDE DEF id, at
    <2>1. (\E p \in Pieces : id(p) = i) \/ i \in Kept
        BY <1>1
    <2>2. i \in Kept => i < nextId
        BY DEF Kept, Live, FreshIds, Below
    <2>3. CASE \E p \in Pieces : id(p) = i
        BY <1>4, <2>3
    <2>4. CASE i \in Kept
        BY <1>3, <1>5, <2>2, <2>4 DEF Ids
    <2> QED
        BY <2>1, <2>3, <2>4
<1> QED
    BY <1>2, <1>5, <1>6, JournalStays

LEMMA OwnerFresh ==
    ASSUME IInv, FreshIds, OwnerChange
    PROVE  FreshIds'
<1>0. nextId \in Nat /\ blocks \in GoodTable /\ nextId + Cardinality({}) = nextId
    BY BoundsAssumption, FS_EmptySet DEF IInv, RowsAreGood
<1>1. ASSUME NEW i \in Live, NEW row \in GoodRow \cup {Null},
             Change({i}, [blocks EXCEPT ![i] = row], {})
      PROVE  FreshIds'
    <2>1. [blocks EXCEPT ![i] = row] \in GoodTable
        BY <1>0, OneRowGood DEF Live, RowsOf
    <2>2. Below([blocks EXCEPT ![i] = row], nextId)
        BY <1>0 DEF FreshIds, Below, Live, RowsOf, GoodTable
    <2>3. nextId' = nextId
        BY <1>0, <1>1 DEF Change
    <2> QED
        BY <1>0, <1>1, <2>1, <2>2, <2>3, ChangeFresh
<1>2. ASSUME NEW p \in Live, NEW S \in SUBSET Live, Merge(p, S)
      PROVE  FreshIds'
    <2> DEFINE all == S \cup {p}
    <2>1. IInv'
        BY <1>2, MergeGood
    <2>2. PICK table : Change(all, table, {}) /\ RowsOf(table) \subseteq Live
        <3> DEFINE start == Min({blocks[i].start : i \in all})
                   total == MapThenSumSet(LAMBDA i : blocks[i].dur, all)
                   row == Absorbing(Only(blocks, Ids \ S)[p], start, total,
                                    UNION {blocks[i].events : i \in S})
                   table == [Only(blocks, Ids \ S) EXCEPT ![p] = row]
        <3>1. Change(all, table, {})
            BY <1>2 DEF Merge
        <3> HIDE DEF row
        <3>2. RowsOf(table) \subseteq Live
            BY DEF RowsOf, Only, Live
        <3> QED
            BY <3>1, <3>2
    <2>3. table \in GoodTable
        <3>1. table = blocks' /\ RowsAreGood'
            BY <2>1, <2>2 DEF Change, IInv
        <3> QED
            BY <3>1 DEF RowsAreGood, GoodTable, GoodRow
    <2>4. nextId' = nextId /\ Below(table, nextId)
        BY <1>0, <2>2 DEF Change, FreshIds, Below, Live
    <2> QED
        BY <1>0, <2>2, <2>3, <2>4, ChangeFresh
<1>3. ASSUME NEW i \in Live, NEW d \in Minutes, Split(i, d)
      PROVE  FreshIds'
    <2> DEFINE table == [blocks EXCEPT ![i] = FirstHalf(@, d),
                                       ![nextId] = SecondHalf(blocks[i], d)]
    <2>1. Change({i}, table, {nextId}) /\ nextId \in Ids /\ nextId' = nextId + 1
        <3>1. Change({i}, table, {nextId}) /\ nextId <= MaxId
            BY <1>3 DEF Split
        <3>2. Cardinality({nextId}) = 1
            BY FS_Singleton
        <3>3. nextId' = nextId + 1
            BY <3>1, <3>2 DEF Change
        <3> QED
            BY <1>0, <3>1, <3>3, BoundsAssumption DEF IInv, Ids
    <2>2. IInv'
        BY <1>3, SplitGood
    <2>3. table \in GoodTable
        <3>1. table = blocks' /\ RowsAreGood'
            BY <2>1, <2>2 DEF Change, IInv
        <3> QED
            BY <3>1 DEF RowsAreGood, GoodTable, GoodRow
    <2>4. RowsOf(table) \subseteq Live \cup {nextId}
        <3>1. \A j \in Ids \ {i, nextId} : table[j] = blocks[j]
            BY <1>0 DEF GoodTable
        <3> HIDE DEF table
        <3> QED
            BY <3>1 DEF RowsOf, Live
    <2>5. Below(table, nextId + 1)
        BY <1>0, <2>4 DEF FreshIds, Below, Live, RowsOf, Ids
    <2> HIDE DEF table
    <2> QED
        BY <1>0, <2>1, <2>3, <2>5, ChangeFresh
<1> PICK i \in Live :
        \/ \E k \in Tickets : AssignTicket(i, k)
        \/ ClearTicket(i)
        \/ \E d \in Minutes : SetDuration(i, d)
        \/ \E t \in Texts : SetDescription(i, t)
        \/ \E p \in BOOLEAN : SetPersonal(i, p)
        \/ Ignore(i)
        \/ Unignore(i)
        \/ DeleteBlock(i)
        \/ \E S \in SUBSET Live : Merge(i, S)
        \/ \E d \in Minutes : Split(i, d)
    BY DEF OwnerChange
<1>4. blocks[i] \in GoodRow
    BY LiveIsGood
<1>5. CASE \E k \in Tickets : AssignTicket(i, k)
    BY <1>1, <1>4, <1>5, AssignedGood DEF AssignTicket, Edit
<1>6. CASE ClearTicket(i)
    BY <1>1, <1>4, <1>6, ClearedGood DEF ClearTicket, Edit
<1>7. CASE \E d \in Minutes : SetDuration(i, d)
    BY <1>1, <1>4, <1>7, ResizedGood, BoundsAssumption DEF SetDuration, Edit
<1>8. CASE \E t \in Texts : SetDescription(i, t)
    BY <1>1, <1>4, <1>8, RewordedGood DEF SetDescription, Edit
<1>9. CASE (\E p \in BOOLEAN : SetPersonal(i, p)) \/ Ignore(i) \/ Unignore(i)
    BY <1>1, <1>4, <1>9, MarkedGood DEF SetPersonal, Ignore, Unignore, Edit
<1>10. CASE DeleteBlock(i)
    BY <1>1, <1>10 DEF DeleteBlock
<1> QED
    BY <1>2, <1>3, <1>5, <1>6, <1>7, <1>8, <1>9, <1>10

LEMMA OtherWriterFresh ==
    ASSUME IInv, FreshIds, OtherWriter
    PROVE  FreshIds'
<1>0. nextId \in Nat /\ blocks \in GoodTable
    BY BoundsAssumption DEF IInv, RowsAreGood
<1>1. CASE Rebuild
    BY <1>1, RebuildFresh
<1>2. ASSUME NEW k \in Tickets, NEW s \in HandStarts, NEW d \in Minutes, NEW t \in Texts,
             LogTime(k, s, d, t)
      PROVE  FreshIds'
    <2>1. nextId' = nextId + 1 /\ journal' = journal
        BY <1>2 DEF LogTime
    <2>2. \A i \in Ids \ {nextId} : blocks'[i] = blocks[i]
        BY <1>0, <1>2 DEF LogTime, GoodTable
    <2>3. Below(blocks', nextId + 1)
        BY <1>0, <2>2 DEF FreshIds, Below, RowsOf, Ids
    <2> QED
        BY <1>0, <2>1, <2>3, JournalStays
<1>3. CASE \/ \E i \in Live, t \in Texts, d \in Minutes, k \in Tickets \cup {Null} :
                  EstimateBlock(i, t, d, k)
           \/ \E k \in Tickets, w \in Worklogs : LineSent(k, w)
           \/ MarkExported
    <2>1. nextId' = nextId /\ journal' = journal
        BY <1>3 DEF EstimateBlock, LineSent, MarkExported, Unjournaled
    <2>2. \A i \in Ids \ Live : blocks'[i] = Null
        BY <1>0, <1>3 DEF EstimateBlock, LineSent, MarkExported, Unjournaled, Live, RowsOf,
                          Line, GoodTable
    <2>3. Below(blocks', nextId)
        BY <2>2 DEF FreshIds, Below, RowsOf, Live
    <2> QED
        BY <1>0, <2>1, <2>3, JournalStays
<1> QED
    BY <1>1, <1>2, <1>3 DEF OtherWriter

LEMMA NextFresh ==
    ASSUME IInv, FreshIds, [Next]_vars
    PROVE  FreshIds'
<1>1. CASE OwnerChange
    BY <1>1, OwnerFresh
<1>2. CASE UndoLast
    BY <1>2, UndoFresh
<1>3. CASE (\E e \in Events : Collect(e)) \/ UNCHANGED vars
    <2>1. blocks' = blocks /\ nextId' = nextId /\ journal' = journal
        BY <1>3 DEF Collect, vars
    <2>2. nextId \in Nat
        BY BoundsAssumption DEF IInv
    <2>3. Below(blocks', nextId')
        BY <2>1 DEF FreshIds
    <2> QED
        BY <2>1, <2>2, <2>3, JournalStays
<1>4. CASE OtherWriter
    BY <1>4, OtherWriterFresh
<1> QED
    BY <1>1, <1>2, <1>3, <1>4 DEF Next

LEMMA FreshAlways ==
    Spec => [](IInv /\ FreshIds)
<1>1. Init => FreshIds
    BY DEF Init, FreshIds, Below, RowsOf
<1> QED
    BY <1>1, NextFresh, Invariance, PTL DEF Spec

-----------------------------------------------------------------------------
(* What a step does to a row that was sent. *)

SentRowKept(i) ==
    /\ blocks'[i] # Null
    /\ blocks'[i].tempo = blocks[i].tempo
    /\ \/ blocks'[i].dur # blocks[i].dur
       \/ blocks'[i].ticket # blocks[i].ticket
       \/ blocks'[i].text # blocks[i].text
       => blocks'[i].dirty

SentRowsKept(S) == \A i \in S : Synced(blocks[i]) => SentRowKept(i)

(* A row in place of one it was made from. *)
Successor(row, b) ==
    /\ row.tempo = b.tempo
    /\ Synced(b) => \/ row.dirty
                    \/ row.dur = b.dur /\ row.ticket = b.ticket /\ row.text = b.text

LEMMA MarkedSucceeds ==
    ASSUME NEW b \in Row, NEW r \in Row, r.tempo = b.tempo
    PROVE  Successor(MarkDirty(r), b)
BY DEF MarkDirty, Successor, Row, Synced

LEMMA EditSucceeds ==
    ASSUME NEW b \in GoodRow
    PROVE  /\ \A k \in Tickets : Successor(Assigned(b, k), b)
           /\ Successor(Cleared(b), b)
           /\ \A d \in Nat : Successor(Resized(b, d), b) /\ Successor(FirstHalf(b, d), b)
           /\ \A t \in Texts : Successor(Reworded(b, t), b)
           /\ \A p \in BOOLEAN : Successor([b EXCEPT !.personal = p], b)
           /\ Successor(Ignored(b), b) /\ Successor(Unignored(b), b)
           /\ \A start \in Nat, total \in Nat, E \in SUBSET Events :
                  Successor(Absorbing(b, start, total, E), b)
<1>0. b \in Row /\ b.start \in Nat
    BY DEF GoodRow, Row
<1>1. ASSUME NEW k \in Tickets PROVE Successor(Assigned(b, k), b)
    <2> DEFINE r == [b EXCEPT !.ticket = k, !.origin = "manual", !.personal = FALSE]
    <2>1. r \in Row /\ r.tempo = b.tempo
        BY <1>0 DEF Row, Origins
    <2> QED BY <1>0, <2>1, MarkedSucceeds DEF Assigned
<1>2. Successor(Cleared(b), b)
    <2> DEFINE r == [b EXCEPT !.ticket = Null, !.origin = "manual"]
    <2>1. r \in Row /\ r.tempo = b.tempo
        BY <1>0 DEF Row, Origins
    <2> QED BY <1>0, <2>1, MarkedSucceeds DEF Cleared
<1>3. ASSUME NEW d \in Nat, NEW c \in Row, c.tempo = b.tempo, c.start = b.start
      PROVE  Successor(Resized(c, d), b)
    <2> DEFINE r == [c EXCEPT !.dur = d, !.end = c.start + d, !.by = "manual"]
    <2>1. c.start + d \in Nat /\ "manual" \in Authors
        BY <1>0, <1>3 DEF Authors
    <2>2. r \in Row /\ r.tempo = b.tempo
        BY <1>3, <2>1 DEF Row
    <2> QED BY <1>0, <2>2, MarkedSucceeds DEF Resized
<1>4. ASSUME NEW d \in Nat PROVE Successor(FirstHalf(b, d), b)
    <2> DEFINE r == [b EXCEPT !.events = {e \in @ : e.at < b.start + d}]
    <2>1. r \in Row /\ r.tempo = b.tempo /\ r.start = b.start
        BY <1>0 DEF Row
    <2> QED BY <1>3, <2>1 DEF FirstHalf
<1>5. ASSUME NEW t \in Texts PROVE Successor(Reworded(b, t), b)
    <2> DEFINE r == [b EXCEPT !.text = t, !.by = "manual"]
    <2>1. r \in Row /\ r.tempo = b.tempo
        BY <1>0 DEF Row, Authors
    <2> QED BY <1>0, <2>1, MarkedSucceeds DEF Reworded
<1>6. (\A p \in BOOLEAN : Successor([b EXCEPT !.personal = p], b))
      /\ Successor(Ignored(b), b) /\ Successor(Unignored(b), b)
    BY <1>0 DEF Ignored, Unignored, Successor, Row
<1>7. ASSUME NEW start \in Nat, NEW total \in Nat, NEW E \in SUBSET Events
      PROVE  Successor(Absorbing(b, start, total, E), b)
    <2> DEFINE r == [b EXCEPT !.start = start, !.dur = total, !.end = start + total,
                              !.events = @ \cup E]
    <2>1. b.events \cup E \in SUBSET Events /\ start + total \in Nat
        BY <1>0 DEF Row
    <2>2. r \in Row /\ r.tempo = b.tempo
        BY <1>0, <2>1 DEF Row
    <2> QED BY <1>0, <2>2, MarkedSucceeds DEF Absorbing
<1> QED
    BY <1>0, <1>1, <1>2, <1>3, <1>4, <1>5, <1>6, <1>7

LEMMA SuccessorKeeps ==
    ASSUME IInv, NEW i \in Live, blocks'[i] \in GoodRow, Successor(blocks'[i], blocks[i]),
           Synced(blocks[i])
    PROVE  SentRowKept(i)
BY NoRowIsNull DEF Successor, SentRowKept, GoodRow

LEMMA SameRowKept ==
    ASSUME NEW i \in Live, blocks'[i] = blocks[i]
    PROVE  SentRowKept(i)
BY DEF SentRowKept, Live, RowsOf

LEMMA EditKeepsSent ==
    ASSUME IInv, NEW i \in Live, NEW row \in GoodRow, Successor(row, blocks[i]),
           Change({i}, [blocks EXCEPT ![i] = row], {})
    PROVE  SentRowsKept(Live)
<1>1. /\ blocks'[i] = row
      /\ \A j \in Live \ {i} : blocks'[j] = blocks[j]
    BY DEF Change, IInv, RowsAreGood, GoodTable, Live, RowsOf
<1> QED
    BY <1>1, SuccessorKeeps, SameRowKept DEF SentRowsKept

(* The rows a merge absorbs were not sent; the one that stays is marked.   *)
LEMMA MergeKeepsSent ==
    ASSUME IInv, NEW p \in Live, NEW absorbed \in SUBSET Live, Merge(p, absorbed)
    PROVE  SentRowsKept(Live)
<1> DEFINE all    == absorbed \cup {p}
           start  == Min({blocks[i].start : i \in all})
           total  == MapThenSumSet(LAMBDA i : blocks[i].dur, all)
           E      == UNION {blocks[i].events : i \in absorbed}
           table  == [Only(blocks, Ids \ absorbed) EXCEPT
                         ![p] = Absorbing(@, start, total, E)]
<1>1. /\ p \notin absorbed /\ p \in Ids /\ total \in 0 .. MaxMinutes
      /\ \A i \in absorbed : ~Synced(blocks[i])
      /\ blocks' = table
    BY DEF Merge, Change, Live, RowsOf
<1>2. blocks[p] \in GoodRow /\ \A i \in all : blocks[i] \in GoodRow
    BY LiveIsGood
<1>3. start \in Nat
    <2> DEFINE S == {blocks[i].start : i \in all}
    <2>1. S \in SUBSET Nat /\ S # {}
        BY <1>2 DEF GoodRow, Row
    <2>2. \E m \in S : \A n \in S : m <= n
        BY <2>1, SmallestNat
    <2> QED
        BY <2>1, <2>2 DEF Min
<1>4. total \in Nat
    <2> HIDE DEF total
    <2> QED BY <1>1, BoundsAssumption
<1>5. E \in SUBSET Events
    BY <1>2 DEF GoodRow, Row
<1> HIDE DEF all, start, total, E
<1>6. /\ blocks'[p] = Absorbing(blocks[p], start, total, E)
      /\ \A i \in Live \ (absorbed \cup {p}) : blocks'[i] = blocks[i]
    BY <1>1 DEF Only, Live, RowsOf
<1>7. Absorbing(blocks[p], start, total, E) \in GoodRow
      /\ Successor(Absorbing(blocks[p], start, total, E), blocks[p])
    BY <1>2, <1>3, <1>4, <1>5, AbsorbingGood, EditSucceeds
<1>8. Synced(blocks[p]) => SentRowKept(p)
    BY <1>6, <1>7, SuccessorKeeps
<1> QED
    BY <1>1, <1>6, <1>8, SameRowKept DEF SentRowsKept

(* The tail of a split is a new row, on nobody's id. *)
LEMMA SplitKeepsSent ==
    ASSUME IInv, FreshIds, NEW i \in Live, NEW d \in Minutes, Split(i, d)
    PROVE  SentRowsKept(Live)
<1>1. nextId \notin Live /\ d \in Nat
    BY BoundsAssumption DEF FreshIds, Below, Live, IInv
<1>2. blocks[i] \in GoodRow
    BY LiveIsGood
<1>3. blocks' = [blocks EXCEPT ![i] = FirstHalf(@, d), ![nextId] = SecondHalf(blocks[i], d)]
    BY DEF Split, Change
<1>4. /\ blocks'[i] = FirstHalf(blocks[i], d)
      /\ \A j \in Live \ {i} : blocks'[j] = blocks[j]
    BY <1>1, <1>3 DEF IInv, RowsAreGood, GoodTable, Live, RowsOf
<1>5. FirstHalf(blocks[i], d) \in GoodRow /\ Successor(FirstHalf(blocks[i], d), blocks[i])
    BY <1>1, <1>2, FirstHalfGood, EditSucceeds
<1> QED
    BY <1>4, <1>5, SuccessorKeeps, SameRowKept DEF SentRowsKept

LEMMA OwnerKeepsSent ==
    ASSUME IInv, FreshIds, OwnerChange
    PROVE  \/ SentRowsKept(Live)
           \/ \E i \in Live : DeleteBlock(i) /\ SentRowsKept(Live \ {i})
<1> PICK i \in Live :
        \/ \E k \in Tickets : AssignTicket(i, k)
        \/ ClearTicket(i)
        \/ \E d \in Minutes : SetDuration(i, d)
        \/ \E t \in Texts : SetDescription(i, t)
        \/ \E p \in BOOLEAN : SetPersonal(i, p)
        \/ Ignore(i)
        \/ Unignore(i)
        \/ DeleteBlock(i)
        \/ \E S \in SUBSET Live : Merge(i, S)
        \/ \E d \in Minutes : Split(i, d)
    BY DEF OwnerChange
<1>0. blocks[i] \in GoodRow
    BY LiveIsGood
<1>1. CASE \E k \in Tickets : AssignTicket(i, k)
    BY <1>0, <1>1, AssignedGood, EditSucceeds, EditKeepsSent DEF AssignTicket, Edit
<1>2. CASE ClearTicket(i)
    BY <1>0, <1>2, ClearedGood, EditSucceeds, EditKeepsSent DEF ClearTicket, Edit
<1>3. CASE \E d \in Minutes : SetDuration(i, d)
    BY <1>0, <1>3, ResizedGood, EditSucceeds, EditKeepsSent, BoundsAssumption
       DEF SetDuration, Edit
<1>4. CASE \E t \in Texts : SetDescription(i, t)
    BY <1>0, <1>4, RewordedGood, EditSucceeds, EditKeepsSent DEF SetDescription, Edit
<1>5. CASE \E p \in BOOLEAN : SetPersonal(i, p)
    BY <1>0, <1>5, MarkedGood, EditSucceeds, EditKeepsSent DEF SetPersonal, Edit
<1>6. CASE Ignore(i) \/ Unignore(i)
    BY <1>0, <1>6, MarkedGood, EditSucceeds, EditKeepsSent DEF Ignore, Unignore, Edit
<1>7. CASE DeleteBlock(i)
    <2>1. \A j \in Live \ {i} : blocks'[j] = blocks[j]
        BY <1>7 DEF DeleteBlock, Change, IInv, RowsAreGood, GoodTable, Live, RowsOf
    <2>2. SentRowsKept(Live \ {i})
        BY <2>1, SameRowKept DEF SentRowsKept
    <2> QED
        BY <1>7, <2>2
<1>8. CASE \E S \in SUBSET Live : Merge(i, S)
    BY <1>8, MergeKeepsSent
<1>9. CASE \E d \in Minutes : Split(i, d)
    BY <1>9, SplitKeepsSent
<1> QED
    BY <1>1, <1>2, <1>3, <1>4, <1>5, <1>6, <1>7, <1>8, <1>9

(* Undo refuses as soon as a row it would touch is sent. *)
LEMMA UndoKeepsSent ==
    ASSUME IInv, UndoLast
    PROVE  SentRowsKept(Live)
<1>1. CASE UndoStale
    BY <1>1, SameRowKept DEF UndoStale, SentRowsKept
<1>2. CASE UndoRestores
    <2>1. blocks' = Restored(Newest) /\ ~Refused(Newest)
        BY <1>2 DEF UndoRestores
    <2>2. \A i \in Live : Synced(blocks[i]) => blocks'[i] = blocks[i]
        BY <2>1 DEF Restored, Refused, LiveSynced, Live, RowsOf
    <2> QED
        BY <2>2, SameRowKept DEF SentRowsKept
<1> QED
    BY <1>1, <1>2 DEF UndoLast

(* For every day, list of edits and journal depth: but for a delete, no    *)
(* edit and no undo takes a worklog's id out of the day, a split that      *)
(* writes a new row, a merge that drops rows and an undo that drops and    *)
(* revives some included.  (merge_blocks, split_block, undo_last)          *)
THEOREM WorklogsStay ==
    Spec => EditsKeepWorklogs
<1>1. SentRowsKept(Live) => WorklogIds(blocks) \subseteq WorklogIds(blocks')
    BY DEF SentRowsKept, SentRowKept, WorklogIds, Live, RowsOf, Synced
<1>2. IInv /\ FreshIds /\ [Next]_vars =>
          [(OwnerChange \/ UndoLast) =>
              \/ WorklogIds(blocks) \subseteq WorklogIds(blocks')
              \/ \E i \in Live : DeleteBlock(i)]_vars
    BY <1>1, OwnerKeepsSent, UndoKeepsSent
<1> QED
    BY <1>2, FreshAlways, PTL DEF Spec, EditsKeepWorklogs

(* For every day, list of edits and journal depth: the time, ticket and    *)
(* text of a sent row change only with the mark that has the next sync     *)
(* send it again.  (MARK_DIRTY_IF_SYNCED)                                  *)
THEOREM SentRowsAreMarked ==
    Spec => EditsMarkSentRows
<1> DEFINE Marked(i) ==
        /\ Synced(blocks[i])
        /\ \/ blocks'[i].dur # blocks[i].dur
           \/ blocks'[i].ticket # blocks[i].ticket
           \/ blocks'[i].text # blocks[i].text
        => blocks'[i].dirty
<1>1. ASSUME NEW S, SentRowsKept(S), NEW i \in S PROVE Marked(i)
    BY <1>1 DEF SentRowsKept, SentRowKept
<1>2. ASSUME IInv, NEW i \in Live, DeleteBlock(i) PROVE i \notin RowsOf(blocks')
    BY <1>2 DEF DeleteBlock, Change, RowsOf, Live, IInv, RowsAreGood, GoodTable
<1> HIDE DEF Marked
<1>3. IInv /\ FreshIds /\ [Next]_vars =>
          [(OwnerChange \/ UndoLast) => \A i \in Live \cap RowsOf(blocks') : Marked(i)]_vars
    <2> SUFFICES ASSUME IInv, FreshIds, OwnerChange \/ UndoLast,
                        NEW i \in Live, i \in RowsOf(blocks')
                 PROVE  Marked(i)
        OBVIOUS
    <2>1. ~SentRowsKept(Live) => \E j \in Live \ {i} : SentRowsKept(Live \ {j})
        BY <1>2, OwnerKeepsSent, UndoKeepsSent
    <2> QED
        BY <1>1, <2>1
<1> QED
    BY <1>3, FreshAlways, PTL DEF Spec, EditsMarkSentRows, Marked

-----------------------------------------------------------------------------
(* What a rebuild hands on: a prior row to one piece at most. *)

LEMMA PiecesInLine ==
    ASSUME IInv, DistinctStarts(Pieces), NEW p \in Pieces, NEW q \in Pieces, p # q
    PROVE  PieceBefore(p, q) \/ PieceBefore(q, p)
<1>1. p \in Piecewise /\ q \in Piecewise
    BY PiecesType DEF IInv, RowsAreGood
<1>2. p.of \in Nat /\ q.of \in Nat /\ p.built.start \in Nat /\ q.built.start \in Nat
    BY <1>1 DEF Piecewise, Built
<1> QED
    BY <1>2 DEF PieceBefore, DistinctStarts

LEMMA LastOf ==
    ASSUME NEW S \in SUBSET Ids, S # {}
    PROVE  \E i \in S : \A j \in S : j <= i
<1> DEFINE T == {MaxId - i : i \in S}
<1>1. T \in SUBSET Nat /\ T # {}
    <2>1. \A i \in S : i \in Ids /\ MaxId - i \in Nat
        BY BoundsAssumption DEF Ids
    <2> QED BY <2>1
<1>2. PICK m \in T : \A n \in T : m <= n
    <2> HIDE DEF T
    <2> QED BY <1>1, SmallestNat
<1>3. PICK i \in S : m = MaxId - i
    BY <1>2
<1>4. ASSUME NEW j \in S PROVE j <= i
    <2>1. MaxId - i <= MaxId - j
        BY <1>2, <1>3
    <2> QED BY <2>1, BoundsAssumption DEF Ids
<1> QED
    BY <1>4

LEMMA FirstOf ==
    ASSUME IInv, NEW S \in SUBSET Priors, S # {}
    PROVE  FirstPrior(S) \in S
<1>1. \A i \in S : i \in Nat /\ blocks[i].start \in Nat
    BY LiveIsGood DEF Priors, Live, RowsOf, Ids, GoodRow, Row
<1> DEFINE T == {blocks[i].start : i \in S}
<1>2. PICK m \in T : \A n \in T : m <= n
    <2>1. T \in SUBSET Nat /\ T # {}
        BY <1>1
    <2> QED BY <2>1, SmallestNat
<1> DEFINE U == {i \in S : blocks[i].start = m}
<1>3. PICK i \in U : \A j \in U : i <= j
    <2>1. U \in SUBSET Nat /\ U # {}
        BY <1>1
    <2> QED BY <2>1, SmallestNat
<1>4. ASSUME NEW j \in S \ {i} PROVE PriorBefore(i, j)
    <2>1. blocks[i].start = m /\ m <= blocks[j].start
        BY <1>2, <1>3
    <2>2. blocks[j].start = m => i <= j
        BY <1>3
    <2>3. i \in Nat /\ j \in Nat /\ i # j /\ blocks[i].start \in Nat /\ blocks[j].start \in Nat
        BY <1>1, <1>3
    <2> QED
        BY <2>1, <2>2, <2>3 DEF PriorBefore
<1>5. i \in S
    BY <1>3
<1> HIDE DEF T, U
<1> QED
    BY <1>4, <1>5 DEF FirstPrior

LEMMA CarriedFrom ==
    ASSUME IInv, NEW pieces, NEW p, NEW carried, CarriedBy(pieces, p, carried) # Null
    PROVE  \/ CarriedBy(pieces, p, carried) \in ExactPriors(p)
           \/ /\ ExactPriors(p) = {}
              /\ CarriedBy(pieces, p, carried) \in OpenPriors(pieces, p, carried)
<1> DEFINE exact    == ExactPriors(p)
           open     == OpenPriors(pieces, p, carried)
           ticketed == {i \in open : blocks[i].ticket # Null}
<1>1. exact \in SUBSET Ids /\ open \in SUBSET Priors /\ ticketed \in SUBSET open
    BY DEF ExactPriors, OpenPriors, Priors, Live, RowsOf
<1>2. CarriedBy(pieces, p, carried) =
          CASE exact # {}                     -> CHOOSE i \in exact : \A j \in exact : j <= i
            [] exact = {} /\ ticketed # {}    -> FirstPrior(ticketed)
            [] exact = {} /\ ticketed = {} /\ open # {} -> FirstPrior(open)
            [] OTHER                          -> Null
    BY DEF CarriedBy
<1> HIDE DEF exact, open, ticketed
<1>3. CASE exact # {}
    <2>1. \E i \in exact : \A j \in exact : j <= i
        BY <1>1, <1>3, LastOf
    <2>2. (CHOOSE i \in exact : \A j \in exact : j <= i) \in exact
        BY <2>1
    <2> QED
        BY <1>2, <1>3, <2>2 DEF exact
<1>4. CASE exact = {} /\ ticketed # {}
    BY <1>1, <1>2, <1>4, FirstOf DEF exact, open
<1>5. CASE exact = {} /\ ticketed = {} /\ open # {}
    BY <1>1, <1>2, <1>5, FirstOf DEF exact, open
<1> QED
    BY <1>2, <1>3, <1>4, <1>5

LEMMA CarriedOnce ==
    ASSUME IInv, DistinctStarts(Pieces), NEW carried \in [Pieces -> Priors \cup {Null}],
           \A p \in Pieces : carried[p] = CarriedBy(Pieces, p, carried),
           NEW p \in Pieces, NEW q \in Pieces, carried[p] = carried[q], carried[p] # Null
    PROVE  p = q
<1> SUFFICES ASSUME p # q PROVE FALSE
    OBVIOUS
<1>1. ASSUME NEW r \in Pieces, NEW s \in Pieces, r # s, carried[r] = carried[s],
             carried[r] # Null, PieceBefore(r, s)
      PROVE  FALSE
    <2> DEFINE c == carried[s]
    <2>1. c \in Priors /\ c = carried[r]
        BY <1>1
    <2>2. c \in ExactPriors(s) \/ c \in OpenPriors(Pieces, s, carried)
        BY <1>1, CarriedFrom
    <2>3. c \in ExactPriors(r) \/ c \in OpenPriors(Pieces, r, carried)
        BY <1>1, CarriedFrom
    <2>4. r.built.start # s.built.start
        BY <1>1 DEF DistinctStarts
    <2>5. c \notin OpenPriors(Pieces, s, carried)
        BY <1>1, <2>1 DEF OpenPriors, Claimed
    <2>6. c \in ExactPriors(s)
        BY <2>2, <2>5
    <2>7. c \notin OpenPriors(Pieces, r, carried)
        BY <1>1, <2>1, <2>6 DEF OpenPriors, Claimed, ExactPriors
    <2> QED
        BY <2>3, <2>4, <2>6, <2>7 DEF ExactPriors
<1> QED
    BY <1>1, PiecesInLine

(* For every day and every history of it: a rebuild whose blocks start at  *)
(* different minutes gives no worklog to more rows than had it.  Each new  *)
(* row with the id carries a prior row that had it, no two the same one,   *)
(* and no row that the rebuild leaves in place.  (infer.rs:648)            *)
THEOREM InheritedOnce ==
    Spec => RebuildInheritsOnce
<1>1. ASSUME IInv, Rebuild, DistinctStarts(Pieces), NEW w \in Worklogs
      PROVE  Cardinality({i \in RowsOf(blocks') : blocks'[i].tempo = w})
                 <= Cardinality({i \in Live : blocks[i].tempo = w})
    <2> DEFINE id(p) == nextId + Cardinality({q \in Pieces : PieceBefore(q, p)})
               at(i) == CHOOSE p \in Pieces : id(p) = i
               new(i) == \E p \in Pieces : id(p) = i
               S == {i \in RowsOf(blocks') : blocks'[i].tempo = w}
               T == {i \in Live : blocks[i].tempo = w}
    <2>1. PICK carried \in [Pieces -> Priors \cup {Null}] :
              /\ \A p \in Pieces : carried[p] = CarriedBy(Pieces, p, carried)
              /\ blocks' = [i \in Ids |->
                    IF \E p \in Pieces : id(p) = i THEN NewRow(at(i), carried[at(i)])
                    ELSE IF i \in Kept THEN blocks[i] ELSE Null]
        BY <1>1 DEF Rebuild
    <2>2. w # Null
        BY NullAssumption
    <2> DEFINE from(i) == IF new(i) THEN carried[at(i)] ELSE i
    <2>3. ASSUME NEW i \in S
          PROVE  /\ new(i) => at(i) \in Pieces /\ id(at(i)) = i /\ from(i) \in Priors
                 /\ ~new(i) => from(i) \in Kept
                 /\ from(i) \in T
        <3>1. i \in Ids /\ blocks'[i] # Null /\ blocks'[i].tempo = w
            BY DEF RowsOf
        <3>2. CASE new(i)
            <4>1. at(i) \in Pieces /\ id(at(i)) = i
                BY <3>2
            <4>2. blocks'[i] = NewRow(at(i), carried[at(i)])
                BY <2>1, <3>1, <3>2
            <4> DEFINE p == at(i)
                       c == carried[p]
            <4>3. c \in Priors \cup {Null} /\ from(i) = c
                BY <2>1, <3>2, <4>1
            <4> HIDE DEF id, at, c, p, from
            <4>4. NewRow(p, c).tempo = w
                BY <3>1, <4>2 DEF c, p
            <4>5. c # Null
                BY <2>2, <4>4 DEF NewRow, FreshRow
            <4>6. blocks[c].tempo = w
                <5> DEFINE r == CarryText(CarryTicket(FreshRow(p.built), blocks[c]), blocks[c])
                           b == blocks[c]
                <5>1. NewRow(p, c) = [r EXCEPT !.tempo = b.tempo, !.exported = b.exported,
                                               !.ignored = b.ignored, !.personal = b.ignored]
                    BY <4>5 DEF NewRow, CarriedRow
                <5>2. "tempo" \in DOMAIN r
                    BY DEF CarryText, CarryTicket, FreshRow
                <5> HIDE DEF r
                <5>3. NewRow(p, c).tempo = b.tempo
                    BY <5>1, <5>2
                <5> QED
                    BY <4>4, <5>3
            <4>7. c \in T
                BY <4>3, <4>5, <4>6 DEF Priors
            <4> QED
                BY <3>2, <4>1, <4>3, <4>5, <4>7
        <3>3. CASE ~new(i)
            <4>1. blocks'[i] = IF i \in Kept THEN blocks[i] ELSE Null
                BY <2>1, <3>1, <3>3
            <4>2. i \in Kept /\ blocks[i].tempo = w
                BY <3>1, <4>1
            <4> QED
                BY <3>3, <4>2 DEF Kept
        <3> QED
            BY <3>2, <3>3
    <2>4. ASSUME NEW i \in S, NEW j \in S, from(i) = from(j)
          PROVE  i = j
        <3> HIDE DEF id, at, S
        <3>1. new(i) <=> new(j)
            BY <2>3, <2>4 DEF Priors
        <3>2. CASE new(i) /\ new(j)
            <4>1. carried[at(i)] = carried[at(j)] /\ carried[at(i)] \in Priors
                BY <2>3, <2>4, <3>2
            <4>2. at(i) = at(j)
                <5>1. carried[at(i)] # Null
                    BY <4>1, NullAssumption DEF Priors, Live, RowsOf, Ids
                <5> QED
                    BY <1>1, <2>1, <2>3, <3>2, <4>1, <5>1, CarriedOnce
            <4> QED
                BY <2>3, <3>2, <4>2
        <3> QED
            BY <2>4, <3>1, <3>2
    <2> DEFINE f == [i \in S |-> from(i)]
    <2>5. f \in Injection(S, T)
        <3>1. \A i \in S : from(i) \in T
            BY <2>3
        <3>2. \A i, j \in S : from(i) = from(j) => i = j
            BY <2>4
        <3> HIDE DEF S, T, from
        <3> QED
            BY <3>1, <3>2 DEF Injection, IsInjective
    <2>6. IsFiniteSet(T)
        <3>1. IsFiniteSet(Ids)
            BY FS_Interval, BoundsAssumption DEF Ids
        <3>2. T \in SUBSET Ids
            BY DEF Live, RowsOf
        <3> HIDE DEF T
        <3> QED
            BY <3>1, <3>2, FS_Subset
    <2> HIDE DEF S, T, f
    <2>7. Cardinality(S) <= Cardinality(T)
        BY <2>5, <2>6, FS_Injection
    <2> QED
        BY <2>7 DEF S, T
<1>2. IInv /\ [Next]_vars =>
        [Rebuild /\ DistinctStarts(Pieces) => \A w \in Worklogs :
            Cardinality({i \in RowsOf(blocks') : blocks'[i].tempo = w})
                <= Cardinality({i \in Live : blocks[i].tempo = w})]_vars
    BY <1>1
<1> QED
    BY <1>2, Invariance, PTL DEF Spec, RebuildInheritsOnce
=============================================================================
