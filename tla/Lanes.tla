-------------------------------- MODULE Lanes --------------------------------
(***************************************************************************)
(* infer_lanes.rs, infer_evidence.rs, infer_lane_tags.rs: every minute of  *)
(* the day is owned by one folder, and each stretch a folder owns is one   *)
(* block; infer_allocations.rs: the owner's re-cut of a window.  A folder  *)
(* is a number, its place in the order of names; Work are the folders      *)
(* under ~/Work.  An event has, beyond Infer's fields, a kind, a session,  *)
(* the customer its session is resolved to and the tag made of that; 0 is  *)
(* no customer.  A lane is <<folder, tag>>.                                *)
(***************************************************************************)
EXTENDS Infer

CONSTANTS
    Work,          \* the folders under ~/Work
    Batches,       \* sets of events that one collector may bring at once
    Windows,       \* what the owner may drag, [start, end, shares]
    MaxBatches,    \* bound: collections of a day
    MaxWindows     \* bound: saved windows at a time

VARIABLES
    collected,     \* the events of the day
    windows        \* overlap_allocations of the day

vars == <<collected, windows>>

Fields == {"id", "at", "until", "cal", "project", "key", "kind", "session", "customer", "tag"}

(* Rows of the events table; the key orders those of one instant.  None    *)
(* comes with a tag, and a calendar's have neither folder nor session.     *)
ASSUME BatchesAssumption ==
    /\ \A batch \in Batches : IsFiniteSet(batch)
    /\ \A e \in UNION Batches :
          /\ DOMAIN e = Fields
          /\ e.id \in Int /\ e.at \in Int /\ e.until \in Int /\ e.cal \in BOOLEAN
          /\ e.project \in Int \cup {Null} /\ e.customer \in Int /\ e.tag = 0
          /\ e.cal => e.project = Null /\ e.session = Null
    /\ \A d, e \in UNION Batches : d.id = e.id => d = e

(* What the handler lets through: a span, and a share above nothing for    *)
(* each of some folders.  (validate_shares)                                *)
ASSUME WindowsAssumption ==
    \A w \in Windows :
        /\ w.start \in Int /\ w.end \in Int /\ w.start < w.end
        /\ IsFiniteSet(DOMAIN w.shares) /\ DOMAIN w.shares # {}
        /\ \A p \in DOMAIN w.shares : p \in Int /\ p # Null /\ w.shares[p] \in Nat \ {0}

WINDOW_MINUTES           == 5
HUMAN_WINDOW_MINUTES     == 15
MIN_RUN_MINUTES          == 5
BRIDGE_MINUTES           == 12
HEARTBEAT_RECENT_MINUTES == 60
HEARTBEAT_DENSE_MINUTES  == 3
SLIVER_MINUTES           == 15
MAX_OWN_HUMAN_EVENTS     == 2
MIN_EVIDENCE_MINUTES     == 2

(* "turn" is a prompt and "submit" its hook; "hand" another act of the     *)
(* owner; "git" the reflog; "heartbeat" claude_work; "hook" a tool's hook; *)
(* "lifecycle" a session's start or end; "helper" the owner's own tools.   *)
Event(id, at, project, kind, session, customer) ==
    [id |-> id, at |-> at, until |-> at + CREDIT_MINUTES, cal |-> FALSE,
     project |-> project, key |-> Null, kind |-> kind, session |-> session,
     customer |-> customer, tag |-> 0]

Appointment(id, at, minutes) ==
    [Event(id, at, Null, "calendar", Null, 0) EXCEPT !.cal = TRUE, !.until = at + minutes]

Distance(m, n) == Max({m - n, n - m})

First(E) == CHOOSE e \in E : \A d \in E \ {e} : Earlier(e, d)

Latest(E) == CHOOSE e \in E : \A d \in E \ {e} : Earlier(d, e)

-----------------------------------------------------------------------------
(* What the day's events are before any clustering. *)

(* fill_session_folders: the session's folder before, else after.          *)
Located(E) ==
    LET of(e)     == {d \in E : d.session = e.session /\ d.project # Null}
        before(e) == {d \in of(e) : Earlier(d, e)}
        folder(e) == IF e.project # Null \/ e.session = Null \/ of(e) = {} THEN e.project
                     ELSE IF before(e) # {} THEN Latest(before(e)).project
                     ELSE First(of(e)).project
    IN  {[e EXCEPT !.project = folder(e)] : e \in E}

(* tag_sessions: customers tell lanes apart where a folder has several.    *)
Tagged(E) ==
    LET customers(e) == {d.customer : d \in {c \in E : c.project = e.project
                                                       /\ c.session # Null}} \ {0}
    IN  {IF e.session # Null /\ Cardinality(customers(e)) >= 2
         THEN [e EXCEPT !.tag = e.customer] ELSE e : e \in E}

(* drop_isolated_claude_work: nobody was there.                            *)
Attended(e, E) ==
    LET ofSession == {d \in E : d.session = e.session}
    IN  \/ e.kind \notin {"heartbeat", "hook"}
        \/ e.session = Null
        \/ \E d \in ofSession : /\ d.kind \in {"turn", "submit"}
                                /\ d.at <= e.at
                                /\ e.at - d.at <= HEARTBEAT_RECENT_MINUTES
        \/ /\ e.kind = "heartbeat"
           /\ \E d \in ofSession \ {e} : /\ d.kind = "heartbeat"
                                         /\ Distance(d.at, e.at) <= HEARTBEAT_DENSE_MINUTES

Counted(E) == {e \in E : Attended(e, E) /\ e.kind # "helper"}

RidesFolderless(e) == ~e.cal /\ e.project = Null   \* mutant

(* A rider is linked to the block around it and decides nothing.           *)
Rides(e) == ~e.cal /\ (e.project = Null \/ e.kind = "lifecycle")

-----------------------------------------------------------------------------
(* owner_runs: who owns each minute. *)

IsHuman(e) == e.kind \in {"turn", "hand"}

FocusMinutes(e) ==
    CASE e.kind \in {"turn", "git"} -> HUMAN_WINDOW_MINUTES
      [] e.kind = "hand"            -> WINDOW_MINUTES
      [] OTHER                      -> 0

LaneFolder(e) == <<e.project, 0>>

LaneKey(e) == <<e.project, e.tag>>

Vote(e, key) ==
    [id |-> e.id, at |-> e.at, key |-> key, human |-> IsHuman(e), focus |-> FocusMinutes(e)]

Voting(E) == {e \in E : ~e.cal /\ e.project # Null}

KeyedByFolder(E) == {Vote(e, LaneFolder(e)) : e \in Voting(E)}

KeyedByLane(E) == {Vote(e, LaneKey(e)) : e \in Voting(E)}

Keys(V) == {v.key : v \in V}

IsWork(key) == key[1] \in Work

Precedes(k, l) == k[1] < l[1] \/ (k[1] = l[1] /\ k[2] < l[2])

WorkFirst(V) ==
    LET work == {v \in V : IsWork(v.key)} IN IF work = {} THEN V ELSE work

(* latest_human: the owner's last act holds its folder for a while; the    *)
(* agent's git work holds it only for the lane that has it already.        *)
LatestHuman(V, m, current) ==
    LET held == {v \in V : /\ v.human \/ (v.focus > 0 /\ v.key = current)
                           /\ v.at <= m /\ m - v.at <= v.focus}
    IN  IF held = {} THEN Null ELSE Latest(WorkFirst(held)).key

(* Else the lane with the most events near; ties stay where they are.      *)
Busiest(V, m, current) ==
    LET near     == WorkFirst({v \in V : Distance(v.at, m) <= WINDOW_MINUTES})
        votes(k) == Cardinality({v \in near : v.key = k})
        tied     == {k \in Keys(near) : \A l \in Keys(near) : votes(l) <= votes(k)}
    IN  IF tied = {} THEN Null
        ELSE IF current \in tied THEN current
        ELSE CHOOSE k \in tied : \A l \in tied \ {k} : Precedes(k, l)

OwnerOf(V, m, current) ==
    LET focus == LatestHuman(V, m, current)
    IN  IF focus # Null THEN focus ELSE Busiest(V, m, current)

Owners(V, first, last) ==
    LET own(day, n) ==
            LET owner == OwnerOf(V, first + n - 1, day.current)
            IN  [owners  |-> Append(day.owners, owner),
                 current |-> IF owner = Null THEN day.current ELSE owner]
    IN  FoldLeft(own, [owners |-> <<>>, current |-> Null],
                 [n \in 1 .. last - first + 1 |-> n]).owners

(* bridge: silence between two stretches of one owner is his. *)
Bridged(owners) ==
    LET owned == {n \in DOMAIN owners : owners[n] # Null}
        filled(n) ==
            LET before == {k \in owned : k < n}
                after  == {k \in owned : k > n}
            IN  IF /\ before # {} /\ after # {}
                   /\ owners[Max(before)] = owners[Min(after)]
                   /\ Min(after) - Max(before) - 1 < BRIDGE_MINUTES
                THEN owners[Max(before)] ELSE Null
    IN  [n \in DOMAIN owners |-> IF n \in owned THEN owners[n] ELSE filled(n)]

(* The stretches of one owner, of a day that begins at first.              *)
Stretches(owners, first) ==
    LET edge(n) == n = 1 \/ owners[n - 1] # owners[n]
        starts == Ascending({n \in DOMAIN owners : owners[n] # Null /\ edge(n)})
        last(n) == Max({k \in n .. Len(owners) : \A j \in n .. k : owners[j] = owners[n]})
    IN  [i \in DOMAIN starts |->
            [owner |-> owners[starts[i]], first |-> first + starts[i] - 1,
             last |-> first + last(starts[i]) - 1]]

OwnerRuns(V) ==
    LET first == Min({v.at : v \in V})
    IN  Stretches(Bridged(Owners(V, first, Max({v.at : v \in V}))), first)

-----------------------------------------------------------------------------
(* Which runs are worth a block. *)

Length(r) == r.last - r.first + 1

Touch(r, s) == r.last + 1 = s.first

SameClass(r, s) == IsWork(r.owner) = IsWork(s.owner)

FoldShortRuns(runs) ==
    LET short(r) == Length(r) < MIN_RUN_MINUTES
        joins(r, s) == Touch(r, s) /\ SameClass(r, s)
        fold(out, r) ==
            IF out = <<>> \/ ~joins(Last(out), r) THEN Append(out, r)
            ELSE LET prev == Last(out)
                 IN  IF short(r) \/ prev.owner = r.owner
                     THEN Append(Front(out), [prev EXCEPT !.last = r.last])
                     ELSE IF short(prev)
                     THEN Append(Front(out), [r EXCEPT !.first = prev.first])
                     ELSE Append(out, r)
    IN  FoldLeft(fold, <<>>, runs)

OwnEvents(r, V) == {v \in V : v.key = r.owner /\ v.at \in r.first .. r.last}

OwnHumans(r, V) == {v \in OwnEvents(r, V) : v.human}

MergeTouchingSameOwner(runs) ==
    LET merge(out, r) ==
            IF out # <<>> /\ Last(out).owner = r.owner /\ r.first - Last(out).last <= 1
            THEN Append(Front(out), [Last(out) EXCEPT !.last = r.last])
            ELSE Append(out, r)
    IN  FoldLeft(merge, <<>>, runs)

Neighbours(runs, i) ==
    {j \in {i - 1, i + 1} \cap DOMAIN runs : Touch(runs[Min({i, j})], runs[Max({i, j})])}

(* try_fold_sliver: a stretch with little of its own goes to the owner     *)
(* around it, to the longer neighbour of its class, or to nobody.          *)
Sandwiched(runs, i, V) ==
    /\ Neighbours(runs, i) = {i - 1, i + 1}
    /\ runs[i - 1].owner = runs[i + 1].owner
    /\ SameClass(runs[i - 1], runs[i]) \/ OwnHumans(runs[i], V) = {}

Kin(runs, i) == {j \in Neighbours(runs, i) : SameClass(runs[i], runs[j])}

IsSliver(runs, i, V) ==
    /\ Length(runs[i]) < SLIVER_MINUTES
    /\ Cardinality(OwnHumans(runs[i], V)) <= MAX_OWN_HUMAN_EVENTS
    /\ Sandwiched(runs, i, V) \/ Kin(runs, i) # {} \/ OwnEvents(runs[i], V) = {}

FoldSliver(runs, i, V) ==
    LET kin == Kin(runs, i)
        to  == CHOOSE j \in kin : \A k \in kin :
                   Length(runs[k]) < Length(runs[j]) \/ (Length(runs[k]) = Length(runs[j]) /\ j <= k)
    IN  IF Sandwiched(runs, i, V)
        THEN SubSeq(runs, 1, i - 2)
                 \o <<[runs[i - 1] EXCEPT !.last = runs[i + 1].last]>>
                 \o SubSeq(runs, i + 2, Len(runs))
        ELSE IF kin = {} THEN RemoveAt(runs, i)
        ELSE IF to < i THEN RemoveAt([runs EXCEPT ![to].last = runs[i].last], i)
        ELSE RemoveAt([runs EXCEPT ![to].first = runs[i].first], i)

(* Each fold takes at least one run away. *)
MergeByEvidence(runs, V) ==
    LET scan(rs, n) ==
            LET slivers == {i \in DOMAIN rs : IsSliver(rs, i, V)}
            IN  IF slivers = {} THEN rs ELSE FoldSliver(rs, Min(slivers), V)
    IN  MergeTouchingSameOwner(FoldLeft(scan, runs, runs))

LaneRuns(V) == MergeByEvidence(FoldShortRuns(OwnerRuns(V)), V)

-----------------------------------------------------------------------------
(* Blocks of given stretches. *)

TooShort(start, end, keepThin) == end - start < MIN_BLOCK_MINUTES   \* mutant

(* What an approved block is cut into may be short. *)
TooThin(start, end, keepThin) == ~keepThin /\ end - start < MIN_BLOCK_MINUTES

(* span_block: none or one.  Without an event of a folder it borrows the   *)
(* nearest of fallback.                                                    *)
SpanBlock(E, start, end, fallback, keepThin) ==
    LET located(F)   == {e \in F : e.project # Null}
        closer(d, e) == \/ Distance(d.at, start) < Distance(e.at, start)
                        \/ Distance(d.at, start) = Distance(e.at, start) /\ Earlier(d, e)
        nearest      == {e \in located(fallback) :
                            \A d \in located(fallback) \ {e} : closer(e, d)}
        events       == IF located(E) = {} THEN E \cup nearest ELSE E
    IN  IF \/ located(events) = {}
           \/ end <= start
           \/ TooThin(start, end, keepThin)
        THEN <<>>
        ELSE <<[start |-> start, end |-> end, ticket |-> UniqueTicket(events),
                cal |-> FALSE, events |-> events]>>

(* A stable sort of s by keys of two numbers. *)
Ranked(s, key) ==
    LET before(i, j) == \/ Precedes(key[i], key[j])
                        \/ key[i] = key[j] /\ i < j
        nth(n) == CHOOSE i \in DOMAIN s : Cardinality({j \in DOMAIN s : before(j, i)}) = n - 1
    IN  [n \in DOMAIN s |-> s[nth(n)]]

ByStart(blocks) == Ranked(blocks, [i \in DOMAIN blocks |-> <<blocks[i].start, 0>>])

-----------------------------------------------------------------------------
(* divide_blocks: a folder's block is divided among its customers. *)

TileWithGaps(runs, first, last) == MergeTouchingSameOwner(runs)   \* mutant

(* The silence between two stretches is the first one's.                   *)
Tile(runs, first, last) ==
    MergeTouchingSameOwner(
        [i \in DOMAIN runs |->
            [owner |-> runs[i].owner,
             first |-> IF i = 1 THEN first ELSE runs[i].first,
             last  |-> IF i = Len(runs) THEN last ELSE runs[i + 1].first - 1]])

FoldWeakSubRuns(runs, V) ==
    LET minutes(r) == Cardinality({v.at : v \in OwnEvents(r, V)})
        fold(rs, n) ==
            LET weak == {i \in DOMAIN rs : minutes(rs[i]) < MIN_EVIDENCE_MINUTES}
                i    == Min(weak)
            IN  IF Len(rs) = 1 \/ weak = {} THEN rs
                ELSE IF i = 1 THEN Tail([rs EXCEPT ![2].first = rs[1].first])
                ELSE RemoveAt([rs EXCEPT ![i - 1].last = rs[i].last], i)
    IN  MergeTouchingSameOwner(FoldLeft(fold, runs, runs))

Clamped(runs, first, last) ==
    LET clamp(r) == [r EXCEPT !.first = Max({first, @}), !.last = Min({last, @})]
        kept     == Ascending({i \in DOMAIN runs : clamp(runs[i]).first <= clamp(runs[i]).last})
    IN  [m \in DOMAIN kept |-> clamp(runs[kept[m]])]

SplitOne(first, last, V) ==
    LET whole        == <<[owner |-> First(V).key, first |-> first, last |-> last]>>
        divided(run) == IF run = <<>> THEN whole ELSE FoldWeakSubRuns(Tile(run, first, last), V)
    IN  IF Cardinality(Keys(V)) < 2 THEN whole ELSE divided(Clamped(LaneRuns(V), first, last))

(* A tagged event belongs to its own customer's nearest stretch, or to     *)
(* none; an untagged one to the stretch it lies in.                        *)
SubRunFor(subs, e) ==
    LET away(i)    == Max({subs[i].first - e.at, e.at - subs[i].last, 0})
        nearest(S) == {i \in S : \A j \in S : away(i) < away(j) \/ (away(i) = away(j) /\ i <= j)}
        covering   == nearest(DOMAIN subs)
        own        == {i \in DOMAIN subs : subs[i].owner = LaneKey(e)}
    IN  IF e.tag = 0 \/ covering \subseteq own THEN covering ELSE nearest(own)

DivideAmong(subs, b, ofFolder) ==
    LET share(i) == {e \in b.events : SubRunFor(subs, e) = {i}}
        own(i)   == {e \in ofFolder : LaneKey(e) = subs[i].owner}
        piece(i) == SpanBlock(share(i), subs[i].first, subs[i].last + 1, own(i), TRUE)
    IN  IF Len(subs) = 1 /\ share(1) = b.events THEN <<b>>
        ELSE FlattenSeq([i \in DOMAIN subs |-> piece(i)])

DivideBlock(b, E) ==
    LET folder   == First({e \in b.events : e.project # Null}).project
        ofFolder == {e \in E : ~e.cal /\ e.project = folder}
    IN  IF \A e \in b.events : e.tag = 0 THEN <<b>>
        ELSE DivideAmong(SplitOne(b.start, b.end - 1, KeyedByLane(ofFolder)), b, ofFolder)

DivideBlocks(blocks, E) == FlattenSeq([i \in DOMAIN blocks |-> DivideBlock(blocks[i], E)])

-----------------------------------------------------------------------------
(* build_blocks_by_project: meetings, the folders' stretches, and what is  *)
(* in nobody's stretch, each built apart; riders are placed last.          *)

StretchBlock(r, E) ==
    LET bucket == {e \in E : ~e.cal /\ LaneFolder(e) = r.owner /\ e.at \in r.first .. r.last}
    IN  IF Cardinality({e.at : e \in bucket}) < MIN_EVIDENCE_MINUTES THEN <<>>
        ELSE SpanBlock(bucket, r.first, r.last + 1, {}, FALSE)

BlocksOfRuns(runs, E) ==
    LET owned     == FlattenSeq([i \in DOMAIN runs |-> StretchBlock(runs[i], E)])
        leftovers == {e \in E : ~e.cal /\ \A i \in DOMAIN runs :
                                     e.at \notin runs[i].first .. runs[i].last}
    IN  ByStart(DivideBlocks(owned, E) \o BuildBlocks({e \in E : e.cal})
                    \o BuildBlocks(leftovers))

ProjectBlocks(E) ==
    IF Cardinality({LaneFolder(e) : e \in Voting(E)}) < 2 THEN DivideBlocks(BuildBlocks(E), E)
    ELSE BlocksOfRuns(LaneRuns(KeyedByFolder(E)), E)

BuildBlocksByProject(day) ==
    LET E      == Counted(day)
        riders == {e \in E : Rides(e)}
    IN  IF \A e \in E : e.cal \/ e.project = Null THEN BuildBlocks(E)
        ELSE PlaceFolderless(ProjectBlocks(E \ riders), riders)

-----------------------------------------------------------------------------
(* apply_split: inside a window the work time is dealt out again.  Shares  *)
(* are parts of Whole; the code's fractions round to a second, these to a  *)
(* minute.                                                                 *)

Whole == 10

(* dominant_project_path; a tie, which a hash map decides, is work here.   *)
DominantFolders(b) ==
    LET real     == {e \in b.events : e.project # Null /\ e.kind # "lifecycle"}
        voters   == IF real = {} THEN {e \in b.events : e.project # Null} ELSE real
        votes(p) == Cardinality({e \in voters : e.project = p})
        folders  == {e.project : e \in voters}
    IN  {p \in folders : \A q \in folders : votes(q) <= votes(p)}

IsWorkBlock(b) == DominantFolders(b) \cap Work # {}

SumOf(s) == FoldLeft(LAMBDA sum, n : sum + n, 0, s)

(* The concatenated time of the intervals is dealt out in the order of     *)
(* the folders; the last one takes what rounding leaves.                   *)
SplitIntervals(intervals, shares) ==
    LET iv        == Ranked(intervals, [j \in DOMAIN intervals |-> <<intervals[j].start, intervals[j].end>>])
        len(j)    == iv[j].end - iv[j].start
        offset(j) == SumOf([k \in 1 .. j - 1 |-> len(k)])
        total     == offset(Len(iv) + 1)
        folders   == Ascending(DOMAIN shares)
        share(i)  == SumOf([k \in 1 .. i |-> shares[folders[k]]])
        upTo(i)   == IF i = Len(folders) THEN total
                     ELSE (2 * share(i) * total + Whole) \div (2 * Whole)
        piece(i, j) ==
            LET a == Max({upTo(i - 1), offset(j)})
                b == Min({upTo(i), offset(j + 1)})
            IN  IF a >= b THEN <<>>
                ELSE <<[folder |-> folders[i], start |-> iv[j].start + a - offset(j),
                        end |-> iv[j].start + b - offset(j)]>>
    IN  FlattenSeq([i \in DOMAIN folders |->
            FlattenSeq([j \in DOMAIN iv |-> piece(i, j)])])

Between(E, start, end) == {e \in E : start <= e.at /\ e.at < end}

SplitWindow(blocks, w, day) ==
    LET cut(b) == IsWorkBlock(b) /\ b.end > w.start /\ b.start < w.end
        own(p) == {e \in day : e.project = p}
        outside(b) ==
            IF ~cut(b) THEN <<b>>
            ELSE SpanBlock(Between(b.events, b.start, w.start), b.start, w.start, b.events, TRUE)
                     \o SpanBlock(Between(b.events, w.end, b.end), w.end, b.end, b.events, TRUE)
        reached == Ascending({i \in DOMAIN blocks : cut(blocks[i])})
        cuts   == [n \in DOMAIN reached |-> blocks[reached[n]]]
        inside == [i \in DOMAIN cuts |-> [start |-> Max({cuts[i].start, w.start}),
                                          end   |-> Min({cuts[i].end, w.end})]]
        folderless == {e \in UNION {Between(cuts[i].events, w.start, w.end) : i \in DOMAIN cuts} :
                          e.project = Null}
        dealt  == SplitIntervals(inside, w.shares)
        piece(d) == SpanBlock(Between(own(d.folder) \cup folderless, d.start, d.end),
                              d.start, d.end, own(d.folder), TRUE)
    IN  FlattenSeq([i \in DOMAIN blocks |-> outside(blocks[i])])
            \o FlattenSeq([i \in DOMAIN dealt |-> piece(dealt[i])])

(* single_project: the lanes a block's events name, riders aside.          *)
LanesOf(b) == {LaneKey(e) : e \in {d \in b.events : d.project # Null /\ d.kind # "lifecycle"}}

MergeTouchingSameProject(blocks) ==
    LET same(b, c) == /\ ~b.cal /\ ~c.cal /\ b.end = c.start /\ b.ticket = c.ticket
                      /\ LanesOf(b) = LanesOf(c) /\ Cardinality(LanesOf(b)) <= 1
        merge(out, b) ==
            IF out # <<>> /\ same(Last(out), b)
            THEN Append(Front(out), [Last(out) EXCEPT !.end = b.end, !.events = @ \cup b.events])
            ELSE Append(out, b)
    IN  FoldLeft(merge, <<>>, ByStart(blocks))

(* Saved windows never overlap: each has a start of its own. *)
ApplySplits(blocks, saved, day) ==
    LET starts     == Ascending({w.start : w \in saved})
        order      == [n \in DOMAIN starts |-> CHOOSE w \in saved : w.start = starts[n]]
        cut(bs, w) == SplitWindow(bs, w, day)
    IN  IF saved = {} THEN blocks
        ELSE MergeTouchingSameProject(FoldLeft(cut, blocks, order))

BuildDay(E, saved) ==
    LET day == Tagged(Located(E)) IN ApplySplits(BuildBlocksByProject(day), saved, day)

-----------------------------------------------------------------------------
(* The day: collections, and the owner's windows.  Every one of them ends  *)
(* in a rebuild, whose blocks are BuildDay(collected, windows).            *)

(* project_intervals: where a folder was active, short gaps bridged.       *)
Activity(E, p) ==
    LET day == InOrder({e \in Located(E) : ~e.cal /\ e.project = p})
        grow(out, e) ==
            IF out # <<>> /\ e.at - Last(out).end <= WINDOW_MINUTES
            THEN Append(Front(out), [Last(out) EXCEPT !.end = Max({@, e.until})])
            ELSE Append(out, [start |-> e.at, end |-> e.until])
    IN  ToSet(FoldLeft(grow, <<>>, day))

Overlap(v, w) == v.start < w.end /\ w.start < v.end

Init == collected = {} /\ windows = {}

Collect(batch) ==
    /\ Cardinality({b \in Batches : b \subseteq collected}) < MaxBatches
    /\ ~ batch \subseteq collected
    /\ collected' = collected \cup batch
    /\ UNCHANGED windows

(* save_allocation_handler: a share needs activity, a window replaces the  *)
(* ones it overlaps.                                                       *)
Allocate(w) ==
    /\ w \notin windows
    /\ Cardinality(windows) < MaxWindows
    /\ \A p \in DOMAIN w.shares :
          p \in Work /\ \E active \in Activity(collected, p) : Overlap(active, w)
    /\ windows' = {v \in windows : ~Overlap(v, w)} \cup {w}
    /\ UNCHANGED collected

(* delete_allocation_handler *)
Withdraw(w) ==
    /\ windows' = windows \ {w}
    /\ UNCHANGED collected

Next ==
    \/ \E batch \in Batches : Collect(batch)
    \/ \E w \in Windows : Allocate(w)
    \/ \E w \in windows : Withdraw(w)

Spec == Init /\ [][Next]_vars
=============================================================================
