---------------------------- MODULE InferProofs ----------------------------
(***************************************************************************)
(* Proofs about the clustering, for a day of any events: cutting a cluster *)
(* where the folder changes loses no event, and no event gets into two of  *)
(* the day's blocks.                                                       *)
(***************************************************************************)
EXTENDS MCLanes, FoldLemmas, SequenceTheorems

-----------------------------------------------------------------------------
(* Enumerations. *)

EarlierOf(E) == {p \in E \X E : Earlier(p[1], p[2])}

Rows(E) ==
    /\ IsFiniteSet(E)
    /\ \A e \in E : e.id \in Int /\ e.at \in Int /\ e.until \in Int /\ e.cal \in BOOLEAN
    /\ \A d, e \in E : d.id = e.id => d = e

LEMMA EventsInOrder ==
    ASSUME NEW E, Rows(E)
    PROVE  /\ InOrder(E) \in Seq(E) /\ Len(InOrder(E)) = Cardinality(E)
           /\ \A m, n \in 1 .. Cardinality(E) : InOrder(E)[m] = InOrder(E)[n] => m = n
<1> DEFINE R == EarlierOf(E)
<1>0. IsFiniteSet(E) /\ Cardinality(E) \in Nat
    BY FS_CardinalityType DEF Rows
<1>1. Orders(R, E)
    <2>1. \A d, e \in E : <<d, e>> \in R <=> Earlier(d, e)
        BY DEF EarlierOf
    <2> HIDE DEF R
    <2> QED BY <2>1 DEF Rows, Earlier, Orders
<1>2. InOrder(E) = Sorted(E, R)
    <2>1. \A e \in E : {d \in E : <<d, e>> \in R} = {d \in E : Earlier(d, e)}
        BY DEF EarlierOf
    <2>2. \A e \in E : Rank(E, R, e) = Cardinality({d \in E : Earlier(d, e)})
        BY <2>1 DEF Rank
    <2> HIDE DEF R
    <2> DEFINE nth(n) == CHOOSE e \in E : Cardinality({d \in E : Earlier(d, e)}) = n - 1
               ranked(n) == CHOOSE e \in E : Rank(E, R, e) = n - 1
    <2>3. \A n : nth(n) = ranked(n)
        BY <2>2
    <2>4. InOrder(E) = [n \in 1 .. Cardinality(E) |-> nth(n)]
        BY DEF InOrder
    <2>5. Sorted(E, R) = [n \in 1 .. Cardinality(E) |-> ranked(n)]
        BY DEF Sorted
    <2> HIDE DEF nth, ranked
    <2> QED BY <2>3, <2>4, <2>5
<1> HIDE DEF R
<1>3. /\ Sorted(E, R) \in [1 .. Cardinality(E) -> E]
      /\ \A m, n \in 1 .. Cardinality(E) :
            m < n => <<Sorted(E, R)[m], Sorted(E, R)[n]>> \in R
    BY <1>0, <1>1, SortedIs
<1>4. \A m, n \in 1 .. Cardinality(E) : Sorted(E, R)[m] = Sorted(E, R)[n] => m = n
    <2> SUFFICES ASSUME NEW m \in 1 .. Cardinality(E), NEW n \in 1 .. Cardinality(E),
                        Sorted(E, R)[m] = Sorted(E, R)[n], m # n
                 PROVE  FALSE
        OBVIOUS
    <2>1. m < n \/ n < m
        BY <1>0
    <2>2. Sorted(E, R)[m] \in E /\ <<Sorted(E, R)[m], Sorted(E, R)[m]>> \in R
        BY <1>3, <2>1
    <2> QED BY <1>1, <2>2 DEF Orders
<1> QED
    BY <1>0, <1>2, <1>3, <1>4

LEMMA Ascends ==
    ASSUME NEW n \in Nat, NEW S \in SUBSET (1 .. n)
    PROVE  /\ Ascending(S) \in [1 .. Cardinality(S) -> S] /\ Cardinality(S) \in Nat
           /\ \A j, k \in 1 .. Cardinality(S) : j < k => Ascending(S)[j] < Ascending(S)[k]
           /\ S = 1 .. n => Ascending(S) = [m \in 1 .. n |-> m]
<1> DEFINE R == {p \in S \X S : p[1] < p[2]}
<1>0. IsFiniteSet(S) /\ Cardinality(S) \in Nat
    BY IndicesFinite
<1>1. Orders(R, S)
    <2>1. \A j, k \in S : <<j, k>> \in R <=> j < k
        OBVIOUS
    <2> HIDE DEF R
    <2> QED BY <2>1 DEF Orders
<1>2. Ascending(S) = Sorted(S, R)
    <2>1. \A m \in S : {k \in S : <<k, m>> \in R} = {k \in S : k < m}
        OBVIOUS
    <2>2. \A m \in S : Rank(S, R, m) = Cardinality({k \in S : k < m})
        BY <2>1 DEF Rank
    <2> HIDE DEF R
    <2> DEFINE nth(r) == CHOOSE m \in S : Cardinality({k \in S : k < m}) = r - 1
               ranked(r) == CHOOSE m \in S : Rank(S, R, m) = r - 1
    <2>3. \A r : nth(r) = ranked(r)
        BY <2>2
    <2>4. Ascending(S) = [r \in 1 .. Cardinality(S) |-> nth(r)]
        BY DEF Ascending
    <2>5. Sorted(S, R) = [r \in 1 .. Cardinality(S) |-> ranked(r)]
        BY DEF Sorted
    <2> HIDE DEF nth, ranked
    <2> QED BY <2>3, <2>4, <2>5
<1>3. /\ Ascending(S) \in [1 .. Cardinality(S) -> S]
      /\ \A j, k \in 1 .. Cardinality(S) : j < k => <<Ascending(S)[j], Ascending(S)[k]>> \in R
    <2> HIDE DEF R
    <2> QED BY <1>0, <1>1, <1>2, SortedIs
<1>4. ASSUME S = 1 .. n PROVE Ascending(S) = [m \in 1 .. n |-> m]
    <2>1. Cardinality(S) = n
        BY <1>4, FS_Interval
    <2>2. \A m \in S : Cardinality({k \in S : k < m}) = m - 1
        <3> TAKE m \in S
        <3>1. {k \in S : k < m} = 1 .. (m - 1) /\ m - 1 \in Nat
            BY <1>4
        <3>2. Cardinality(1 .. (m - 1)) = m - 1
            BY <3>1, FS_Interval
        <3> QED BY <3>1, <3>2
    <2>3. \A m \in S : (CHOOSE k \in S : Cardinality({j \in S : j < k}) = m - 1) = m
        <3> TAKE m \in S
        <3>1. \A k \in S : Cardinality({j \in S : j < k}) = m - 1 <=> k = m
            BY <2>2
        <3> QED BY <3>1
    <2> QED BY <1>4, <2>1, <2>3 DEF Ascending
<1> QED
    BY <1>0, <1>3, <1>4

-----------------------------------------------------------------------------
(* The pass over the events, one event after the other.                    *)

Cluster(E) == [start : Int, end : Int, cal : BOOLEAN, events : Seq(E) \ {<<>>}]

LEMMA MaxOfTwo ==
    ASSUME NEW m \in Int, NEW n \in Int
    PROVE  Max({m, n}) \in {m, n} /\ m <= Max({m, n}) /\ n <= Max({m, n})
<1>1. \E x \in {m, n} : \A y \in {m, n} : x >= y
    OBVIOUS
<1> QED
    BY <1>1 DEF Max

LEMMA LastAndFront ==
    ASSUME NEW A, NEW s \in Seq(A), s # <<>>
    PROVE  /\ Len(s) \in Nat /\ Len(s) >= 1 /\ Last(s) \in A /\ Last(s) = s[Len(s)]
           /\ Front(s) \in Seq(A) /\ Len(Front(s)) = Len(s) - 1
           /\ \A i \in 1 .. Len(s) - 1 : Front(s)[i] = s[i]
BY DEF Last, Front

LEMMA ConsumeIs ==
    ASSUME NEW E, Rows(E), NEW cs \in Seq(Cluster(E)), NEW e \in E
    PROVE  /\ Consume(cs, e) \in Seq(Cluster(E))
           /\ \/ Consume(cs, e) = Append(cs, NewCluster(e))
              \/ cs # <<>> /\ Consume(cs, e) = Append(Front(cs), Extended(Last(cs), e))
           /\ NewCluster(e).events = <<e>>
           /\ cs # <<>> => Extended(Last(cs), e).events = Append(Last(cs).events, e)
<1>1. NewCluster(e) \in Cluster(E) /\ NewCluster(e).events = <<e>>
    BY DEF NewCluster, Cluster, Rows
<1>2. ASSUME cs # <<>>
      PROVE  /\ Front(cs) \in Seq(Cluster(E)) /\ Extended(Last(cs), e) \in Cluster(E)
             /\ Extended(Last(cs), e).events = Append(Last(cs).events, e)
    <2> DEFINE c == Last(cs)
    <2>1. c \in Cluster(E) /\ Front(cs) \in Seq(Cluster(E))
        BY <1>2, LastAndFront
    <2> HIDE DEF c
    <2>2. Max({e.until, c.end}) \in Int
        BY <2>1, MaxOfTwo DEF Cluster, Rows
    <2>3. Append(c.events, e) \in Seq(E) \ {<<>>}
        <3>1. c.events \in Seq(E)
            BY <2>1 DEF Cluster
        <3> QED BY <3>1, AppendProperties
    <2>4. /\ Extended(c, e) \in Cluster(E)
          /\ Extended(c, e).events = Append(c.events, e)
        BY <2>1, <2>2, <2>3 DEF Extended, Cluster
    <2> QED BY <2>1, <2>4 DEF c
<1> HIDE DEF Cluster
<1>3. Consume(cs, e) \in {Append(cs, NewCluster(e)), Append(Front(cs), Extended(Last(cs), e))}
    BY DEF Consume
<1>4. \/ Consume(cs, e) = Append(cs, NewCluster(e))
      \/ cs # <<>> /\ Consume(cs, e) = Append(Front(cs), Extended(Last(cs), e))
    BY DEF Consume
<1>5. Consume(cs, e) \in Seq(Cluster(E))
    <2>1. Append(cs, NewCluster(e)) \in Seq(Cluster(E))
        BY <1>1
    <2>2. cs # <<>> => Append(Front(cs), Extended(Last(cs), e)) \in Seq(Cluster(E))
        BY <1>2
    <2> QED BY <1>4, <2>1, <2>2
<1> QED
    BY <1>1, <1>2, <1>4, <1>5

Pass(s) == FoldLeft(Consume, <<>>, s)

Passes(f, s) ==
    f = [S \in SUBSET DOMAIN s |->
            IF S = {} THEN <<>> ELSE Consume(f[S \ {Max(S)}], s[Max(S)])]

LEMMA PassFold ==
    ASSUME NEW s
    PROVE  Pass(s) = (CHOOSE f : Passes(f, s))[DOMAIN s]
<1>1. Pass(s) = MapThenFoldSet(LAMBDA x, y : Consume(y, x), <<>>, LAMBDA i : s[i],
                               LAMBDA S : Max(S), DOMAIN s)
    BY DEF Pass, FoldLeft
<1>2. @ = (CHOOSE f : Passes(f, s))[DOMAIN s]
    BY DEF MapThenFoldSet, Passes
<1> QED
    BY <1>1, <1>2

LEMMA PassIs ==
    ASSUME NEW E, Rows(E), NEW s \in Seq(E)
    PROVE  \E h \in [0 .. Len(s) -> Seq(Cluster(E))] :
              /\ h[0] = <<>> /\ h[Len(s)] = Pass(s)
              /\ \A k \in 1 .. Len(s) : h[k] = Consume(h[k - 1], s[k])
<1> DEFINE A == Seq(Cluster(E))
           F == [x \in A \X E |-> Consume(x[1], x[2])]
           D == SUBSET (1 .. Len(s))
<1>1. F \in [A \X E -> A] /\ <<>> \in A
    BY ConsumeIs
<1>2. \A cs \in A, e \in E : F[<<cs, e>>] = Consume(cs, e)
    OBVIOUS
<1> HIDE DEF A, F
<1>3. PICK f : LeftFold(f, A, F, <<>>, s)
    BY <1>1, LeftExists
<1>4. DOMAIN s = 1 .. Len(s) /\ Len(s) \in Nat
    OBVIOUS
<1>5. ASSUME NEW S \in D, S # {}
      PROVE  S \ {Max(S)} \in D /\ s[Max(S)] \in E
    <2>1. Max(S) \in 1 .. Len(s)
        BY <1>4, <1>5, LargestNat
    <2>2. S \ {Max(S)} \in D
        OBVIOUS
    <2> HIDE DEF D
    <2> QED BY <2>1, <2>2
<1>6. Passes(f, s)
    <2>1. f \in [D -> A] /\ \A S \in D : f[S] = Left(f, F, <<>>, s, S)
        BY <1>3 DEF LeftFold
    <2>2. ASSUME NEW S \in D
          PROVE  f[S] = IF S = {} THEN <<>> ELSE Consume(f[S \ {Max(S)}], s[Max(S)])
        BY <1>2, <1>5, <2>1 DEF Left
    <2> QED BY <1>4, <2>1, <2>2 DEF Passes
<1> DEFINE g == CHOOSE p : Passes(p, s)
<1>7. Passes(g, s)
    BY <1>6
<1>8. Pass(s) = g[1 .. Len(s)]
    BY <1>4, PassFold
<1> HIDE DEF g
<1>9. g[1 .. Len(s)] = f[1 .. Len(s)]
    <2>1. Alike(f, g, Len(s))
        BY <1>4, <1>6, <1>7 DEF Passes, Alike
    <2> QED BY <1>4, <2>1, SameFold
<1>10. PICK h : Steps(h, f, A, F, <<>>, s)
    BY <1>1, <1>3, LeftPrefixes
<1>11. /\ h \in [0 .. Len(s) -> A] /\ h[0] = <<>> /\ h[Len(s)] = f[1 .. Len(s)]
       /\ \A k \in 1 .. Len(s) : h[k] = F[<<h[k - 1], s[k]>>]
    BY <1>10 DEF Steps
<1>12. ASSUME NEW k \in 1 .. Len(s) PROVE h[k] = Consume(h[k - 1], s[k])
    <2>1. k - 1 \in 0 .. Len(s) /\ s[k] \in E
        BY <1>4
    <2> QED BY <1>2, <1>11, <2>1
<1> QED
    BY <1>8, <1>9, <1>11, <1>12 DEF A

(* No event is in two clusters, or twice in one.                           *)

Once(s) == \A m, n \in 1 .. Len(s) : s[m] = s[n] => m = n

Apart(cs, seen) ==
    /\ \A i \in 1 .. Len(cs) : Once(cs[i].events) /\ ToSet(cs[i].events) \subseteq seen
    /\ \A i, j \in 1 .. Len(cs) : i # j => ToSet(cs[i].events) \cap ToSet(cs[j].events) = {}

LEMMA AppendOnce ==
    ASSUME NEW E, NEW s \in Seq(E), NEW e \in E
    PROVE  /\ ToSet(Append(s, e)) = ToSet(s) \cup {e}
           /\ Once(s) /\ e \notin ToSet(s) => Once(Append(s, e))
<1>1. /\ Len(s) \in Nat /\ Len(Append(s, e)) = Len(s) + 1 /\ DOMAIN s = 1 .. Len(s)
      /\ DOMAIN Append(s, e) = 1 .. Len(s) + 1
      /\ \A n \in 1 .. Len(s) : Append(s, e)[n] = s[n]
      /\ Append(s, e)[Len(s) + 1] = e
    OBVIOUS
<1>2. 1 .. Len(s) + 1 = (1 .. Len(s)) \cup {Len(s) + 1}
    BY <1>1
<1> DEFINE t == Append(s, e)
<1> HIDE DEF t
<1>3. \A n \in 1 .. Len(s) : t[n] = s[n]
    BY <1>1 DEF t
<1>4. DOMAIN t = (1 .. Len(s)) \cup {Len(s) + 1} /\ t[Len(s) + 1] = e
      /\ 1 .. Len(t) = (1 .. Len(s)) \cup {Len(s) + 1}
    BY <1>1, <1>2 DEF t
<1>5. ToSet(t) = ToSet(s) \cup {e}
    BY <1>1, <1>3, <1>4 DEF ToSet
<1>6. ASSUME Once(s), e \notin ToSet(s) PROVE Once(t)
    <2>1. \A n \in 1 .. Len(s) : s[n] # e
        BY <1>1, <1>6 DEF ToSet
    <2> QED BY <1>3, <1>4, <1>6, <2>1 DEF Once
<1> QED
    BY <1>5, <1>6 DEF t

LEMMA ConsumeApart ==
    ASSUME NEW E, Rows(E), NEW cs \in Seq(Cluster(E)), NEW e \in E, NEW seen,
           Apart(cs, seen), e \notin seen
    PROVE  Apart(Consume(cs, e), seen \cup {e})
<1> DEFINE L == Len(cs)
           new == Consume(cs, e)
           c == new[Len(new)]
<1>0. /\ new \in Seq(Cluster(E))
      /\ \/ new = Append(cs, NewCluster(e))
         \/ cs # <<>> /\ new = Append(Front(cs), Extended(Last(cs), e))
      /\ NewCluster(e).events = <<e>>
      /\ cs # <<>> => Extended(Last(cs), e).events = Append(Last(cs).events, e)
    BY ConsumeIs
<1>1. \A i \in 1 .. L : cs[i].events \in Seq(E)
    <2>1. \A i \in 1 .. L : cs[i] \in Cluster(E)
        OBVIOUS
    <2> QED BY <2>1 DEF Cluster
(* All clusters but the last are as they were, and that one has gained e.  *)
<1>2. \E n \in {L, L + 1} :
          /\ Len(new) = n /\ n >= 1
          /\ \A i \in 1 .. n - 1 : new[i] = cs[i]
          /\ c.events = IF n = L + 1 THEN <<e>> ELSE Append(cs[L].events, e)
    <2>1. CASE new = Append(cs, NewCluster(e))
        <3>1. Len(new) = L + 1 /\ (\A i \in 1 .. L : new[i] = cs[i]) /\ c = NewCluster(e)
            BY <2>1
        <3>2. L \in Nat /\ (L + 1) - 1 = L
            OBVIOUS
        <3> HIDE DEF new, L, c
        <3> QED BY <1>0, <3>1, <3>2
    <2>2. CASE cs # <<>> /\ new = Append(Front(cs), Extended(Last(cs), e))
        <3>1. /\ L \in Nat /\ L >= 1 /\ Last(cs) = cs[L]
              /\ Front(cs) \in Seq(Cluster(E)) /\ Len(Front(cs)) = L - 1
              /\ \A i \in 1 .. L - 1 : Front(cs)[i] = cs[i]
            BY <2>2, LastAndFront
        <3>2. /\ Len(new) = L /\ (\A i \in 1 .. L - 1 : new[i] = cs[i])
              /\ c = Extended(Last(cs), e)
            BY <2>2, <3>1
        <3>3. c.events = Append(cs[L].events, e)
            BY <1>0, <2>2, <3>1, <3>2
        <3> HIDE DEF new, L, c
        <3>4. L \in Nat /\ L # L + 1
            BY <3>1
        <3> QED BY <3>1, <3>2, <3>3, <3>4
    <2> QED BY <1>0, <2>1, <2>2
<1>3. PICK n \in {L, L + 1} :
          /\ Len(new) = n /\ n >= 1
          /\ \A i \in 1 .. n - 1 : new[i] = cs[i]
          /\ c.events = IF n = L + 1 THEN <<e>> ELSE Append(cs[L].events, e)
    BY <1>2
<1>4. L \in Nat /\ n \in Nat /\ n - 1 <= L /\ n >= 1
    BY <1>3
<1>5. \A i \in 1 .. L : Once(cs[i].events) /\ e \notin ToSet(cs[i].events)
                       /\ ToSet(cs[i].events) \subseteq seen
    BY DEF Apart
<1> HIDE DEF L, new
<1>6. /\ Once(c.events) /\ ToSet(c.events) \subseteq seen \cup {e}
      /\ \A i \in 1 .. n - 1 : ToSet(cs[i].events) \cap ToSet(c.events) = {}
    <2>1. CASE n = L + 1
        <3>1. c.events = <<e>>
            BY <1>3, <2>1
        <3>2. ToSet(c.events) = {e} /\ Once(c.events)
            BY <3>1 DEF ToSet, Once
        <3>3. \A i \in 1 .. n - 1 : i \in 1 .. L
            BY <1>4, <2>1
        <3> HIDE DEF c
        <3> QED BY <1>5, <3>2, <3>3
    <2>2. CASE n = L
        <3> DEFINE s == cs[L].events
        <3>1. c.events = Append(s, e) /\ s \in Seq(E) /\ L \in 1 .. L
            BY <1>1, <1>3, <1>4, <2>2
        <3>2. Once(s) /\ e \notin ToSet(s) /\ ToSet(s) \subseteq seen
            BY <1>5, <3>1
        <3> HIDE DEF c, s
        <3>3. ToSet(c.events) = ToSet(s) \cup {e} /\ Once(c.events)
            BY <3>1, <3>2, AppendOnce
        <3>4. \A i \in 1 .. n - 1 : i \in 1 .. L /\ i # L
            BY <1>4, <2>2
        <3>5. \A i \in 1 .. n - 1 : ToSet(cs[i].events) \cap ToSet(s) = {}
            BY <3>1, <3>4 DEF Apart, L, s
        <3> QED BY <1>5, <3>2, <3>3, <3>4, <3>5
    <2> QED BY <2>1, <2>2
<1>7. \A i \in 1 .. n : i = n \/ (i \in 1 .. n - 1 /\ i \in 1 .. L)
    BY <1>4
<1>8. \A i \in 1 .. n : i # n => new[i] = cs[i]
    BY <1>3, <1>7
<1>9. c = new[n]
    BY <1>3
<1> HIDE DEF c
<1>10. \A i \in 1 .. n : Once(new[i].events) /\ ToSet(new[i].events) \subseteq seen \cup {e}
    BY <1>5, <1>6, <1>7, <1>8, <1>9
<1>11. \A i, j \in 1 .. n : i # j => ToSet(new[i].events) \cap ToSet(new[j].events) = {}
    <2> SUFFICES ASSUME NEW i \in 1 .. n, NEW j \in 1 .. n, i # j
                 PROVE  ToSet(new[i].events) \cap ToSet(new[j].events) = {}
        OBVIOUS
    <2>1. CASE i = n
        BY <1>6, <1>7, <1>8, <1>9, <2>1
    <2>2. CASE j = n
        BY <1>6, <1>7, <1>8, <1>9, <2>2
    <2>3. CASE i # n /\ j # n
        BY <1>7, <1>8, <2>3 DEF Apart, L
    <2> QED BY <2>1, <2>2, <2>3
<1>12. Apart(new, seen \cup {e})
    BY <1>3, <1>10, <1>11 DEF Apart
<1> QED
    BY <1>12 DEF new

LEMMA ClustersAre ==
    ASSUME NEW E, Rows(E)
    PROVE  Clusters(E) \in Seq(Cluster(E)) /\ Apart(Clusters(E), E)
<1> DEFINE s == InOrder(E)
           Seen(k) == {s[n] : n \in 1 .. k}
<1>1. /\ s \in Seq(E) /\ \A m, n \in 1 .. Len(s) : s[m] = s[n] => m = n
    BY EventsInOrder
<1> HIDE DEF s
<1>2. PICK h \in [0 .. Len(s) -> Seq(Cluster(E))] :
              /\ h[0] = <<>> /\ h[Len(s)] = Pass(s)
              /\ \A k \in 1 .. Len(s) : h[k] = Consume(h[k - 1], s[k])
    BY <1>1, PassIs
<1>3. Len(s) \in Nat
    BY <1>1
<1> DEFINE Bad == {k \in 0 .. Len(s) : ~Apart(h[k], Seen(k))}
<1> HIDE DEF Seen
<1>4. Bad = {}
    <2> SUFFICES ASSUME Bad # {} PROVE FALSE
        OBVIOUS
    <2>1. PICK k \in Bad : \A j \in Bad : k <= j
        <3>1. Bad \in SUBSET Nat
            BY <1>3
        <3> HIDE DEF Bad
        <3> QED BY <3>1, SmallestNat
    <2>2. k # 0
        BY <1>2 DEF Apart
    <2>3. k \in 1 .. Len(s) /\ k - 1 \in 0 .. Len(s) /\ ~(k <= k - 1)
        BY <1>3, <2>1, <2>2
    <2>4. Apart(h[k - 1], Seen(k - 1))
        BY <2>1, <2>3
    <2>5. s[k] \in E /\ s[k] \notin Seen(k - 1)
        <3>1. \A n \in 1 .. k - 1 : n \in 1 .. Len(s) /\ n # k
            BY <1>3, <2>3
        <3> QED BY <1>1, <2>3, <3>1 DEF Seen
    <2>6. Seen(k) = Seen(k - 1) \cup {s[k]}
        <3>1. 1 .. k = (1 .. k - 1) \cup {k}
            BY <2>3
        <3> QED BY <3>1 DEF Seen
    <2>7. h[k - 1] \in Seq(Cluster(E)) /\ h[k] = Consume(h[k - 1], s[k])
        BY <1>2, <2>3
    <2>8. Apart(h[k], Seen(k))
        <3>1. Apart(Consume(h[k - 1], s[k]), Seen(k - 1) \cup {s[k]})
            BY <2>4, <2>5, <2>7, ConsumeApart
        <3> QED BY <2>6, <2>7, <3>1
    <2> QED BY <2>1, <2>8
<1>5. Apart(h[Len(s)], Seen(Len(s))) /\ h[Len(s)] \in Seq(Cluster(E))
    BY <1>2, <1>3, <1>4
<1>6. Seen(Len(s)) \subseteq E
    BY <1>1 DEF Seen
<1>7. Clusters(E) = h[Len(s)]
    BY <1>2 DEF Clusters, Pass, s
<1> QED
    BY <1>5, <1>6, <1>7 DEF Apart

-----------------------------------------------------------------------------
(* Where a cluster may be cut. *)

Carries(f, evs) ==
    f = [n \in 1 .. Len(evs) |->
            IF evs[n].project # Null THEN evs[n].project
            ELSE IF n = 1 THEN Null ELSE f[n - 1]]

LEMMA FolderIs ==
    ASSUME NEW T, NEW evs \in Seq(T)
    PROVE  DOMAIN FolderAt(evs) = 1 .. Len(evs)
<1> DEFINE D == 1 .. Len(evs)
           A == {evs[n].project : n \in D} \cup {Null}
           F == [x \in A \X D |->
                    IF evs[x[2]].project # Null THEN evs[x[2]].project ELSE x[1]]
           s == [n \in D |-> n]
<1>1. F \in [A \X D -> A] /\ Null \in A
    OBVIOUS
<1>2. \A a \in A, n \in D :
        F[<<a, n>>] = IF evs[n].project # Null THEN evs[n].project ELSE a
    OBVIOUS
<1>3. Len(evs) \in Nat /\ s \in Seq(D) /\ Len(s) = Len(evs) /\ \A n \in D : s[n] = n
    OBVIOUS
<1> HIDE DEF A, F, s
<1>4. PICK g : LeftFold(g, A, F, Null, s)
    BY <1>1, <1>3, LeftExists
<1>5. PICK h : Steps(h, g, A, F, Null, s)
    BY <1>1, <1>3, <1>4, LeftPrefixes
<1>6. /\ h \in [0 .. Len(evs) -> A] /\ h[0] = Null
      /\ \A n \in D : h[n] = F[<<h[n - 1], n>>]
    BY <1>3, <1>5 DEF Steps
<1>7. ASSUME NEW n \in D
      PROVE  /\ h[n - 1] \in A
             /\ n = 1 \/ n - 1 \in D
             /\ n = 1 => h[n - 1] = Null
    <2>1. n - 1 \in 0 .. Len(evs) /\ (n = 1 \/ n - 1 \in D) /\ (n = 1 => n - 1 = 0)
        BY <1>3
    <2> QED BY <1>6, <2>1
<1> DEFINE f == [n \in D |-> h[n]]
<1>8. Carries(f, evs)
    <2>1. ASSUME NEW n \in D
          PROVE  h[n] = IF evs[n].project # Null THEN evs[n].project
                        ELSE IF n = 1 THEN Null ELSE f[n - 1]
        BY <1>2, <1>6, <1>7
    <2> QED BY <2>1 DEF Carries
<1> DEFINE q == CHOOSE p : Carries(p, evs)
<1>9. Carries(q, evs)
    BY <1>8
<1>10. FolderAt(evs) = q
    BY DEF FolderAt, Carries
<1> HIDE DEF q
<1> QED
    BY <1>9, <1>10 DEF Carries

LEMMA SegmentsAre ==
    ASSUME NEW T, NEW evs \in Seq(T)
    PROVE  Segments(evs, FolderAt(evs)) \in Seq(1 .. Len(evs))
<1> DEFINE folder == FolderAt(evs)
           S == {n \in DOMAIN folder : n = 1 \/ folder[n] # folder[n - 1]}
           segs == Ascending(S)
<1>0. Len(evs) \in Nat
    OBVIOUS
<1>1. S \in SUBSET (1 .. Len(evs))
    BY FolderIs
<1> HIDE DEF S
<1>2. segs \in [1 .. Cardinality(S) -> S] /\ Cardinality(S) \in Nat
    BY <1>0, <1>1, Ascends
<1>3. SegmentStarts(folder) = segs
    BY DEF SegmentStarts, S
<1>4. segs \in Seq(1 .. Len(evs))
    <2>1. segs \in [1 .. Cardinality(S) -> 1 .. Len(evs)]
        BY <1>1, <1>2
    <2> HIDE DEF segs
    <2> QED BY <1>2, <2>1
<1> HIDE DEF segs, folder
<1>5. \E R \in SUBSET (1 .. Len(evs)) : Collapsed(evs, folder, segs) = Ascending(R)
    <2> DEFINE visited == CHOOSE v :
                   v = [i \in 1 .. Len(segs) |->
                           i = 1 \/ ~v[i - 1] \/ ~BriefDetour(evs, folder, segs, i - 1)]
               R == {segs[i] : i \in {j \in DOMAIN segs :
                        visited[j] /\ ~BriefDetour(evs, folder, segs, j)}}
    <2>1. Collapsed(evs, folder, segs) = Ascending(R)
        BY DEF Collapsed
    <2> HIDE DEF visited
    <2>2. R \in SUBSET (1 .. Len(evs))
        BY <1>4
    <2> QED BY <2>1, <2>2
<1>6. PICK R \in SUBSET (1 .. Len(evs)) : Collapsed(evs, folder, segs) = Ascending(R)
    BY <1>5
<1>7. Ascending(R) \in [1 .. Cardinality(R) -> R] /\ Cardinality(R) \in Nat
    BY <1>0, Ascends
<1>8. Ascending(R) \in Seq(1 .. Len(evs))
    <2>1. Ascending(R) \in [1 .. Cardinality(R) -> 1 .. Len(evs)]
        BY <1>7
    <2> QED BY <1>7, <2>1
<1> QED
    BY <1>3, <1>6, <1>8 DEF Segments, folder

(* What the pass over the segments does with one of them. *)
SegmentEnd(evs, segs, i) == IF i = Len(segs) THEN Len(evs) ELSE segs[i + 1] - 1

Cut(evs, segs, cuts, i) ==
    IF /\ EventSpan(evs, Last(cuts), segs[i] - 1) >= MIN_BLOCK_MINUTES
       /\ EventSpan(evs, segs[i], SegmentEnd(evs, segs, i)) >= MIN_BLOCK_MINUTES
    THEN Append(cuts, segs[i]) ELSE cuts

Later(segs) == [j \in 1 .. Len(segs) - 1 |-> j + 1]

Cutting(f, evs, segs, s) ==
    f = [S \in SUBSET DOMAIN s |->
            IF S = {} THEN <<1>> ELSE Cut(evs, segs, f[S \ {Max(S)}], s[Max(S)])]

LEMMA CutsFold ==
    ASSUME NEW evs, NEW segs
    PROVE  CutsAt(evs, segs)
             = (CHOOSE f : Cutting(f, evs, segs, Later(segs)))[DOMAIN Later(segs)]
<1>1. CutsAt(evs, segs)
        = MapThenFoldSet(LAMBDA x, y : Cut(evs, segs, y, x), <<1>>, LAMBDA i : Later(segs)[i],
                         LAMBDA S : Max(S), DOMAIN Later(segs))
    BY DEF CutsAt, FoldLeft, Cut, SegmentEnd, Later
<1>2. @ = (CHOOSE f : Cutting(f, evs, segs, Later(segs)))[DOMAIN Later(segs)]
    BY DEF MapThenFoldSet, Cutting
<1> QED
    BY <1>1, <1>2

Spaced(q, evs) ==
    /\ q \in Seq(1 .. Len(evs)) /\ Len(q) >= 1 /\ q[1] = 1
    /\ \A i, j \in 1 .. Len(q) : i < j => q[i] < q[j]
    /\ \A i \in 1 .. Len(q) - 1 : EventSpan(evs, q[i], q[i + 1] - 1) >= MIN_BLOCK_MINUTES
    /\ Len(q) > 1 => \E u \in q[Len(q)] .. Len(evs) :
                        EventSpan(evs, q[Len(q)], u) >= MIN_BLOCK_MINUTES

LEMMA SpanIs ==
    ASSUME NEW E, Rows(E), NEW evs \in Seq(E), NEW first \in 1 .. Len(evs), NEW last \in Int,
           last <= Len(evs), EventSpan(evs, first, last) >= MIN_BLOCK_MINUTES
    PROVE  first <= last /\ evs[last].until - evs[first].at >= MIN_BLOCK_MINUTES
<1>1. first <= last
    BY DEF EventSpan, MIN_BLOCK_MINUTES
<1>2. first \in 1 .. Len(evs) /\ last \in 1 .. Len(evs) /\ Len(evs) \in Nat
    BY <1>1
<1>3. evs[last].until \in Int /\ evs[first].at \in Int
    <2>1. evs[last] \in E /\ evs[first] \in E
        BY <1>2
    <2> QED BY <2>1 DEF Rows
<1> DEFINE x == evs[last].until - evs[first].at
<1>4. x \in Int
    BY <1>3
<1>5. EventSpan(evs, first, last) = Max({0, x})
    BY <1>1, <1>2 DEF EventSpan
<1> HIDE DEF x
<1>6. Max({0, x}) \in {0, x}
    <2>1. 0 \in Int
        OBVIOUS
    <2> QED BY <1>4, <2>1, MaxOfTwo
<1>7. x >= MIN_BLOCK_MINUTES
    BY <1>5, <1>6 DEF MIN_BLOCK_MINUTES
<1> QED
    BY <1>1, <1>7 DEF x

LEMMA CutSpaced ==
    ASSUME NEW E, Rows(E), NEW evs \in Seq(E), NEW segs \in Seq(1 .. Len(evs)),
           NEW i \in 2 .. Len(segs), NEW q, Spaced(q, evs)
    PROVE  Spaced(Cut(evs, segs, q, i), evs)
<1> DEFINE L == Len(q)
           to == SegmentEnd(evs, segs, i)
           new == Append(q, segs[i])
<1> SUFFICES ASSUME EventSpan(evs, Last(q), segs[i] - 1) >= MIN_BLOCK_MINUTES,
                    EventSpan(evs, segs[i], to) >= MIN_BLOCK_MINUTES
             PROVE  Spaced(new, evs)
    BY DEF Cut
<1>1. /\ q \in Seq(1 .. Len(evs)) /\ L \in Nat /\ L >= 1 /\ q[1] = 1 /\ Last(q) = q[L]
      /\ \A k \in 1 .. L : q[k] \in 1 .. Len(evs)
    BY DEF Spaced, Last
<1>2. Len(evs) \in Nat /\ segs[i] \in 1 .. Len(evs) /\ Len(segs) \in Nat /\ i \in 1 .. Len(segs)
    <2>1. Len(evs) \in Nat /\ Len(segs) \in Nat
        OBVIOUS
    <2>2. i \in 1 .. Len(segs)
        BY <2>1
    <2> QED BY <2>1, <2>2
<1>3. to \in Int /\ to <= Len(evs)
    <2>1. CASE i = Len(segs)
        BY <1>2, <2>1 DEF SegmentEnd
    <2>2. CASE i # Len(segs)
        <3>1. i + 1 \in 1 .. Len(segs)
            BY <1>2, <2>2
        <3>2. segs[i + 1] \in 1 .. Len(evs)
            BY <3>1
        <3> QED BY <1>2, <2>2, <3>2 DEF SegmentEnd
    <2> QED BY <2>1, <2>2
<1>4. q[L] <= segs[i] - 1
    <2>1. segs[i] - 1 \in Int /\ segs[i] - 1 <= Len(evs) /\ q[L] \in 1 .. Len(evs)
        BY <1>1, <1>2
    <2> QED BY <1>1, <2>1, SpanIs
<1>5. segs[i] <= to
    BY <1>2, <1>3, SpanIs
<1>6. /\ new \in Seq(1 .. Len(evs)) /\ Len(new) = L + 1 /\ new[L + 1] = segs[i]
      /\ \A k \in 1 .. L : new[k] = q[k]
    BY <1>1, <1>2
<1> HIDE DEF new
<1> DEFINE at == segs[i]
           most == q[L]
<1>7. ASSUME NEW k \in 1 .. L PROVE q[k] \in Int /\ q[k] < at
    <2>1. L \in 1 .. L /\ (k = L \/ k < L)
        BY <1>1
    <2>2. q[k] \in Int /\ most \in Int /\ at \in Int /\ most <= at - 1
        BY <1>1, <1>2, <1>4, <2>1
    <2>3. k < L => q[k] < most
        BY <2>1 DEF Spaced
    <2> HIDE DEF most, at
    <2>4. CASE k < L
        BY <2>2, <2>3, <2>4
    <2>5. CASE k = L
        BY <2>2, <2>5 DEF most
    <2> QED BY <2>1, <2>4, <2>5
<1>8. \A j, k \in 1 .. L + 1 : j < k => new[j] < new[k]
    <2> SUFFICES ASSUME NEW j \in 1 .. L + 1, NEW k \in 1 .. L + 1, j < k
                 PROVE  new[j] < new[k]
        OBVIOUS
    <2>0. L \in Nat
        BY <1>1
    <2> HIDE DEF L
    <2>1. j \in 1 .. L
        BY <2>0
    <2>2. CASE k = L + 1
        BY <1>6, <1>7, <2>1, <2>2
    <2>3. CASE k # L + 1
        <3>1. k \in 1 .. L
            BY <2>0, <2>3
        <3> QED BY <1>6, <2>1, <3>1 DEF Spaced, L
    <2> QED BY <2>2, <2>3
<1>9. \A k \in 1 .. (L + 1) - 1 : EventSpan(evs, new[k], new[k + 1] - 1) >= MIN_BLOCK_MINUTES
    <2> SUFFICES ASSUME NEW k \in 1 .. L
                 PROVE  EventSpan(evs, new[k], new[k + 1] - 1) >= MIN_BLOCK_MINUTES
        BY <1>1
    <2>1. CASE k = L
        BY <1>1, <1>6, <2>1
    <2>2. CASE k # L
        <3>1. k \in 1 .. L - 1 /\ k + 1 \in 1 .. L
            BY <1>1, <2>2
        <3> QED BY <1>6, <3>1 DEF Spaced
    <2> QED BY <2>1, <2>2
<1>10. \E u \in new[L + 1] .. Len(evs) : EventSpan(evs, new[L + 1], u) >= MIN_BLOCK_MINUTES
    <2>1. to \in new[L + 1] .. Len(evs)
        BY <1>2, <1>3, <1>5, <1>6
    <2> QED BY <1>6, <2>1
<1>11. new[1] = 1 /\ L + 1 >= 1
    BY <1>1, <1>6
<1> QED
    BY <1>6, <1>8, <1>9, <1>10, <1>11 DEF Spaced

LEMMA CutsAre ==
    ASSUME NEW E, Rows(E), NEW evs \in Seq(E) \ {<<>>}, NEW segs \in Seq(1 .. Len(evs))
    PROVE  Spaced(CutsAt(evs, segs), evs)
<1> DEFINE s == Later(segs)
           A == Seq(1 .. Len(evs))
           B == 2 .. Len(segs)
           F == [x \in A \X B |-> Cut(evs, segs, x[1], x[2])]
           D == SUBSET (1 .. Len(s))
<1>0. Len(evs) \in Nat /\ Len(evs) >= 1 /\ Len(segs) \in Nat
    OBVIOUS
<1>1. F \in [A \X B -> A] /\ <<1>> \in A
    <2>1. \A q \in A, i \in B : Cut(evs, segs, q, i) \in A
        <3> SUFFICES ASSUME NEW q \in A, NEW i \in B PROVE Cut(evs, segs, q, i) \in A
            OBVIOUS
        <3>1. segs[i] \in 1 .. Len(evs)
            BY <1>0
        <3>2. Append(q, segs[i]) \in A
            BY <3>1
        <3> HIDE DEF A
        <3> QED BY <3>2 DEF Cut
    <2>2. <<1>> \in A
        BY <1>0
    <2> HIDE DEF A, B
    <2> QED BY <2>1, <2>2
<1>2. \A q \in A, i \in B : F[<<q, i>>] = Cut(evs, segs, q, i)
    OBVIOUS
<1>3. s \in Seq(B)
    <2>1. CASE Len(segs) = 0
        BY <2>1 DEF Later
    <2>2. CASE Len(segs) # 0
        <3>1. Len(segs) - 1 \in Nat /\ \A j \in 1 .. Len(segs) - 1 : j + 1 \in B
            BY <1>0, <2>2
        <3> QED BY <3>1 DEF Later
    <2> QED BY <2>1, <2>2
<1> HIDE DEF A, F, s
<1>4. DOMAIN s = 1 .. Len(s) /\ Len(s) \in Nat
    BY <1>3
<1>5. PICK f : LeftFold(f, A, F, <<1>>, s)
    BY <1>1, <1>3, LeftExists
<1>6. ASSUME NEW S \in D, S # {}
      PROVE  S \ {Max(S)} \in D /\ s[Max(S)] \in B
    <2>1. Max(S) \in 1 .. Len(s)
        BY <1>4, <1>6, LargestNat
    <2>2. S \ {Max(S)} \in D
        OBVIOUS
    <2> HIDE DEF D, B
    <2> QED BY <1>3, <2>1, <2>2
<1>7. Cutting(f, evs, segs, s)
    <2>1. f \in [D -> A] /\ \A S \in D : f[S] = Left(f, F, <<1>>, s, S)
        BY <1>5 DEF LeftFold
    <2>2. ASSUME NEW S \in D
          PROVE  f[S] = IF S = {} THEN <<1>> ELSE Cut(evs, segs, f[S \ {Max(S)}], s[Max(S)])
        <3> HIDE DEF D, B
        <3> QED BY <1>2, <1>6, <2>1 DEF Left
    <2> QED BY <1>4, <2>1, <2>2 DEF Cutting
<1> DEFINE g == CHOOSE p : Cutting(p, evs, segs, s)
<1>8. Cutting(g, evs, segs, s)
    BY <1>7
<1>9. CutsAt(evs, segs) = g[1 .. Len(s)]
    BY <1>4, CutsFold DEF s
<1> HIDE DEF g
<1>10. g[1 .. Len(s)] = f[1 .. Len(s)]
    <2>1. Alike(f, g, Len(s))
        BY <1>4, <1>7, <1>8 DEF Cutting, Alike
    <2> QED BY <1>4, <2>1, SameFold
<1>11. PICK h : Steps(h, f, A, F, <<1>>, s)
    BY <1>1, <1>3, <1>5, LeftPrefixes
<1>12. /\ h \in [0 .. Len(s) -> A] /\ h[0] = <<1>> /\ h[Len(s)] = f[1 .. Len(s)]
       /\ \A k \in 1 .. Len(s) : h[k] = F[<<h[k - 1], s[k]>>]
    BY <1>11 DEF Steps
<1> DEFINE Bad == {k \in 0 .. Len(s) : ~Spaced(h[k], evs)}
<1>13. Bad = {}
    <2> SUFFICES ASSUME Bad # {} PROVE FALSE
        OBVIOUS
    <2>1. PICK k \in Bad : \A j \in Bad : k <= j
        <3>1. Bad \in SUBSET Nat
            BY <1>4
        <3> HIDE DEF Bad
        <3> QED BY <3>1, SmallestNat
    <2>2. k # 0
        <3>1. Spaced(<<1>>, evs)
            BY <1>0 DEF Spaced
        <3> QED BY <1>12, <2>1, <3>1
    <2>3. k \in 1 .. Len(s) /\ k - 1 \in 0 .. Len(s) /\ ~(k <= k - 1)
        BY <1>4, <2>1, <2>2
    <2>4. Spaced(h[k - 1], evs) /\ h[k - 1] \in A
        BY <1>12, <2>1, <2>3
    <2>5. s[k] \in B
        BY <1>3, <2>3
    <2>6. h[k] = Cut(evs, segs, h[k - 1], s[k])
        BY <1>2, <1>12, <2>3, <2>4, <2>5
    <2>7. Spaced(h[k], evs)
        BY <2>4, <2>5, <2>6, CutSpaced
    <2> QED BY <2>1, <2>7
<1>14. Spaced(h[Len(s)], evs)
    BY <1>4, <1>13
<1> QED
    BY <1>9, <1>10, <1>12, <1>14

-----------------------------------------------------------------------------
(* The pieces of a cluster are its events, cut at a row of places.         *)

SlicedAt(a, p, evs) ==
    /\ a \in [1 .. Len(p) + 1 -> 1 .. Len(evs) + 1]
    /\ a[1] = 1 /\ a[Len(p) + 1] = Len(evs) + 1
    /\ \A i, j \in 1 .. Len(p) + 1 : i < j => a[i] < a[j]
    /\ \A n \in 1 .. Len(p) : p[n].events = SubSeq(evs, a[n], a[n + 1] - 1)

LEMMA PieceIs ==
    ASSUME NEW E, Rows(E), NEW c \in Cluster(E), NEW first \in 1 .. Len(c.events),
           NEW last \in first .. Len(c.events)
    PROVE  /\ SubBlock(c, first, last) \in Cluster(E)
           /\ SubBlock(c, first, last).events = SubSeq(c.events, first, last)
           /\ \A u \in first .. last : EventSpan(c.events, first, u) >= MIN_BLOCK_MINUTES
                                         => LongEnough(SubBlock(c, first, last))
<1> DEFINE evs == c.events
           U == {evs[n].until : n \in first .. last}
           b == SubBlock(c, first, last)
<1>0. evs \in Seq(E) /\ Len(evs) \in Nat /\ first \in Nat /\ last \in Nat /\ first <= last
    BY DEF Cluster
<1>1. \A n \in first .. last : n \in 1 .. Len(evs) /\ evs[n] \in E
    BY <1>0
<1> HIDE DEF evs
<1>2. \A n \in first .. last : evs[n].until \in Int /\ evs[n].at \in Int
    BY <1>1 DEF Rows
<1>3. U \in SUBSET Int /\ U # {} /\ IsFiniteSet(U)
    <2> DEFINE f == [n \in first .. last |-> evs[n].until]
    <2>1. f \in Surjection(first .. last, U)
        BY DEF Surjection
    <2>2. IsFiniteSet(first .. last)
        BY <1>0, FS_Interval
    <2>3. U \in SUBSET Int /\ U # {}
        BY <1>0, <1>2
    <2> HIDE DEF f, U
    <2> QED BY <2>1, <2>2, <2>3, FS_Surjection
<1>4. Max(U) \in Int /\ \A n \in first .. last : evs[n].until <= Max(U)
    <2>1. Max(U) \in U /\ \A k \in U : k <= Max(U)
        <3> HIDE DEF U
        <3> QED BY <1>3, LargestInt
    <2> QED BY <1>2, <2>1
<1>5. b = [start |-> evs[first].at, end |-> Max(U), cal |-> FALSE,
           events |-> SubSeq(evs, first, last)]
    BY DEF SubBlock, evs
<1> HIDE DEF U, b
<1>6. SubSeq(evs, first, last) \in Seq(E) \ {<<>>}
    <2>1. \A i \in first .. last : evs[i] \in E
        BY <1>1
    <2>2. /\ SubSeq(evs, first, last) \in Seq(E)
          /\ Len(SubSeq(evs, first, last)) = last - first + 1
        BY <1>0, <2>1, SubSeqProperties
    <2> DEFINE q == SubSeq(evs, first, last)
    <2>3. q \in Seq(E) /\ Len(q) >= 1
        BY <1>0, <2>2
    <2> HIDE DEF q
    <2>4. q # <<>>
        BY <2>3
    <2> QED BY <2>3, <2>4 DEF q
<1>7. evs[first].at \in Int /\ first \in first .. last
    BY <1>0, <1>2
<1>8. b \in Cluster(E) /\ b.events = SubSeq(evs, first, last)
    BY <1>4, <1>5, <1>6, <1>7 DEF Cluster
<1>9. ASSUME NEW u \in first .. last, EventSpan(evs, first, u) >= MIN_BLOCK_MINUTES
      PROVE  LongEnough(b)
    <2>1. evs[u].until - evs[first].at >= MIN_BLOCK_MINUTES
        BY <1>0, <1>1, <1>7, <1>9, SpanIs
    <2>2. evs[u].until \in Int /\ evs[u].until <= Max(U)
        BY <1>2, <1>4
    <2>3. Max(U) - evs[first].at >= MIN_BLOCK_MINUTES
        BY <1>4, <1>7, <2>1, <2>2 DEF MIN_BLOCK_MINUTES
    <2> QED BY <1>5, <2>3 DEF LongEnough
<1> QED
    BY <1>8, <1>9 DEF b, evs

LEMMA WholeIsAPiece ==
    ASSUME NEW E, NEW c \in Cluster(E)
    PROVE  \E a : SlicedAt(a, <<c>>, c.events)
<1> DEFINE evs == c.events
           a == [n \in 1 .. 2 |-> IF n = 1 THEN 1 ELSE Len(evs) + 1]
           p == <<c>>
<1>1. evs \in Seq(E) /\ Len(evs) \in Nat /\ Len(evs) >= 1
    <2>1. evs \in Seq(E) \ {<<>>}
        BY DEF Cluster
    <2> HIDE DEF evs
    <2> QED BY <2>1
<1>2. SubSeq(evs, 1, Len(evs)) = evs
    BY <1>1, SubSeqFull
<1>3. Len(p) = 1 /\ p[1].events = evs
    OBVIOUS
<1> HIDE DEF evs, p
<1>4. /\ a \in [1 .. 2 -> 1 .. Len(evs) + 1] /\ a[1] = 1 /\ a[2] = Len(evs) + 1
      /\ \A i, j \in 1 .. 2 : i < j => a[i] < a[j]
    BY <1>1
<1>5. (Len(evs) + 1) - 1 = Len(evs)
    BY <1>1
<1> HIDE DEF a
<1>6. SlicedAt(a, p, evs)
    BY <1>2, <1>3, <1>4, <1>5 DEF SlicedAt
<1> QED
    BY <1>6 DEF p, evs

LEMMA PiecesAre ==
    ASSUME NEW E, Rows(E), NEW c \in Cluster(E)
    PROVE  /\ SplitByProject(c) \in Seq(Cluster(E))
           /\ \E a : SlicedAt(a, SplitByProject(c), c.events)
           /\ LongEnough(c) =>
                \A n \in 1 .. Len(SplitByProject(c)) : LongEnough(SplitByProject(c)[n])
<1> DEFINE evs == c.events
           segs == Segments(evs, FolderAt(evs))
           cuts == CutsAt(evs, segs)
           last(n) == IF n = Len(cuts) THEN Len(evs) ELSE cuts[n + 1] - 1
           piece == [n \in DOMAIN cuts |-> SubBlock(c, cuts[n], last(n))]
           kept == Ascending({n \in DOMAIN cuts : LongEnough(piece[n])})
           p == SplitByProject(c)
<1>1. evs \in Seq(E) \ {<<>>}
    BY DEF Cluster
<1>2. segs \in Seq(1 .. Len(evs))
    BY <1>1, SegmentsAre
<1>3. Spaced(cuts, evs)
    <2> HIDE DEF segs, evs
    <2> QED BY <1>1, <1>2, CutsAre
<1>4. p = IF c.cal \/ Len(cuts) = 1 THEN <<c>> ELSE [m \in DOMAIN kept |-> piece[kept[m]]]
    BY DEF SplitByProject, SplitAt
<1>5. CASE c.cal \/ Len(cuts) = 1
    <2> HIDE DEF cuts, kept, piece, p
    <2>1. p = <<c>>
        BY <1>4, <1>5
    <2> QED BY <2>1, WholeIsAPiece DEF p
<1>6. CASE ~(c.cal \/ Len(cuts) = 1)
    <2> DEFINE L == Len(cuts)
               a == [n \in 1 .. L + 1 |-> IF n = L + 1 THEN Len(evs) + 1 ELSE cuts[n]]
    <2> HIDE DEF cuts, evs, p
    <2>1. /\ cuts \in Seq(1 .. Len(evs)) /\ L \in Nat /\ L > 1 /\ cuts[1] = 1
          /\ DOMAIN cuts = 1 .. L /\ Len(evs) \in Nat
          /\ \A n \in 1 .. L : cuts[n] \in 1 .. Len(evs)
        <3>1. cuts \in Seq(1 .. Len(evs)) /\ L >= 1 /\ cuts[1] = 1
            BY <1>3 DEF Spaced
        <3>2. L # 1
            BY <1>6
        <3>3. Len(evs) \in Nat
            BY <1>1
        <3>4. L \in Nat /\ DOMAIN cuts = 1 .. L /\ \A n \in 1 .. L : cuts[n] \in 1 .. Len(evs)
            BY <3>1
        <3> HIDE DEF L
        <3>5. L > 1
            BY <3>1, <3>2, <3>4
        <3> QED BY <3>1, <3>3, <3>4, <3>5
    <2>2. /\ a \in [1 .. L + 1 -> 1 .. Len(evs) + 1] /\ a[1] = 1 /\ a[L + 1] = Len(evs) + 1
          /\ \A n \in 1 .. L : a[n] = cuts[n]
        BY <2>1
    <2>3. \A i, j \in 1 .. L + 1 : i < j => a[i] < a[j]
        <3> SUFFICES ASSUME NEW i \in 1 .. L + 1, NEW j \in 1 .. L + 1, i < j
                     PROVE  a[i] < a[j]
            OBVIOUS
        <3> HIDE DEF a
        <3>1. i \in 1 .. L /\ a[i] = cuts[i]
            BY <2>1, <2>2
        <3>2. CASE j = L + 1
            BY <2>1, <2>2, <3>1, <3>2
        <3>3. CASE j # L + 1
            <4>1. j \in 1 .. L
                BY <2>1, <3>3
            <4> QED BY <1>3, <2>2, <3>1, <4>1 DEF Spaced, L
        <3> QED BY <3>2, <3>3
    <2>4. ASSUME NEW n \in 1 .. L
          PROVE  /\ last(n) = a[n + 1] - 1 /\ last(n) \in cuts[n] .. Len(evs)
                 /\ piece[n] \in Cluster(E)
                 /\ piece[n].events = SubSeq(evs, a[n], a[n + 1] - 1)
                 /\ LongEnough(piece[n])
        <3> HIDE DEF a
        <3>0. last(n) = IF n = L THEN Len(evs) ELSE cuts[n + 1] - 1
            OBVIOUS
        <3> HIDE DEF L
        <3>1. n + 1 \in 1 .. L + 1 /\ n \in 1 .. L + 1 /\ (n = L \/ n + 1 \in 1 .. L)
              /\ (n # L => n \in 1 .. L - 1)
            BY <2>1
        <3>2. last(n) = a[n + 1] - 1
            <4> HIDE DEF last
            <4>1. CASE n = L
                BY <2>1, <2>2, <3>0, <4>1
            <4>2. CASE n # L
                BY <2>2, <3>0, <3>1, <4>2
            <4> QED BY <4>1, <4>2
        <3>3. last(n) \in cuts[n] .. Len(evs)
            <4> HIDE DEF last
            <4>1. n < n + 1 /\ a[n] = cuts[n] /\ a[n] < a[n + 1]
                BY <2>1, <2>2, <2>3, <3>1
            <4>2. a[n + 1] \in 1 .. Len(evs) + 1 /\ cuts[n] \in Nat
                BY <2>1, <2>2, <3>1
            <4> QED BY <2>1, <3>2, <4>1, <4>2
        <3>4. \E u \in cuts[n] .. last(n) :
                 EventSpan(evs, cuts[n], u) >= MIN_BLOCK_MINUTES
            <4>1. CASE n = L
                BY <1>3, <2>1, <4>1 DEF Spaced
            <4>2. CASE n # L
                <5>1. EventSpan(evs, cuts[n], cuts[n + 1] - 1) >= MIN_BLOCK_MINUTES
                    BY <1>3, <3>1, <4>2 DEF Spaced, L
                <5>2. last(n) = cuts[n + 1] - 1
                    BY <3>0, <4>2
                <5>3. last(n) \in cuts[n] .. last(n)
                    <6> HIDE DEF last
                    <6> QED BY <2>1, <3>3
                <5> QED BY <5>1, <5>2, <5>3
            <4> QED BY <4>1, <4>2
        <3>5. piece[n] = SubBlock(c, cuts[n], last(n))
            BY <2>1
        <3> HIDE DEF last, piece
        <3>6. cuts[n] \in 1 .. Len(c.events) /\ last(n) \in cuts[n] .. Len(c.events)
            BY <2>1, <3>3 DEF evs
        <3>7. /\ piece[n] \in Cluster(E)
              /\ piece[n].events = SubSeq(c.events, cuts[n], last(n))
              /\ \A u \in cuts[n] .. last(n) :
                    EventSpan(c.events, cuts[n], u) >= MIN_BLOCK_MINUTES => LongEnough(piece[n])
            BY <3>5, <3>6, PieceIs
        <3>8. LongEnough(piece[n])
            BY <3>4, <3>7 DEF evs
        <3> QED BY <2>2, <3>2, <3>3, <3>7, <3>8 DEF evs
    <2>5. piece \in [1 .. L -> Cluster(E)]
        <3> HIDE DEF last
        <3>1. piece = [n \in 1 .. L |-> piece[n]]
            BY <2>1
        <3> HIDE DEF piece
        <3> QED BY <2>4, <3>1
    <2> HIDE DEF last, piece
    <2>6. kept = [m \in 1 .. L |-> m]
        <3>1. {n \in DOMAIN cuts : LongEnough(piece[n])} = 1 .. L
            BY <2>1, <2>4
        <3> QED BY <2>1, <3>1, Ascends
    <2>7. p = piece
        <3>1. p = [m \in DOMAIN kept |-> piece[kept[m]]]
            BY <1>4, <1>6
        <3> HIDE DEF kept
        <3>2. p = [m \in 1 .. L |-> piece[m]]
            BY <2>6, <3>1
        <3> QED BY <2>5, <3>2
    <2>8. p \in Seq(Cluster(E)) /\ Len(p) = L
        BY <2>1, <2>5, <2>7
    <2> HIDE DEF a, L
    <2>9. SlicedAt(a, p, evs)
        BY <2>2, <2>3, <2>4, <2>7, <2>8 DEF SlicedAt
    <2> QED BY <2>4, <2>7, <2>8, <2>9 DEF p, evs
<1> QED
    BY <1>5, <1>6

Flattens(f, seqs) ==
    f = [i \in 1 .. Len(seqs) |-> IF i = 1 THEN seqs[i] ELSE f[i - 1] \o seqs[i]]

LEMMA SlicesAreTheWhole ==
    ASSUME NEW E, NEW evs \in Seq(E) \ {<<>>}, NEW p \in Seq(Cluster(E)), NEW a, SlicedAt(a, p, evs)
    PROVE  FlattenSeq([m \in DOMAIN p |-> p[m].events]) = evs
<1> DEFINE seqs == [m \in DOMAIN p |-> p[m].events]
           L == Len(p)
           g == [i \in 1 .. L |-> SubSeq(evs, 1, a[i + 1] - 1)]
           f == CHOOSE h : Flattens(h, seqs)
<1>0. L \in Nat /\ DOMAIN p = 1 .. L /\ Len(evs) \in Nat /\ Len(evs) >= 1
    OBVIOUS
<1>1. seqs = [m \in 1 .. L |-> p[m].events] /\ Len(seqs) = L
    BY <1>0
<1>2. \A i \in 1 .. L : seqs[i] = SubSeq(evs, a[i], a[i + 1] - 1)
    BY <1>1 DEF SlicedAt
<1>3. /\ a \in [1 .. L + 1 -> 1 .. Len(evs) + 1] /\ a[1] = 1 /\ a[L + 1] = Len(evs) + 1
      /\ \A i, j \in 1 .. L + 1 : i < j => a[i] < a[j]
    BY DEF SlicedAt
<1>4. L # 0
    BY <1>0, <1>3
<1>5. FlattenSeq(seqs) = f[L]
    <2>1. FlattenSeq(seqs) = IF Len(seqs) = 0 THEN seqs ELSE f[Len(seqs)]
        BY DEF FlattenSeq, Flattens
    <2> HIDE DEF f, seqs
    <2> QED BY <1>1, <1>4, <2>1
<1> HIDE DEF L, seqs
<1>6. ASSUME NEW i \in 1 .. L, i # 1
      PROVE  SubSeq(evs, 1, a[i] - 1) \o seqs[i] = SubSeq(evs, 1, a[i + 1] - 1)
    <2>1. /\ 1 \in 1 .. L + 1 /\ i \in 1 .. L + 1 /\ i + 1 \in 1 .. L + 1
          /\ 1 < i /\ i < i + 1 /\ i \in 1 .. L
        BY <1>0, <1>6
    <2>2. a[i] \in 1 .. Len(evs) + 1 /\ a[i + 1] \in 1 .. Len(evs) + 1 /\ 1 < a[i] /\ a[i] < a[i + 1]
        BY <1>3, <2>1
    <2> DEFINE k == a[i] - 1
               n == a[i + 1] - 1
    <2>3. k \in 1 - 1 .. Len(evs) /\ n \in k .. Len(evs) /\ k + 1 = a[i] /\ 1 \in 1 .. Len(evs) + 1
        BY <1>0, <2>2
    <2> HIDE DEF k, n
    <2>4. SubSeq(evs, 1, k) \o SubSeq(evs, k + 1, n) = SubSeq(evs, 1, n)
        BY <2>3, ConcatAdjacentSubSeq
    <2> QED BY <1>2, <2>1, <2>3, <2>4 DEF k, n
<1>7. Flattens(g, seqs)
    <2> SUFFICES ASSUME NEW i \in 1 .. L
                 PROVE  SubSeq(evs, 1, a[i + 1] - 1)
                          = IF i = 1 THEN seqs[i] ELSE g[i - 1] \o seqs[i]
        BY <1>1 DEF Flattens
    <2>1. CASE i = 1
        BY <1>2, <1>3, <2>1
    <2>2. CASE i # 1
        <3>1. i - 1 \in 1 .. L /\ (i - 1) + 1 = i
            BY <1>0, <2>2
        <3>2. g[i - 1] = SubSeq(evs, 1, a[i] - 1)
            BY <3>1
        <3> QED BY <1>6, <2>2, <3>2
    <2> QED BY <2>1, <2>2
<1>8. Flattens(f, seqs)
    BY <1>7
<1> HIDE DEF f, g
<1> DEFINE Bad == {i \in 1 .. L : f[i] # g[i]}
<1>9. Bad = {}
    <2> SUFFICES ASSUME Bad # {} PROVE FALSE
        OBVIOUS
    <2>1. PICK i \in Bad : \A j \in Bad : i <= j
        <3>1. Bad \in SUBSET Nat
            BY <1>0
        <3> HIDE DEF Bad
        <3> QED BY <3>1, SmallestNat
    <2>2. /\ f[i] = IF i = 1 THEN seqs[i] ELSE f[i - 1] \o seqs[i]
          /\ g[i] = IF i = 1 THEN seqs[i] ELSE g[i - 1] \o seqs[i]
        BY <1>1, <1>7, <1>8, <2>1 DEF Flattens
    <2>3. i # 1
        BY <2>1, <2>2
    <2>4. i - 1 \in 1 .. L /\ ~(i <= i - 1)
        BY <1>0, <2>1, <2>3
    <2>5. f[i - 1] = g[i - 1]
        BY <2>1, <2>4
    <2> QED BY <2>1, <2>2, <2>5
<1>10. f[L] = g[L] /\ L \in 1 .. L
    BY <1>0, <1>4, <1>9
<1>11. g[L] = SubSeq(evs, 1, a[L + 1] - 1)
    BY <1>10 DEF g
<1>12. a[L + 1] - 1 = Len(evs)
    BY <1>0, <1>3
<1>13. g[L] = evs
    BY <1>11, <1>12, SubSeqFull
<1> QED
    BY <1>5, <1>10, <1>13 DEF seqs

-----------------------------------------------------------------------------
(* Whatever has been collected can be put in order. *)

Known == IsFiniteSet(collected) /\ collected \subseteq UNION Batches

LEMMA DaysAreKnown == Spec => []Known
<1>1. Init => Known
    BY FS_EmptySet DEF Init, Known
<1>2. Known /\ [Next]_vars => Known'
    <2> SUFFICES ASSUME Known, [Next]_vars PROVE Known'
        OBVIOUS
    <2>1. ASSUME NEW batch \in Batches, Collect(batch) PROVE Known'
        <3>1. IsFiniteSet(collected \cup batch)
            BY BatchesAssumption, FS_Union DEF Known
        <3> QED BY <2>1, <3>1 DEF Collect, Known
    <2>2. ASSUME NEW w, Allocate(w) \/ Withdraw(w) \/ UNCHANGED vars PROVE Known'
        BY <2>2 DEF Allocate, Withdraw, vars, Known
    <2> QED BY <2>1, <2>2 DEF Next
<1> QED
    BY <1>1, <1>2, PTL DEF Spec

LEMMA DaysAreRows == Spec => []Rows(collected)
<1>1. Known => Rows(collected)
    BY BatchesAssumption DEF Known, Rows
<1> QED
    BY <1>1, DaysAreKnown, PTL

(* For any batches of events, in any order: cutting a cluster where the    *)
(* work moves to another folder leaves no event out, and none changes      *)
(* place.                                                                  *)
THEOREM CutsLoseNothing == Spec => []SplitLosesNothing
<1>1. ASSUME Rows(collected) PROVE SplitLosesNothing
    <2> SUFFICES ASSUME NEW c \in ToSet(Clusters(collected))
                 PROVE  FlattenSeq([m \in DOMAIN SplitByProject(c) |->
                                       SplitByProject(c)[m].events]) = c.events
        BY DEF SplitLosesNothing
    <2>1. c \in Cluster(collected)
        BY <1>1, ClustersAre DEF ToSet
    <2>2. c.events \in Seq(collected) \ {<<>>}
        BY <2>1 DEF Cluster
    <2>3. /\ SplitByProject(c) \in Seq(Cluster(collected))
          /\ \E a : SlicedAt(a, SplitByProject(c), c.events)
        BY <1>1, <2>1, PiecesAre
    <2> QED BY <2>2, <2>3, SlicesAreTheWhole
<1> QED
    BY <1>1, DaysAreRows, PTL

-----------------------------------------------------------------------------
(* The blocks of a day. *)

(* No event is in two of the blocks, all are of seen, and none is short.   *)
BlocksApart(day, seen) ==
    /\ \A i \in 1 .. Len(day) : /\ LongEnough(day[i]) /\ day[i].events # {}
                                /\ day[i].events \subseteq seen
    /\ \A i, j \in 1 .. Len(day) : i # j => day[i].events \cap day[j].events = {}

BlocksOf(E) == {Block(c) : c \in Cluster(E)}

LEMMA BlockIs ==
    ASSUME NEW E, NEW c \in Cluster(E)
    PROVE  /\ Block(c) \in BlocksOf(E) /\ Block(c).events = ToSet(c.events)
           /\ Block(c).events # {} /\ Block(c).events \subseteq E
           /\ LongEnough(c) => LongEnough(Block(c))
<1>1. c.events \in Seq(E) \ {<<>>}
    BY DEF Cluster
<1>2. ToSet(c.events) # {} /\ ToSet(c.events) \subseteq E
    <2> DEFINE evs == c.events
    <2> HIDE DEF evs
    <2>1. Len(evs) \in Nat /\ Len(evs) # 0 /\ DOMAIN evs = 1 .. Len(evs)
          /\ \A n \in 1 .. Len(evs) : evs[n] \in E
        BY <1>1 DEF evs
    <2>2. 1 \in DOMAIN evs
        BY <2>1
    <2> QED BY <2>1, <2>2 DEF ToSet, evs
<1> QED
    BY <1>2 DEF Block, BlocksOf, LongEnough

LEMMA SlicesApart ==
    ASSUME NEW E, NEW evs \in Seq(E), Once(evs), NEW p \in Seq(Cluster(E)),
           NEW a, SlicedAt(a, p, evs)
    PROVE  /\ \A n \in 1 .. Len(p) : ToSet(p[n].events) \subseteq ToSet(evs)
           /\ \A m, n \in 1 .. Len(p) :
                  m # n => ToSet(p[m].events) \cap ToSet(p[n].events) = {}
<1> DEFINE L == Len(p)
           Places(n) == a[n] .. a[n + 1] - 1
<1>0. L \in Nat /\ Len(evs) \in Nat /\ DOMAIN evs = 1 .. Len(evs)
    OBVIOUS
<1>1. /\ a \in [1 .. L + 1 -> 1 .. Len(evs) + 1]
      /\ \A i, j \in 1 .. L + 1 : i < j => a[i] < a[j]
      /\ \A n \in 1 .. L : p[n].events = SubSeq(evs, a[n], a[n + 1] - 1)
    BY DEF SlicedAt
<1> HIDE DEF L
<1>2. ASSUME NEW n \in 1 .. L
      PROVE  /\ n \in 1 .. L + 1 /\ n + 1 \in 1 .. L + 1
             /\ a[n] \in 1 .. Len(evs) + 1 /\ a[n + 1] \in 1 .. Len(evs) + 1
             /\ Places(n) \subseteq 1 .. Len(evs)
    <2>1. n \in 1 .. L + 1 /\ n + 1 \in 1 .. L + 1
        BY <1>0
    <2>2. a[n] \in 1 .. Len(evs) + 1 /\ a[n + 1] \in 1 .. Len(evs) + 1
        BY <1>1, <2>1
    <2>3. Places(n) \subseteq 1 .. Len(evs)
        BY <1>0, <2>2
    <2> QED BY <2>1, <2>2, <2>3
<1>3. ASSUME NEW n \in 1 .. L PROVE ToSet(p[n].events) = {evs[k] : k \in Places(n)}
    <2> DEFINE from == a[n]
               to == a[n + 1] - 1
               q == SubSeq(evs, from, to)
    <2>1. from \in Int /\ to \in Int /\ \A k \in from .. to : evs[k] \in E
        BY <1>0, <1>2
    <2> HIDE DEF from, to
    <2>2. /\ q \in Seq(E) /\ Len(q) = IF from <= to THEN to - from + 1 ELSE 0
          /\ \A k \in 1 .. to - from + 1 : q[k] = evs[from + k - 1]
        BY <2>1, SubSeqProperties
    <2> HIDE DEF q
    <2>3. \A k \in DOMAIN q : from + k - 1 \in from .. to /\ q[k] = evs[from + k - 1]
        <3>1. \A k \in DOMAIN q : k \in 1 .. to - from + 1 /\ from <= to
            BY <2>1, <2>2
        <3>2. \A k \in 1 .. to - from + 1 : from + k - 1 \in from .. to
            BY <2>1
        <3> QED BY <2>2, <3>1, <3>2
    <2>4. \A j \in from .. to : \E k \in DOMAIN q : q[k] = evs[j]
        <3> SUFFICES ASSUME NEW j \in from .. to PROVE \E k \in DOMAIN q : q[k] = evs[j]
            OBVIOUS
        <3>1. j - from + 1 \in 1 .. to - from + 1 /\ from <= to /\ from + (j - from + 1) - 1 = j
            BY <2>1
        <3>2. j - from + 1 \in DOMAIN q
            BY <2>1, <2>2, <3>1
        <3> QED BY <2>2, <3>1, <3>2
    <2>5. ToSet(q) = {evs[k] : k \in from .. to}
        BY <2>3, <2>4 DEF ToSet
    <2> QED BY <1>1, <2>5 DEF q, from, to
<1>4. ASSUME NEW m \in 1 .. L, NEW n \in 1 .. L, m < n
      PROVE  ToSet(p[m].events) \cap ToSet(p[n].events) = {}
    <2>1. a[m + 1] <= a[n]
        <3>1. m + 1 = n \/ m + 1 < n
            BY <1>0, <1>4
        <3>2. a[m + 1] \in Nat /\ a[n] \in Nat
            BY <1>2
        <3>3. m + 1 < n => a[m + 1] < a[n]
            BY <1>1, <1>2
        <3> QED BY <3>1, <3>2, <3>3
    <2>2. Places(m) \cap Places(n) = {}
        BY <1>2, <2>1
    <2>3. Places(m) \subseteq 1 .. Len(evs) /\ Places(n) \subseteq 1 .. Len(evs)
        BY <1>2
    <2> HIDE DEF Places
    <2>4. {evs[k] : k \in Places(m)} \cap {evs[k] : k \in Places(n)} = {}
        BY <2>2, <2>3 DEF Once
    <2> QED BY <1>3, <2>4
<1>5. \A m, n \in 1 .. L : m # n => ToSet(p[m].events) \cap ToSet(p[n].events) = {}
    <2> SUFFICES ASSUME NEW m \in 1 .. L, NEW n \in 1 .. L, m # n
                 PROVE  ToSet(p[m].events) \cap ToSet(p[n].events) = {}
        OBVIOUS
    <2>1. m < n \/ n < m
        BY <1>0
    <2>2. n < m => ToSet(p[n].events) \cap ToSet(p[m].events) = {}
        BY <1>4
    <2> QED BY <1>4, <2>1, <2>2
<1>6. \A n \in 1 .. L : ToSet(p[n].events) \subseteq ToSet(evs)
    <2> SUFFICES ASSUME NEW n \in 1 .. L PROVE ToSet(p[n].events) \subseteq ToSet(evs)
        OBVIOUS
    <2>1. Places(n) \subseteq DOMAIN evs
        BY <1>0, <1>2
    <2>2. ToSet(p[n].events) = {evs[k] : k \in Places(n)}
        BY <1>3
    <2> HIDE DEF Places
    <2> QED BY <2>1, <2>2 DEF ToSet
<1> QED
    BY <1>5, <1>6 DEF L

Finalized(day, c) == IF LongEnough(c) THEN day \o Blocks(SplitByProject(c)) ELSE day

LEMMA FinalizedApart ==
    ASSUME NEW E, Rows(E), NEW day \in Seq(BlocksOf(E)), NEW c \in Cluster(E),
           NEW seen, BlocksApart(day, seen), Once(c.events),
           ToSet(c.events) \cap seen = {}
    PROVE  /\ Finalized(day, c) \in Seq(BlocksOf(E))
           /\ BlocksApart(Finalized(day, c), seen \cup ToSet(c.events))
<1>1. CASE ~LongEnough(c)
    <2>1. Finalized(day, c) = day
        BY <1>1 DEF Finalized
    <2> QED BY <2>1 DEF BlocksApart
<1>2. CASE LongEnough(c)
    <2> DEFINE p == SplitByProject(c)
               new == Blocks(p)
               both == day \o new
    <2>1. /\ p \in Seq(Cluster(E)) /\ \E a : SlicedAt(a, p, c.events)
          /\ \A n \in 1 .. Len(p) : LongEnough(p[n])
        BY <1>2, PiecesAre
    <2>2. PICK a : SlicedAt(a, p, c.events)
        BY <2>1
    <2>3. c.events \in Seq(E)
        BY DEF Cluster
    <2> HIDE DEF p
    <2>4. /\ \A n \in 1 .. Len(p) : ToSet(p[n].events) \subseteq ToSet(c.events)
          /\ \A m, n \in 1 .. Len(p) :
                 m # n => ToSet(p[m].events) \cap ToSet(p[n].events) = {}
        BY <2>1, <2>2, <2>3, SlicesApart
    <2>5. Len(p) \in Nat /\ DOMAIN p = 1 .. Len(p) /\ \A n \in 1 .. Len(p) : p[n] \in Cluster(E)
        BY <2>1
    <2>6. /\ new \in Seq(BlocksOf(E)) /\ Len(new) = Len(p)
          /\ \A n \in 1 .. Len(p) : new[n] = Block(p[n])
        <3>1. new = [n \in 1 .. Len(p) |-> Block(p[n])]
            BY <2>5 DEF Blocks
        <3>2. \A n \in 1 .. Len(p) : Block(p[n]) \in BlocksOf(E)
            BY <2>5, BlockIs
        <3> HIDE DEF new
        <3> QED BY <2>5, <3>1, <3>2
    <2>7. \A n \in 1 .. Len(p) : /\ LongEnough(new[n]) /\ new[n].events # {}
                                 /\ new[n].events = ToSet(p[n].events)
        BY <2>1, <2>5, <2>6, BlockIs
    <2> HIDE DEF new
    <2>8. /\ both \in Seq(BlocksOf(E)) /\ Len(both) = Len(day) + Len(p)
          /\ \A i \in 1 .. Len(both) :
                \/ i \in 1 .. Len(day) /\ both[i] = day[i]
                \/ i - Len(day) \in 1 .. Len(p) /\ both[i] = new[i - Len(day)]
        BY <2>5, <2>6
    <2> HIDE DEF both
    <2> DEFINE all == seen \cup ToSet(c.events)
    <2>9. \A i \in 1 .. Len(both) : /\ LongEnough(both[i]) /\ both[i].events # {}
                                    /\ both[i].events \subseteq all
        BY <2>4, <2>7, <2>8 DEF BlocksApart
    <2>10. ASSUME NEW i \in 1 .. Len(both), NEW j \in 1 .. Len(both), i # j
           PROVE  both[i].events \cap both[j].events = {}
        <3>1. CASE both[i] = day[i] /\ both[j] = day[j] /\ i \in 1 .. Len(day) /\ j \in 1 .. Len(day)
            BY <2>10, <3>1 DEF BlocksApart
        <3>2. ASSUME NEW m \in 1 .. Len(day), NEW n \in 1 .. Len(p)
              PROVE  day[m].events \cap new[n].events = {}
            BY <2>4, <2>7 DEF BlocksApart
        <3>3. CASE /\ i - Len(day) \in 1 .. Len(p) /\ both[i] = new[i - Len(day)]
                   /\ j - Len(day) \in 1 .. Len(p) /\ both[j] = new[j - Len(day)]
            <4>1. i - Len(day) # j - Len(day)
                BY <2>10
            <4> QED BY <2>4, <2>7, <3>3, <4>1
        <3> QED BY <2>8, <3>1, <3>2, <3>3
    <2>11. BlocksApart(both, all)
        <3> HIDE DEF all
        <3> QED BY <2>9, <2>10 DEF BlocksApart
    <2>12. Finalized(day, c) = both
        BY <1>2 DEF Finalized, both, new, p
    <2> QED BY <2>8, <2>11, <2>12
<1> QED
    BY <1>1, <1>2

Day(s) == FoldLeft(Finalized, <<>>, s)

Finalizes(f, s) ==
    f = [S \in SUBSET DOMAIN s |->
            IF S = {} THEN <<>> ELSE Finalized(f[S \ {Max(S)}], s[Max(S)])]

LEMMA DayFold ==
    ASSUME NEW s
    PROVE  Day(s) = (CHOOSE f : Finalizes(f, s))[DOMAIN s]
<1>1. Day(s) = MapThenFoldSet(LAMBDA x, y : Finalized(y, x), <<>>, LAMBDA i : s[i],
                              LAMBDA S : Max(S), DOMAIN s)
    BY DEF Day, FoldLeft
<1>2. @ = (CHOOSE f : Finalizes(f, s))[DOMAIN s]
    BY DEF MapThenFoldSet, Finalizes
<1> QED
    BY <1>1, <1>2

LEMMA BuildIsDay ==
    ASSUME NEW E
    PROVE  BuildBlocks(E) = Day(Clusters(E))
<1>1. BuildBlocks(E)
        = MapThenFoldSet(LAMBDA x, y : Finalized(y, x), <<>>, LAMBDA i : Clusters(E)[i],
                         LAMBDA S : Max(S), DOMAIN Clusters(E))
    BY DEF BuildBlocks, FoldLeft, Finalized
<1>2. @ = Day(Clusters(E))
    BY DEF Day, FoldLeft
<1> QED
    BY <1>1, <1>2

LEMMA FinalizedType ==
    ASSUME NEW E, Rows(E), NEW day \in Seq(BlocksOf(E)), NEW c \in Cluster(E)
    PROVE  Finalized(day, c) \in Seq(BlocksOf(E))
<1> DEFINE p == SplitByProject(c)
           new == Blocks(p)
<1>1. p \in Seq(Cluster(E))
    BY PiecesAre
<1> HIDE DEF p
<1>2. new \in Seq(BlocksOf(E))
    <2>1. \A n \in DOMAIN p : p[n] \in Cluster(E)
        BY <1>1
    <2>2. \A n \in DOMAIN p : Block(p[n]) \in BlocksOf(E)
        BY <2>1, BlockIs
    <2> QED BY <1>1, <2>2 DEF Blocks
<1> HIDE DEF new
<1>3. day \o new \in Seq(BlocksOf(E))
    BY <1>2
<1> QED
    BY <1>3 DEF Finalized, new, p

LEMMA DayIs ==
    ASSUME NEW E, Rows(E), NEW s \in Seq(Cluster(E))
    PROVE  \E h \in [0 .. Len(s) -> Seq(BlocksOf(E))] :
              /\ h[0] = <<>> /\ h[Len(s)] = Day(s)
              /\ \A k \in 1 .. Len(s) : h[k] = Finalized(h[k - 1], s[k])
<1> DEFINE A == Seq(BlocksOf(E))
           B == Cluster(E)
           F == [x \in A \X B |-> Finalized(x[1], x[2])]
           D == SUBSET (1 .. Len(s))
<1>1. F \in [A \X B -> A] /\ <<>> \in A
    BY FinalizedType
<1>2. \A day \in A, c \in B : F[<<day, c>>] = Finalized(day, c)
    OBVIOUS
<1> HIDE DEF A, B, F
<1>3. PICK f : LeftFold(f, A, F, <<>>, s)
    BY <1>1, LeftExists DEF B
<1>4. DOMAIN s = 1 .. Len(s) /\ Len(s) \in Nat
    OBVIOUS
<1>5. ASSUME NEW S \in D, S # {}
      PROVE  S \ {Max(S)} \in D /\ s[Max(S)] \in B
    <2>1. Max(S) \in 1 .. Len(s)
        BY <1>4, <1>5, LargestNat
    <2>2. S \ {Max(S)} \in D
        OBVIOUS
    <2> HIDE DEF D
    <2> QED BY <2>1, <2>2 DEF B
<1>6. Finalizes(f, s)
    <2>1. f \in [D -> A] /\ \A S \in D : f[S] = Left(f, F, <<>>, s, S)
        BY <1>3 DEF LeftFold
    <2>2. ASSUME NEW S \in D
          PROVE  f[S] = IF S = {} THEN <<>> ELSE Finalized(f[S \ {Max(S)}], s[Max(S)])
        <3> HIDE DEF D
        <3> QED BY <1>2, <1>5, <2>1 DEF Left
    <2> QED BY <1>4, <2>1, <2>2 DEF Finalizes
<1> DEFINE g == CHOOSE p : Finalizes(p, s)
<1>7. Finalizes(g, s)
    BY <1>6
<1>8. Day(s) = g[1 .. Len(s)]
    BY <1>4, DayFold
<1> HIDE DEF g
<1>9. g[1 .. Len(s)] = f[1 .. Len(s)]
    <2>1. Alike(f, g, Len(s))
        BY <1>4, <1>6, <1>7 DEF Finalizes, Alike
    <2> QED BY <1>4, <2>1, SameFold
<1>10. PICK h : Steps(h, f, A, F, <<>>, s)
    BY <1>1, <1>3, LeftPrefixes DEF B
<1>11. /\ h \in [0 .. Len(s) -> A] /\ h[0] = <<>> /\ h[Len(s)] = f[1 .. Len(s)]
       /\ \A k \in 1 .. Len(s) : h[k] = F[<<h[k - 1], s[k]>>]
    BY <1>10 DEF Steps
<1>12. ASSUME NEW k \in 1 .. Len(s) PROVE h[k] = Finalized(h[k - 1], s[k])
    <2>1. k - 1 \in 0 .. Len(s) /\ s[k] \in B
        BY <1>4 DEF B
    <2> QED BY <1>2, <1>11, <2>1
<1> QED
    BY <1>8, <1>9, <1>11, <1>12 DEF A

LEMMA DayIsApart ==
    ASSUME NEW E, Rows(E), NEW cs \in Seq(Cluster(E)), Apart(cs, E)
    PROVE  Day(cs) \in Seq(BlocksOf(E)) /\ BlocksApart(Day(cs), E)
<1> DEFINE Seen(k) == UNION {ToSet(cs[n].events) : n \in 1 .. k}
<1>1. PICK h \in [0 .. Len(cs) -> Seq(BlocksOf(E))] :
              /\ h[0] = <<>> /\ h[Len(cs)] = Day(cs)
              /\ \A k \in 1 .. Len(cs) : h[k] = Finalized(h[k - 1], cs[k])
    BY DayIs
<1>2. Len(cs) \in Nat /\ \A n \in 1 .. Len(cs) : cs[n] \in Cluster(E)
    OBVIOUS
<1> DEFINE Bad == {k \in 0 .. Len(cs) : ~BlocksApart(h[k], Seen(k))}
<1> HIDE DEF Seen
<1>3. Bad = {}
    <2> SUFFICES ASSUME Bad # {} PROVE FALSE
        OBVIOUS
    <2>1. PICK k \in Bad : \A j \in Bad : k <= j
        <3>1. Bad \in SUBSET Nat
            BY <1>2
        <3> HIDE DEF Bad
        <3> QED BY <3>1, SmallestNat
    <2>2. k # 0
        BY <1>1 DEF BlocksApart
    <2>3. k \in 1 .. Len(cs) /\ k - 1 \in 0 .. Len(cs) /\ ~(k <= k - 1)
        BY <1>2, <2>1, <2>2
    <2>4. BlocksApart(h[k - 1], Seen(k - 1)) /\ h[k - 1] \in Seq(BlocksOf(E))
        BY <1>1, <2>1, <2>3
    <2>5. ToSet(cs[k].events) \cap Seen(k - 1) = {}
        <3>1. \A n \in 1 .. k - 1 : n \in 1 .. Len(cs) /\ n # k
            BY <1>2, <2>3
        <3>2. \A n \in 1 .. k - 1 : ToSet(cs[k].events) \cap ToSet(cs[n].events) = {}
            BY <2>3, <3>1 DEF Apart
        <3> QED BY <3>2 DEF Seen
    <2>6. Seen(k) = Seen(k - 1) \cup ToSet(cs[k].events)
        <3>1. 1 .. k = (1 .. k - 1) \cup {k}
            BY <2>3
        <3> QED BY <3>1 DEF Seen
    <2>7. cs[k] \in Cluster(E) /\ Once(cs[k].events)
        BY <1>2, <2>3 DEF Apart
    <2>8. BlocksApart(Finalized(h[k - 1], cs[k]), Seen(k - 1) \cup ToSet(cs[k].events))
        BY <2>4, <2>5, <2>7, FinalizedApart
    <2>9. BlocksApart(h[k], Seen(k))
        BY <1>1, <2>3, <2>6, <2>8
    <2> QED BY <2>1, <2>9
<1>4. BlocksApart(Day(cs), Seen(Len(cs))) /\ Day(cs) \in Seq(BlocksOf(E))
    BY <1>1, <1>2, <1>3
<1>5. Seen(Len(cs)) \subseteq E
    BY DEF Seen, Apart
<1> QED
    BY <1>4, <1>5 DEF BlocksApart

(* For any events with keys of their own: the clustering returns blocks    *)
(* of whole minutes, none shorter than MIN_BLOCK_MINUTES, each with events *)
(* of the day, and no event is in two of them: what the proofs about the   *)
(* day's table ask of a Build, and of a day that is built first.           *)
THEOREM BlocksShareNothing ==
    ASSUME NEW E, Rows(E)
    PROVE  /\ BuildBlocks(E) \in Seq(BlocksOf(E))
           /\ BlocksApart(BuildBlocks(E), E)
BY ClustersAre, DayIsApart, BuildIsDay

-----------------------------------------------------------------------------
(* Calendar events make blocks of their own.                               *)

Pure(c) == \A n \in DOMAIN c.events : c.events[n].cal = c.cal

LEMMA ConsumePure ==
    ASSUME NEW E, Rows(E), NEW cs \in Seq(Cluster(E)), NEW e \in E,
           \A i \in 1 .. Len(cs) : Pure(cs[i])
    PROVE  \A i \in 1 .. Len(Consume(cs, e)) : Pure(Consume(cs, e)[i])
<1> DEFINE L == Len(cs)
           new == Consume(cs, e)
<1>0. L \in Nat /\ new \in Seq(Cluster(E))
    BY ConsumeIs
<1>1. Pure(NewCluster(e))
    BY DEF Pure, NewCluster
<1>2. CASE new = Append(cs, NewCluster(e))
    <2>1. Len(new) = L + 1 /\ (\A i \in 1 .. L : new[i] = cs[i]) /\ new[L + 1] = NewCluster(e)
        BY <1>2
    <2> HIDE DEF new
    <2>2. \A i \in 1 .. L + 1 : i \in 1 .. L \/ i = L + 1
        BY <1>0
    <2>3. \A i \in 1 .. Len(new) : Pure(new[i])
        BY <1>1, <2>1, <2>2
    <2> QED BY <2>3 DEF new
<1>3. CASE new # Append(cs, NewCluster(e))
    <2> DEFINE c == Last(cs)
               d == Extended(c, e)
    <2>1. cs # <<>> /\ ~Closes(c, e) /\ new = Append(Front(cs), d)
        BY <1>3 DEF Consume
    <2>2. /\ L >= 1 /\ c = cs[L] /\ c \in Cluster(E)
          /\ Front(cs) \in Seq(Cluster(E)) /\ Len(Front(cs)) = L - 1
          /\ \A i \in 1 .. L - 1 : Front(cs)[i] = cs[i]
        BY <2>1, LastAndFront
    <2>3. Pure(d)
        <3>1. ~e.cal /\ ~c.cal /\ e.cal \in BOOLEAN /\ c.cal \in BOOLEAN
            BY <2>1, <2>2 DEF Closes, Rows, Cluster
        <3>2. Pure(c)
            BY <1>0, <2>2
        <3>3. c.events \in Seq(E) /\ d.events = Append(c.events, e) /\ d.cal = c.cal
            BY <2>2 DEF Extended, Cluster
        <3> HIDE DEF c, d
        <3>4. \A n \in DOMAIN d.events : \/ n \in DOMAIN c.events /\ d.events[n] = c.events[n]
                                         \/ d.events[n] = e
            BY <3>3
        <3> QED BY <3>1, <3>2, <3>3, <3>4 DEF Pure
    <2>4. Len(new) = L /\ (\A i \in 1 .. L - 1 : new[i] = cs[i]) /\ new[L] = d
        BY <2>1, <2>2
    <2> HIDE DEF new, d
    <2>5. \A i \in 1 .. L : (i \in 1 .. L - 1 /\ i \in 1 .. L) \/ i = L
        BY <1>0
    <2>6. \A i \in 1 .. Len(new) : Pure(new[i])
        BY <2>3, <2>4, <2>5
    <2> QED BY <2>6 DEF new
<1> QED
    BY <1>2, <1>3

LEMMA ClustersPure ==
    ASSUME NEW E, Rows(E)
    PROVE  \A i \in 1 .. Len(Clusters(E)) : Pure(Clusters(E)[i])
<1> DEFINE s == InOrder(E)
           AllPure(cs) == \A i \in 1 .. Len(cs) : Pure(cs[i])
<1>1. s \in Seq(E)
    BY EventsInOrder
<1> HIDE DEF s
<1>2. PICK h \in [0 .. Len(s) -> Seq(Cluster(E))] :
              /\ h[0] = <<>> /\ h[Len(s)] = Pass(s)
              /\ \A k \in 1 .. Len(s) : h[k] = Consume(h[k - 1], s[k])
    BY <1>1, PassIs
<1>3. Len(s) \in Nat
    BY <1>1
<1> DEFINE Bad == {k \in 0 .. Len(s) : ~AllPure(h[k])}
<1>4. AllPure(<<>>)
    OBVIOUS
<1>5. ASSUME NEW k \in 1 .. Len(s), AllPure(h[k - 1]) PROVE AllPure(h[k])
    <2>1. k - 1 \in 0 .. Len(s) /\ s[k] \in E
        BY <1>1, <1>3
    <2>2. h[k - 1] \in Seq(Cluster(E)) /\ h[k] = Consume(h[k - 1], s[k])
        BY <1>2, <2>1
    <2> QED BY <1>5, <2>1, <2>2, ConsumePure
<1> HIDE DEF AllPure
<1>6. Bad = {}
    <2> SUFFICES ASSUME Bad # {} PROVE FALSE
        OBVIOUS
    <2>1. PICK k \in Bad : \A j \in Bad : k <= j
        <3>1. Bad \in SUBSET Nat
            BY <1>3
        <3> HIDE DEF Bad
        <3> QED BY <3>1, SmallestNat
    <2>2. k # 0
        BY <1>2, <1>4, <2>1
    <2>3. k \in 1 .. Len(s) /\ k - 1 \in 0 .. Len(s) /\ ~(k <= k - 1)
        BY <1>3, <2>1, <2>2
    <2> QED BY <1>5, <2>1, <2>3
<1>7. AllPure(h[Len(s)])
    BY <1>3, <1>6
<1>8. Clusters(E) = h[Len(s)]
    BY <1>2 DEF Clusters, Pass, s
<1> QED
    BY <1>7, <1>8 DEF AllPure

LEMMA PiecesPure ==
    ASSUME NEW E, Rows(E), NEW c \in Cluster(E), Pure(c), Once(c.events)
    PROVE  \A n \in 1 .. Len(SplitByProject(c)) : Pure(SplitByProject(c)[n])
<1> DEFINE p == SplitByProject(c)
           cuts == CutsAt(c.events, Segments(c.events, FolderAt(c.events)))
           last(n) == IF n = Len(cuts) THEN Len(c.events) ELSE cuts[n + 1] - 1
           piece == [n \in DOMAIN cuts |-> SubBlock(c, cuts[n], last(n))]
           kept == Ascending({n \in DOMAIN cuts : LongEnough(piece[n])})
<1>1. p = IF c.cal \/ Len(cuts) = 1 THEN <<c>> ELSE [m \in DOMAIN kept |-> piece[kept[m]]]
    BY DEF SplitByProject, SplitAt
<1>2. /\ p \in Seq(Cluster(E)) /\ \E a : SlicedAt(a, p, c.events)
    BY PiecesAre
<1>3. c.events \in Seq(E)
    BY DEF Cluster
<1>4. \A n \in 1 .. Len(p) : ToSet(p[n].events) \subseteq ToSet(c.events)
    <2> HIDE DEF p
    <2>1. PICK a : SlicedAt(a, p, c.events)
        BY <1>2
    <2> QED BY <1>2, <1>3, <2>1, SlicesApart
<1>5. CASE c.cal \/ Len(cuts) = 1
    <2> HIDE DEF cuts, piece, kept, p
    <2>1. p = <<c>>
        BY <1>1, <1>5
    <2> QED BY <2>1 DEF p
<1>6. CASE ~(c.cal \/ Len(cuts) = 1)
    <2> HIDE DEF p, last
    <2>1. \A n \in DOMAIN cuts : piece[n].cal = FALSE
        BY DEF SubBlock
    <2>2. p = [m \in DOMAIN kept |-> piece[kept[m]]]
        BY <1>1, <1>6
    <2>3. DOMAIN p = DOMAIN kept /\ DOMAIN p = 1 .. Len(p)
        <3> HIDE DEF piece, kept
        <3> QED BY <1>2, <2>2
    <2>4. \A n \in 1 .. Len(p) : p[n] = piece[kept[n]] /\ kept[n] \in DOMAIN cuts
        <3> DEFINE S == {n \in DOMAIN cuts : LongEnough(piece[n])}
        <3>1. \E k \in Nat : DOMAIN cuts = 1 .. k
            <4>1. c.events \in Seq(E) \ {<<>>}
                BY DEF Cluster
            <4>2. Segments(c.events, FolderAt(c.events)) \in Seq(1 .. Len(c.events))
                BY <1>3, SegmentsAre
            <4>3. Spaced(cuts, c.events)
                <5> DEFINE evs == c.events
                           segs == Segments(evs, FolderAt(evs))
                <5>1. evs \in Seq(E) \ {<<>>} /\ segs \in Seq(1 .. Len(evs))
                    BY <4>1, <4>2
                <5> HIDE DEF evs, segs
                <5>2. Spaced(CutsAt(evs, segs), evs)
                    BY <5>1, CutsAre
                <5> QED BY <5>2 DEF evs, segs
            <4> HIDE DEF cuts
            <4>4. cuts \in Seq(1 .. Len(c.events))
                BY <4>3 DEF Spaced
            <4> QED BY <4>4
        <3>2. PICK k \in Nat : DOMAIN cuts = 1 .. k
            BY <3>1
        <3> HIDE DEF piece, cuts
        <3>3. S \in SUBSET (1 .. k) /\ kept = Ascending(S)
            BY <3>2
        <3> HIDE DEF S, kept
        <3>4. kept \in [1 .. Cardinality(S) -> S]
            BY <3>2, <3>3, Ascends
        <3> QED BY <2>2, <2>3, <3>2, <3>3, <3>4
    <2>5. ASSUME NEW n \in 1 .. Len(p), NEW k \in DOMAIN p[n].events
          PROVE  p[n].events[k].cal = p[n].cal
        <3> HIDE DEF piece, kept, cuts
        <3>1. p[n].cal = FALSE
            BY <2>1, <2>4
        <3>2. p[n].events[k] \in ToSet(c.events)
            BY <1>4, <2>5 DEF ToSet
        <3>3. p[n].events[k].cal = c.cal
            BY <3>2 DEF ToSet, Pure
        <3>4. c.cal = FALSE
            BY <1>6 DEF Cluster
        <3> QED BY <3>1, <3>3, <3>4
    <2> QED BY <2>5 DEF Pure, p
<1> QED
    BY <1>5, <1>6

PureBlock(b) == \A e \in b.events : e.cal = b.cal

LEMMA BlocksPure ==
    ASSUME NEW E, Rows(E)
    PROVE  \A b \in ToSet(BuildBlocks(E)) : PureBlock(b)
<1> DEFINE cs == Clusters(E)
           AllPure(day) == \A i \in 1 .. Len(day) : PureBlock(day[i])
<1>1. cs \in Seq(Cluster(E)) /\ Apart(cs, E)
    BY ClustersAre
<1>2. \A i \in 1 .. Len(cs) : Pure(cs[i])
    BY ClustersPure
<1>3. BuildBlocks(E) = Day(cs)
    BY BuildIsDay
<1> HIDE DEF cs
<1>4. PICK h \in [0 .. Len(cs) -> Seq(BlocksOf(E))] :
              /\ h[0] = <<>> /\ h[Len(cs)] = Day(cs)
              /\ \A k \in 1 .. Len(cs) : h[k] = Finalized(h[k - 1], cs[k])
    BY <1>1, DayIs
<1>5. Len(cs) \in Nat /\ \A n \in 1 .. Len(cs) : cs[n] \in Cluster(E) /\ Once(cs[n].events)
    BY <1>1 DEF Apart
<1>6. ASSUME NEW day \in Seq(BlocksOf(E)), AllPure(day), NEW n \in 1 .. Len(cs)
      PROVE  AllPure(Finalized(day, cs[n]))
    <2> DEFINE p == SplitByProject(cs[n])
               new == Blocks(p)
               both == day \o new
    <2>1. p \in Seq(Cluster(E)) /\ \A k \in 1 .. Len(p) : Pure(p[k])
        BY <1>2, <1>5, PiecesAre, PiecesPure
    <2> HIDE DEF p
    <2>2. DOMAIN p = 1 .. Len(p) /\ Len(p) \in Nat /\ \A k \in 1 .. Len(p) : p[k] \in Cluster(E)
        BY <2>1
    <2>3. \A k \in 1 .. Len(p) : Block(p[k]) \in BlocksOf(E) /\ PureBlock(Block(p[k]))
        <3> TAKE k \in 1 .. Len(p)
        <3>1. Block(p[k]) \in BlocksOf(E)
            BY <2>2, BlockIs
        <3>2. Block(p[k]).cal = p[k].cal /\ Block(p[k]).events = ToSet(p[k].events)
            BY DEF Block
        <3> QED BY <2>1, <3>1, <3>2 DEF PureBlock, Pure, ToSet
    <2>4. /\ new \in Seq(BlocksOf(E)) /\ Len(new) = Len(p)
          /\ \A k \in 1 .. Len(p) : new[k] = Block(p[k])
        <3>1. new = [k \in 1 .. Len(p) |-> Block(p[k])]
            BY <2>2 DEF Blocks
        <3> HIDE DEF new
        <3> QED BY <2>2, <2>3, <3>1
    <2> HIDE DEF new
    <2>5. \A i \in 1 .. Len(both) :
              \/ i \in 1 .. Len(day) /\ both[i] = day[i]
              \/ i - Len(day) \in 1 .. Len(p) /\ both[i] = new[i - Len(day)]
        BY <2>2, <2>4
    <2> HIDE DEF both
    <2>6. AllPure(both)
        BY <1>6, <2>3, <2>4, <2>5
    <2>7. Finalized(day, cs[n]) \in {day, both}
        BY DEF Finalized, both, new, p
    <2> HIDE DEF AllPure
    <2> QED BY <1>6, <2>6, <2>7
<1>7. AllPure(<<>>)
    OBVIOUS
<1> DEFINE Bad == {k \in 0 .. Len(cs) : ~AllPure(h[k])}
<1> HIDE DEF AllPure
<1>8. Bad = {}
    <2> SUFFICES ASSUME Bad # {} PROVE FALSE
        OBVIOUS
    <2>1. PICK k \in Bad : \A j \in Bad : k <= j
        <3>1. Bad \in SUBSET Nat
            BY <1>5
        <3> HIDE DEF Bad
        <3> QED BY <3>1, SmallestNat
    <2>2. k # 0
        BY <1>4, <1>7, <2>1
    <2>3. k \in 1 .. Len(cs) /\ k - 1 \in 0 .. Len(cs) /\ ~(k <= k - 1)
        BY <1>5, <2>1, <2>2
    <2>4. AllPure(h[k - 1]) /\ h[k - 1] \in Seq(BlocksOf(E))
        BY <2>1, <2>3
    <2>5. AllPure(Finalized(h[k - 1], cs[k]))
        BY <1>6, <2>3, <2>4
    <2> QED BY <1>4, <2>1, <2>3, <2>5
<1>9. AllPure(h[Len(cs)]) /\ h[Len(cs)] \in Seq(BlocksOf(E))
    BY <1>5, <1>8
<1>10. \A b \in ToSet(h[Len(cs)]) : PureBlock(b)
    <2> DEFINE d == h[Len(cs)]
    <2>1. d \in Seq(BlocksOf(E)) /\ AllPure(d)
        BY <1>9
    <2> HIDE DEF d
    <2>2. DOMAIN d = 1 .. Len(d)
        BY <2>1
    <2>3. \A b \in ToSet(d) : PureBlock(b)
        BY <2>1, <2>2 DEF ToSet, AllPure
    <2> QED BY <2>3 DEF d
<1> QED
    BY <1>3, <1>4, <1>10

-----------------------------------------------------------------------------
(* The clustering sees times and folders, and nothing else of an event:    *)
(* two days that differ in the rest have the same blocks.                  *)

LEMMA Climb ==
    ASSUME NEW n \in Nat, NEW P, 0 \in P, \A k \in 1 .. n : k - 1 \in P => k \in P
    PROVE  \A k \in 0 .. n : k \in P
<1> DEFINE Bad == {k \in 0 .. n : k \notin P}
<1> SUFFICES ASSUME Bad # {} PROVE FALSE
    OBVIOUS
<1>1. PICK k \in Bad : \A j \in Bad : k <= j
    <2>1. Bad \in SUBSET Nat
        OBVIOUS
    <2> HIDE DEF Bad
    <2> QED BY <2>1, SmallestNat
<1>2. k \in 1 .. n /\ k - 1 \in 0 .. n /\ ~(k <= k - 1)
    BY <1>1
<1> QED
    BY <1>1, <1>2

ImageBy(g, S) == {g[e] : e \in S}

(* g takes every event to the one it corresponds to on the other day.      *)
Likeness(g, E, F) ==
    /\ F = ImageBy(g, E)
    /\ \A e \in E : /\ g[e].id = e.id /\ g[e].at = e.at /\ g[e].until = e.until
                    /\ g[e].cal = e.cal /\ g[e].project = e.project

LikeEvents(g, s, t) == Len(t) = Len(s) /\ \A n \in 1 .. Len(s) : t[n] = g[s[n]]

LikeCluster(g, c, d) ==
    d.start = c.start /\ d.end = c.end /\ d.cal = c.cal /\ LikeEvents(g, c.events, d.events)

LikeClusters(g, cs, ds) ==
    Len(ds) = Len(cs) /\ \A n \in 1 .. Len(cs) : LikeCluster(g, cs[n], ds[n])

LikeBlock(g, b, c) ==
    /\ c.start = b.start /\ c.end = b.end /\ c.cal = b.cal
    /\ c.events = ImageBy(g, b.events)

LikeBlocks(g, bs, cs) ==
    Len(cs) = Len(bs) /\ \A n \in 1 .. Len(bs) : LikeBlock(g, bs[n], cs[n])

LEMMA LikeImages ==
    ASSUME NEW E, Rows(E), NEW F, NEW g, Likeness(g, E, F), NEW S \in SUBSET E
    PROVE  /\ IsFiniteSet(ImageBy(g, S))
           /\ Cardinality(ImageBy(g, S)) = Cardinality(S)
<1> DEFINE T == ImageBy(g, S)
           f == [e \in S |-> g[e]]
<1>1. \A d, e \in S : g[d] = g[e] => d = e
    BY DEF Likeness, Rows
<1>2. IsFiniteSet(S)
    BY FS_Subset DEF Rows
<1>3. f \in [S -> T] /\ (\A d, e \in S : f[d] = f[e] => d = e) /\ \A t \in T : \E e \in S : f[e] = t
    BY <1>1 DEF ImageBy
<1> HIDE DEF f, T
<1>4. f \in Surjection(S, T) /\ f \in Injection(S, T)
    BY <1>3 DEF Surjection, Injection, IsInjective
<1>5. IsFiniteSet(T) /\ Cardinality(T) = Cardinality(S)
    BY <1>2, <1>4, FS_Surjection
<1> QED
    BY <1>5 DEF T

LEMMA LikeRows ==
    ASSUME NEW E, Rows(E), NEW F, NEW g, Likeness(g, E, F)
    PROVE  Rows(F) /\ Cardinality(F) = Cardinality(E)
<1>1. IsFiniteSet(F) /\ Cardinality(F) = Cardinality(E)
    <2>1. E \in SUBSET E /\ F = ImageBy(g, E)
        BY DEF Likeness
    <2> QED BY <2>1, LikeImages
<1>2. \A x \in F : \E e \in E : x = g[e]
    BY DEF Likeness, ImageBy
<1> QED
    BY <1>1, <1>2 DEF Likeness, Rows

LEMMA Places ==
    ASSUME NEW E, Rows(E)
    PROVE  /\ \A n \in 1 .. Cardinality(E) :
                 /\ InOrder(E)[n] \in E
                 /\ Cardinality({d \in E : Earlier(d, InOrder(E)[n])}) = n - 1
           /\ \A x, y \in E : Cardinality({d \in E : Earlier(d, x)})
                                 = Cardinality({d \in E : Earlier(d, y)}) => x = y
<1> DEFINE R == EarlierOf(E)
<1>0. IsFiniteSet(E)
    BY DEF Rows
<1>1. Orders(R, E)
    <2>1. \A d, e \in E : <<d, e>> \in R <=> Earlier(d, e)
        BY DEF EarlierOf
    <2> HIDE DEF R
    <2> QED BY <2>1 DEF Rows, Earlier, Orders
<1>2. \A e \in E : Rank(E, R, e) = Cardinality({d \in E : Earlier(d, e)})
    <2>1. \A e \in E : {d \in E : <<d, e>> \in R} = {d \in E : Earlier(d, e)}
        BY DEF EarlierOf
    <2> QED BY <2>1 DEF Rank
<1> HIDE DEF R
<1>3. \A x, y \in E : Rank(E, R, x) = Rank(E, R, y) => x = y
    BY <1>0, <1>1, RanksAreDistinct
<1>4. ASSUME NEW n \in 1 .. Cardinality(E)
      PROVE  InOrder(E)[n] \in E /\ Cardinality({d \in E : Earlier(d, InOrder(E)[n])}) = n - 1
    <2>1. \E e \in E : Rank(E, R, e) = n - 1
        BY <1>0, <1>1, EveryRankIsTaken
    <2>2. \E e \in E : Cardinality({d \in E : Earlier(d, e)}) = n - 1
        BY <1>2, <2>1
    <2>3. InOrder(E)[n] = CHOOSE e \in E : Cardinality({d \in E : Earlier(d, e)}) = n - 1
        BY DEF InOrder
    <2> QED BY <2>2, <2>3
<1> QED
    BY <1>2, <1>3, <1>4

LEMMA OrderLike ==
    ASSUME NEW E, Rows(E), NEW F, NEW g, Likeness(g, E, F)
    PROVE  LikeEvents(g, InOrder(E), InOrder(F))
<1> DEFINE before(S, e) == Cardinality({d \in S : Earlier(d, e)})
<1>1. Rows(F) /\ Cardinality(F) = Cardinality(E)
    BY LikeRows
<1>2. /\ InOrder(E) \in Seq(E) /\ Len(InOrder(E)) = Cardinality(E)
      /\ InOrder(F) \in Seq(F) /\ Len(InOrder(F)) = Cardinality(E)
    BY <1>1, EventsInOrder
<1>3. \A e \in E : before(F, g[e]) = before(E, e)
    <2> TAKE e \in E
    <2> DEFINE S == {d \in E : Earlier(d, e)}
               T == {d \in F : Earlier(d, g[e])}
    <2>1. T = ImageBy(g, S)
        BY DEF Likeness, Earlier, ImageBy
    <2>2. S \in SUBSET E
        OBVIOUS
    <2> HIDE DEF S, T
    <2>3. Cardinality(T) = Cardinality(S)
        BY <2>1, <2>2, LikeImages
    <2> QED BY <2>3 DEF S, T
<1>4. ASSUME NEW n \in 1 .. Cardinality(E) PROVE InOrder(F)[n] = g[InOrder(E)[n]]
    <2> DEFINE x == InOrder(E)[n]
               y == InOrder(F)[n]
    <2>1. x \in E /\ before(E, x) = n - 1 /\ y \in F /\ before(F, y) = n - 1
        BY <1>1, Places
    <2>2. before(F, g[x]) = n - 1 /\ g[x] \in F
        BY <1>3, <2>1 DEF Likeness, ImageBy
    <2> HIDE DEF x, y
    <2>3. y = g[x]
        BY <1>1, <2>1, <2>2, Places
    <2> QED BY <2>3 DEF x, y
<1> QED
    BY <1>2, <1>4 DEF LikeEvents

LEMMA ConsumeLike ==
    ASSUME NEW E, Rows(E), NEW F, NEW g, Likeness(g, E, F),
           NEW cs \in Seq(Cluster(E)), NEW ds \in Seq(Cluster(F)), LikeClusters(g, cs, ds),
           NEW e \in E
    PROVE  LikeClusters(g, Consume(cs, e), Consume(ds, g[e]))
<1> DEFINE f == g[e]
           L == Len(cs)
<1>0. Rows(F) /\ f \in F /\ L \in Nat /\ Len(ds) = L
    BY LikeRows DEF Likeness, ImageBy, LikeClusters
<1>1. f.at = e.at /\ f.until = e.until /\ f.cal = e.cal
    BY DEF Likeness
<1>2. LikeCluster(g, NewCluster(e), NewCluster(f))
    <2>1. Len(<<e>>) = 1 /\ Len(<<f>>) = 1 /\ \A n \in 1 .. 1 : <<f>>[n] = g[<<e>>[n]]
        OBVIOUS
    <2> HIDE DEF f
    <2> QED BY <1>1, <2>1 DEF LikeCluster, LikeEvents, NewCluster
<1> HIDE DEF f
<1>3. LikeClusters(g, Append(cs, NewCluster(e)), Append(ds, NewCluster(f)))
    <2> DEFINE c == NewCluster(e)
               d == NewCluster(f)
               as == Append(cs, c)
               bs == Append(ds, d)
    <2> HIDE DEF c, d
    <2>1. /\ Len(as) = L + 1 /\ (\A i \in 1 .. L : as[i] = cs[i]) /\ as[L + 1] = c
          /\ Len(bs) = L + 1 /\ (\A i \in 1 .. L : bs[i] = ds[i]) /\ bs[L + 1] = d
        BY <1>0
    <2>2. \A i \in 1 .. L + 1 : i \in 1 .. L \/ i = L + 1
        BY <1>0
    <2> HIDE DEF as, bs, L
    <2>3. \A i \in 1 .. L + 1 : LikeCluster(g, as[i], bs[i])
        BY <1>2, <2>1, <2>2 DEF LikeClusters, L, c, d
    <2> QED BY <2>1, <2>3 DEF LikeClusters, as, bs, c, d
<1>4. CASE cs = <<>>
    <2>1. ds = <<>>
        BY <1>0, <1>4
    <2>2. Append(cs, NewCluster(e)) = <<NewCluster(e)>> /\ Append(ds, NewCluster(f)) = <<NewCluster(f)>>
        BY <1>4, <2>1
    <2> QED BY <1>3, <1>4, <2>1, <2>2 DEF Consume, f
<1>5. CASE cs # <<>>
    <2> DEFINE c == Last(cs)
               d == Last(ds)
               x == Extended(c, e)
               y == Extended(d, f)
    <2>0. ds # <<>>
        BY <1>0, <1>5
    <2>1. /\ L >= 1 /\ c = cs[L] /\ c \in Cluster(E)
          /\ Front(cs) \in Seq(Cluster(E)) /\ Len(Front(cs)) = L - 1
          /\ \A i \in 1 .. L - 1 : Front(cs)[i] = cs[i]
        BY <1>5, LastAndFront
    <2>2. /\ d = ds[L] /\ d \in Cluster(F)
          /\ Front(ds) \in Seq(Cluster(F)) /\ Len(Front(ds)) = L - 1
          /\ \A i \in 1 .. L - 1 : Front(ds)[i] = ds[i]
        BY <1>0, <2>0, LastAndFront
    <2>3. LikeCluster(g, c, d)
        BY <1>0, <2>1, <2>2 DEF LikeClusters
    <2> HIDE DEF c, d
    <2>4. Closes(c, e) = Closes(d, f)
        BY <1>1, <2>3 DEF Closes, LikeCluster
    <2>5. LikeCluster(g, x, y)
        <3>1. c.events \in Seq(E) /\ d.events \in Seq(F)
            BY <2>1, <2>2 DEF Cluster
        <3>2. LikeEvents(g, Append(c.events, e), Append(d.events, f))
            <4> DEFINE s == c.events
                       t == d.events
                       u == Append(s, e)
                       v == Append(t, f)
            <4>1. s \in Seq(E) /\ t \in Seq(F) /\ LikeEvents(g, s, t)
                BY <2>3, <3>1 DEF LikeCluster
            <4> HIDE DEF s, t
            <4>2. /\ Len(s) \in Nat /\ Len(u) = Len(s) + 1 /\ Len(v) = Len(s) + 1
                  /\ \A n \in 1 .. Len(s) : u[n] = s[n] /\ v[n] = t[n] /\ t[n] = g[s[n]]
                  /\ u[Len(s) + 1] = e /\ v[Len(s) + 1] = f
                BY <4>1 DEF LikeEvents
            <4>3. \A n \in 1 .. Len(s) + 1 : n \in 1 .. Len(s) \/ n = Len(s) + 1
                BY <4>2
            <4> HIDE DEF u, v
            <4>4. \A n \in 1 .. Len(s) + 1 : v[n] = g[u[n]]
                BY <4>2, <4>3 DEF f
            <4> QED BY <4>2, <4>4 DEF LikeEvents, u, v, s, t
        <3>3. /\ x.start = c.start /\ x.cal = c.cal /\ x.events = Append(c.events, e)
              /\ x.end = Max({e.until, c.end})
            BY <2>1 DEF Extended, Cluster
        <3>4. /\ y.start = d.start /\ y.cal = d.cal /\ y.events = Append(d.events, f)
              /\ y.end = Max({f.until, d.end})
            BY <2>2 DEF Extended, Cluster
        <3> HIDE DEF x, y
        <3> QED BY <1>1, <2>3, <3>2, <3>3, <3>4 DEF LikeCluster
    <2> HIDE DEF x, y
    <2>6. LikeClusters(g, Append(Front(cs), x), Append(Front(ds), y))
        <3> DEFINE a == Front(cs)
                   b == Front(ds)
                   as == Append(a, x)
                   bs == Append(b, y)
        <3>0. a \in Seq(Cluster(E)) /\ b \in Seq(Cluster(F)) /\ Len(a) = L - 1 /\ Len(b) = L - 1
            BY <2>1, <2>2
        <3>1. /\ \A i \in 1 .. L - 1 : a[i] = cs[i] /\ b[i] = ds[i] /\ LikeCluster(g, cs[i], ds[i])
            BY <1>0, <2>1, <2>2 DEF LikeClusters
        <3> HIDE DEF a, b
        <3>2. /\ Len(as) = L /\ (\A i \in 1 .. L - 1 : as[i] = a[i]) /\ as[L] = x
              /\ Len(bs) = L /\ (\A i \in 1 .. L - 1 : bs[i] = b[i]) /\ bs[L] = y
            BY <1>0, <2>1, <3>0
        <3>3. \A i \in 1 .. L : i \in 1 .. L - 1 \/ i = L
            BY <1>0
        <3> HIDE DEF as, bs, L
        <3>4. \A i \in 1 .. L : LikeCluster(g, as[i], bs[i])
            BY <2>5, <3>1, <3>2, <3>3
        <3> QED BY <3>2, <3>4 DEF LikeClusters, as, bs, a, b
    <2>7. /\ Consume(cs, e) = IF Closes(c, e) THEN Append(cs, NewCluster(e)) ELSE Append(Front(cs), x)
          /\ Consume(ds, f) = IF Closes(d, f) THEN Append(ds, NewCluster(f)) ELSE Append(Front(ds), y)
        BY <1>5, <2>0 DEF Consume, c, d, x, y
    <2> QED BY <1>3, <2>4, <2>6, <2>7 DEF f
<1> QED
    BY <1>4, <1>5

LEMMA ClustersLike ==
    ASSUME NEW E, Rows(E), NEW F, NEW g, Likeness(g, E, F)
    PROVE  LikeClusters(g, Clusters(E), Clusters(F))
<1> DEFINE s == InOrder(E)
           t == InOrder(F)
           N == Len(s)
<1>0. Rows(F)
    BY LikeRows
<1>1. s \in Seq(E) /\ t \in Seq(F) /\ LikeEvents(g, s, t)
    BY <1>0, EventsInOrder, OrderLike
<1> HIDE DEF s, t
<1>2. N \in Nat /\ Len(t) = N /\ \A n \in 1 .. N : t[n] = g[s[n]] /\ s[n] \in E
    BY <1>1 DEF LikeEvents
<1>3. PICK h \in [0 .. N -> Seq(Cluster(E))] :
              /\ h[0] = <<>> /\ h[N] = Pass(s)
              /\ \A k \in 1 .. N : h[k] = Consume(h[k - 1], s[k])
    BY <1>1, PassIs
<1>4. PICK i \in [0 .. N -> Seq(Cluster(F))] :
              /\ i[0] = <<>> /\ i[N] = Pass(t)
              /\ \A k \in 1 .. N : i[k] = Consume(i[k - 1], t[k])
    BY <1>0, <1>1, <1>2, PassIs
<1> DEFINE P == {k \in 0 .. N : LikeClusters(g, h[k], i[k])}
<1>5. 0 \in P
    BY <1>2, <1>3, <1>4 DEF LikeClusters
<1>6. \A k \in 1 .. N : k - 1 \in P => k \in P
    <2> TAKE k \in 1 .. N
    <2>1. k \in 0 .. N /\ k - 1 \in 0 .. N
        BY <1>2
    <2>2. /\ h[k - 1] \in Seq(Cluster(E)) /\ i[k - 1] \in Seq(Cluster(F))
          /\ h[k] = Consume(h[k - 1], s[k]) /\ i[k] = Consume(i[k - 1], g[s[k]]) /\ s[k] \in E
        BY <1>2, <1>3, <1>4, <2>1
    <2> QED BY <2>1, <2>2, ConsumeLike
<1> HIDE DEF N
<1>7. \A k \in 0 .. N : k \in P
    <2> HIDE DEF P
    <2> QED BY <1>2, <1>5, <1>6, Climb
<1>8. LikeClusters(g, h[N], i[N])
    BY <1>2, <1>7
<1>9. Clusters(E) = h[N] /\ Clusters(F) = i[N]
    BY <1>3, <1>4 DEF Clusters, Pass, s, t
<1> QED
    BY <1>8, <1>9

SameTimes(s, t) ==
    Len(t) = Len(s) /\ \A n \in 1 .. Len(s) : /\ t[n].at = s[n].at /\ t[n].until = s[n].until
                                              /\ t[n].project = s[n].project

LEMMA FolderSame ==
    ASSUME NEW s, NEW t, SameTimes(s, t)
    PROVE  FolderAt(s) = FolderAt(t)
<1>1. \A f : Carries(f, s) <=> Carries(f, t)
    BY DEF Carries, SameTimes
<1>2. (CHOOSE f : Carries(f, s)) = CHOOSE f : Carries(f, t)
    BY <1>1
<1>3. FolderAt(s) = CHOOSE f : Carries(f, s)
    BY DEF FolderAt, Carries
<1>4. FolderAt(t) = CHOOSE f : Carries(f, t)
    BY DEF FolderAt, Carries
<1> QED
    BY <1>2, <1>3, <1>4

LEMMA SpanSame ==
    ASSUME NEW E, NEW s \in Seq(E), NEW t, SameTimes(s, t),
           NEW first \in 1 .. Len(s), NEW last \in Int, last <= Len(s)
    PROVE  EventSpan(t, first, last) = EventSpan(s, first, last)
<1>1. CASE first > last
    BY <1>1 DEF EventSpan
<1>2. CASE ~(first > last)
    <2>1. last \in 1 .. Len(s)
        BY <1>2
    <2>2. t[last].until = s[last].until /\ t[first].at = s[first].at
        BY <2>1 DEF SameTimes
    <2> QED BY <1>2, <2>2 DEF EventSpan
<1> QED
    BY <1>1, <1>2

Visits(v, evs, folder, segs) ==
    v = [i \in 1 .. Len(segs) |->
            i = 1 \/ ~v[i - 1] \/ ~BriefDetour(evs, folder, segs, i - 1)]

LEMMA SegmentsSame ==
    ASSUME NEW E, NEW s \in Seq(E), NEW t, SameTimes(s, t)
    PROVE  Segments(t, FolderAt(t)) = Segments(s, FolderAt(s))
<1> DEFINE folder == FolderAt(s)
           S == {n \in DOMAIN folder : n = 1 \/ folder[n] # folder[n - 1]}
           segs == Ascending(S)
<1>0. Len(s) \in Nat /\ FolderAt(t) = folder
    BY FolderSame
<1>1. S \in SUBSET (1 .. Len(s))
    BY FolderIs
<1>2. SegmentStarts(folder) = segs
    BY DEF SegmentStarts
<1> HIDE DEF S, folder
<1>3. segs \in [1 .. Cardinality(S) -> S] /\ Cardinality(S) \in Nat
    BY <1>0, <1>1, Ascends
<1>4. segs \in Seq(1 .. Len(s))
    <2>1. segs \in [1 .. Cardinality(S) -> 1 .. Len(s)]
        BY <1>1, <1>3
    <2> HIDE DEF segs
    <2> QED BY <1>3, <2>1
<1> HIDE DEF segs
<1>5. \A i \in Int : BriefDetour(t, folder, segs, i) <=> BriefDetour(s, folder, segs, i)
    <2> SUFFICES ASSUME NEW i \in Int, 1 < i, i < Len(segs)
                 PROVE  EventSpan(t, segs[i], segs[i + 1] - 1) = EventSpan(s, segs[i], segs[i + 1] - 1)
        BY DEF BriefDetour
    <2>1. i \in 1 .. Len(segs) /\ i + 1 \in 1 .. Len(segs)
        BY <1>4
    <2>2. segs[i] \in 1 .. Len(s) /\ segs[i + 1] \in 1 .. Len(s)
        BY <1>4, <2>1
    <2>3. segs[i + 1] - 1 \in Int /\ segs[i + 1] - 1 <= Len(s)
        BY <1>0, <2>2
    <2> QED BY <2>2, <2>3, SpanSame
<1> DEFINE v(evs) == CHOOSE f : Visits(f, evs, folder, segs)
<1>6. v(t) = v(s)
    <2>1. \A i \in 1 .. Len(segs) : i - 1 \in Int
        BY <1>4
    <2>2. \A f : Visits(f, t, folder, segs) <=> Visits(f, s, folder, segs)
        BY <1>5, <2>1 DEF Visits
    <2> QED BY <2>2
<1> DEFINE R(evs) == {segs[i] : i \in {j \in DOMAIN segs :
                        v(evs)[j] /\ ~BriefDetour(evs, folder, segs, j)}}
<1>7. /\ Collapsed(s, folder, segs) = Ascending(R(s))
      /\ Collapsed(t, folder, segs) = Ascending(R(t))
    BY DEF Collapsed, Visits
<1>8. R(t) = R(s)
    <2>1. \A j \in DOMAIN segs : j \in Int
        BY <1>4
    <2> HIDE DEF v
    <2> QED BY <1>5, <1>6, <2>1
<1> HIDE DEF R
<1> QED
    BY <1>0, <1>2, <1>7, <1>8 DEF Segments, folder

LEMMA CutIs ==
    ASSUME NEW E, NEW evs \in Seq(E) \ {<<>>}, NEW segs \in Seq(1 .. Len(evs)),
           NEW q \in Seq(1 .. Len(evs)), NEW i \in 2 .. Len(segs)
    PROVE  /\ Cut(evs, segs, q, i) \in Seq(1 .. Len(evs))
           /\ q # <<>> => Cut(evs, segs, q, i) # <<>>
<1>1. segs[i] \in 1 .. Len(evs)
    OBVIOUS
<1> DEFINE n == segs[i]
<1>2. Append(q, n) \in Seq(1 .. Len(evs)) /\ Append(q, n) # <<>>
    <2> HIDE DEF n
    <2>1. \A B : \A p \in Seq(B), b \in B : Append(p, b) \in Seq(B) /\ Append(p, b) # <<>>
        OBVIOUS
    <2> QED BY <1>1, <2>1 DEF n
<1> QED
    BY <1>2 DEF Cut

(* The cuts after each of the later segments. *)
Trying(h, evs, segs) ==
    LET l == Later(segs)
    IN  /\ h \in [0 .. Len(l) -> Seq(1 .. Len(evs))]
        /\ h[0] = <<1>> /\ h[Len(l)] = CutsAt(evs, segs)
        /\ \A k \in 1 .. Len(l) : h[k] = Cut(evs, segs, h[k - 1], l[k])

LEMMA CutsSteps ==
    ASSUME NEW E, NEW evs \in Seq(E) \ {<<>>}, NEW segs \in Seq(1 .. Len(evs))
    PROVE  Later(segs) \in Seq(2 .. Len(segs)) /\ \E h : Trying(h, evs, segs)
<1> DEFINE s == Later(segs)
           A == Seq(1 .. Len(evs))
           B == 2 .. Len(segs)
           F == [x \in A \X B |-> Cut(evs, segs, x[1], x[2])]
           D == SUBSET (1 .. Len(s))
<1>0. Len(evs) \in Nat /\ Len(evs) >= 1 /\ Len(segs) \in Nat
    OBVIOUS
<1>1. F \in [A \X B -> A] /\ <<1>> \in A
    <2>1. \A q \in A, i \in B : Cut(evs, segs, q, i) \in A
        BY CutIs
    <2>2. <<1>> \in A
        BY <1>0
    <2> HIDE DEF A, B
    <2> QED BY <2>1, <2>2
<1>2. \A q \in A, i \in B : F[<<q, i>>] = Cut(evs, segs, q, i)
    OBVIOUS
<1>3. s \in Seq(B)
    <2>1. CASE Len(segs) = 0
        BY <2>1 DEF Later
    <2>2. CASE Len(segs) # 0
        <3>1. Len(segs) - 1 \in Nat /\ \A j \in 1 .. Len(segs) - 1 : j + 1 \in B
            BY <1>0, <2>2
        <3> QED BY <3>1 DEF Later
    <2> QED BY <2>1, <2>2
<1> HIDE DEF A, F, s
<1>4. DOMAIN s = 1 .. Len(s) /\ Len(s) \in Nat
    BY <1>3
<1>5. PICK f : LeftFold(f, A, F, <<1>>, s)
    BY <1>1, <1>3, LeftExists
<1>6. ASSUME NEW S \in D, S # {}
      PROVE  S \ {Max(S)} \in D /\ s[Max(S)] \in B
    <2>1. Max(S) \in 1 .. Len(s)
        BY <1>4, <1>6, LargestNat
    <2>2. S \ {Max(S)} \in D
        OBVIOUS
    <2> HIDE DEF D, B
    <2> QED BY <1>3, <2>1, <2>2
<1>7. Cutting(f, evs, segs, s)
    <2>1. f \in [D -> A] /\ \A S \in D : f[S] = Left(f, F, <<1>>, s, S)
        BY <1>5 DEF LeftFold
    <2>2. ASSUME NEW S \in D
          PROVE  f[S] = IF S = {} THEN <<1>> ELSE Cut(evs, segs, f[S \ {Max(S)}], s[Max(S)])
        <3> HIDE DEF D, B
        <3> QED BY <1>2, <1>6, <2>1 DEF Left
    <2> QED BY <1>4, <2>1, <2>2 DEF Cutting
<1> DEFINE g == CHOOSE p : Cutting(p, evs, segs, s)
<1>8. Cutting(g, evs, segs, s)
    BY <1>7
<1>9. CutsAt(evs, segs) = g[1 .. Len(s)]
    BY <1>4, CutsFold DEF s
<1> HIDE DEF g
<1>10. g[1 .. Len(s)] = f[1 .. Len(s)]
    <2>1. Alike(f, g, Len(s))
        BY <1>4, <1>7, <1>8 DEF Cutting, Alike
    <2> QED BY <1>4, <2>1, SameFold
<1>11. PICK h : Steps(h, f, A, F, <<1>>, s)
    BY <1>1, <1>3, <1>5, LeftPrefixes
<1>12. /\ h \in [0 .. Len(s) -> A] /\ h[0] = <<1>> /\ h[Len(s)] = f[1 .. Len(s)]
       /\ \A k \in 1 .. Len(s) : h[k] = F[<<h[k - 1], s[k]>>]
    BY <1>11 DEF Steps
<1>13. ASSUME NEW k \in 1 .. Len(s) PROVE h[k] = Cut(evs, segs, h[k - 1], s[k])
    <2>1. k - 1 \in 0 .. Len(s) /\ s[k] \in B
        BY <1>3, <1>4
    <2> QED BY <1>2, <1>12, <2>1
<1>14. Trying(h, evs, segs)
    BY <1>9, <1>10, <1>12, <1>13 DEF Trying, A, s
<1> QED
    BY <1>3, <1>14 DEF s

LEMMA CutSame ==
    ASSUME NEW E, NEW s \in Seq(E) \ {<<>>}, NEW t, SameTimes(s, t),
           NEW segs \in Seq(1 .. Len(s)), NEW i \in 2 .. Len(segs),
           NEW q \in Seq(1 .. Len(s)) \ {<<>>}
    PROVE  Cut(t, segs, q, i) = Cut(s, segs, q, i)
<1>0. Len(s) \in Nat /\ Len(t) = Len(s) /\ Len(segs) \in Nat
    BY DEF SameTimes
<1>1. Last(q) \in 1 .. Len(s)
    BY LastAndFront
<1>2. segs[i] \in 1 .. Len(s) /\ segs[i] - 1 \in Int /\ segs[i] - 1 <= Len(s)
    <2>1. segs[i] \in 1 .. Len(s)
        BY <1>0
    <2> QED BY <1>0, <2>1
<1> DEFINE to == SegmentEnd(s, segs, i)
<1>3. SegmentEnd(t, segs, i) = to /\ to \in Int /\ to <= Len(s)
    <2>1. CASE i = Len(segs)
        BY <1>0, <2>1 DEF SegmentEnd
    <2>2. CASE i # Len(segs)
        <3>1. i + 1 \in 1 .. Len(segs)
            BY <1>0, <2>2
        <3>2. segs[i + 1] \in 1 .. Len(s)
            BY <3>1
        <3> QED BY <1>0, <2>2, <3>2 DEF SegmentEnd
    <2> QED BY <2>1, <2>2
<1>4. EventSpan(t, Last(q), segs[i] - 1) = EventSpan(s, Last(q), segs[i] - 1)
    BY <1>1, <1>2, SpanSame
<1>5. EventSpan(t, segs[i], to) = EventSpan(s, segs[i], to)
    BY <1>2, <1>3, SpanSame
<1> QED
    BY <1>3, <1>4, <1>5 DEF Cut

LEMMA CutsSame ==
    ASSUME NEW E, NEW F, NEW s \in Seq(E) \ {<<>>}, NEW t \in Seq(F) \ {<<>>}, SameTimes(s, t),
           NEW segs \in Seq(1 .. Len(s))
    PROVE  CutsAt(t, segs) = CutsAt(s, segs)
<1> DEFINE l == Later(segs)
           N == Len(l)
           A == Seq(1 .. Len(s))
<1>0. Len(t) = Len(s)
    BY DEF SameTimes
<1>1. l \in Seq(2 .. Len(segs)) /\ N \in Nat
    <2>1. l \in Seq(2 .. Len(segs))
        BY CutsSteps
    <2> HIDE DEF l
    <2> QED BY <2>1
<1>2. PICK h : Trying(h, s, segs)
    BY CutsSteps
<1>3. PICK i : Trying(i, t, segs)
    <2>1. segs \in Seq(1 .. Len(t))
        BY <1>0
    <2> QED BY <2>1, CutsSteps
<1>4. /\ h \in [0 .. N -> A] /\ h[0] = <<1>> /\ h[N] = CutsAt(s, segs)
      /\ \A k \in 1 .. N : h[k] = Cut(s, segs, h[k - 1], l[k])
    BY <1>2 DEF Trying
<1>5. /\ i[0] = <<1>> /\ i[N] = CutsAt(t, segs)
      /\ \A k \in 1 .. N : i[k] = Cut(t, segs, i[k - 1], l[k])
    BY <1>3 DEF Trying
<1> HIDE DEF l
<1> DEFINE P == {k \in 0 .. N : h[k] = i[k] /\ h[k] # <<>>}
<1>6. 0 \in P
    <2>1. 0 \in 0 .. N /\ <<1>> # <<>>
        BY <1>1
    <2> QED BY <1>4, <1>5, <2>1
<1>7. \A k \in 1 .. N : k - 1 \in P => k \in P
    <2> SUFFICES ASSUME NEW k \in 1 .. N, k - 1 \in P PROVE k \in P
        OBVIOUS
    <2>1. k \in 0 .. N /\ k - 1 \in 0 .. N /\ l[k] \in 2 .. Len(segs)
        <3> HIDE DEF P
        <3>1. l[k] \in 2 .. Len(segs)
            <4>1. l \in Seq(2 .. Len(segs)) /\ k \in 1 .. Len(l)
                BY <1>1
            <4> HIDE DEF N
            <4> QED BY <4>1
        <3> HIDE DEF N
        <3>2. k \in 0 .. N /\ k - 1 \in 0 .. N
            BY <1>1
        <3> QED BY <3>1, <3>2
    <2>2. h[k - 1] \in A \ {<<>>} /\ i[k - 1] = h[k - 1]
        BY <1>4, <2>1
    <2>3. h[k] = Cut(s, segs, h[k - 1], l[k]) /\ i[k] = Cut(t, segs, h[k - 1], l[k])
        BY <1>4, <1>5, <2>2
    <2>4. i[k] = h[k] /\ h[k] # <<>>
        BY <2>1, <2>2, <2>3, CutSame, CutIs
    <2> QED BY <2>1, <2>4
<1> HIDE DEF N
<1>8. \A k \in 0 .. N : k \in P
    <2> HIDE DEF P
    <2> QED BY <1>1, <1>6, <1>7, Climb DEF N
<1>9. h[N] = i[N]
    BY <1>1, <1>8 DEF N
<1> QED
    BY <1>4, <1>5, <1>9

LEMMA PieceLike ==
    ASSUME NEW E, Rows(E), NEW F, NEW g, Likeness(g, E, F),
           NEW c \in Cluster(E), NEW d \in Cluster(F), LikeCluster(g, c, d),
           NEW first \in 1 .. Len(c.events), NEW last \in first .. Len(c.events)
    PROVE  LikeCluster(g, SubBlock(c, first, last), SubBlock(d, first, last))
<1> DEFINE s == c.events
           t == d.events
           x == SubBlock(c, first, last)
           y == SubBlock(d, first, last)
<1>1. /\ s \in Seq(E) /\ t \in Seq(F) /\ Len(s) \in Nat /\ Len(t) = Len(s)
      /\ \A n \in 1 .. Len(s) : t[n] = g[s[n]] /\ s[n] \in E
    BY DEF Cluster, LikeCluster, LikeEvents
<1> HIDE DEF s, t
<1>2. \A n \in first .. last : n \in 1 .. Len(s)
    BY <1>1 DEF s
<1>3. first \in first .. last /\ first \in Nat /\ last \in Nat /\ first <= last
    BY <1>1 DEF s
<1>4. \A n \in first .. last : t[n].at = s[n].at /\ t[n].until = s[n].until
    BY <1>1, <1>2 DEF Likeness
<1>5. {t[n].until : n \in first .. last} = {s[n].until : n \in first .. last}
    BY <1>4
<1>6. /\ x.start = s[first].at /\ x.cal = FALSE /\ x.events = SubSeq(s, first, last)
      /\ x.end = Max({s[n].until : n \in first .. last})
    BY DEF SubBlock, s
<1>7. /\ y.start = t[first].at /\ y.cal = FALSE /\ y.events = SubSeq(t, first, last)
      /\ y.end = Max({t[n].until : n \in first .. last})
    BY DEF SubBlock, t
<1> HIDE DEF x, y
<1>8. LikeEvents(g, SubSeq(s, first, last), SubSeq(t, first, last))
    <2>1. /\ Len(SubSeq(s, first, last)) = last - first + 1
          /\ \A i \in 1 .. last - first + 1 : SubSeq(s, first, last)[i] = s[first + i - 1]
        BY <1>1, <1>2, <1>3, SubSeqProperties
    <2>2. /\ Len(SubSeq(t, first, last)) = last - first + 1
          /\ \A i \in 1 .. last - first + 1 : SubSeq(t, first, last)[i] = t[first + i - 1]
        BY <1>1, <1>2, <1>3, SubSeqProperties
    <2>3. \A i \in 1 .. last - first + 1 : first + i - 1 \in first .. last
        BY <1>3
    <2> DEFINE u == SubSeq(s, first, last)
               v == SubSeq(t, first, last)
    <2> HIDE DEF u, v
    <2>4. \A i \in 1 .. last - first + 1 : v[i] = g[u[i]]
        BY <1>1, <1>2, <2>1, <2>2, <2>3 DEF u, v
    <2> QED BY <2>1, <2>2, <2>4 DEF LikeEvents, u, v
<1> QED
    BY <1>3, <1>4, <1>5, <1>6, <1>7, <1>8 DEF LikeCluster, x, y

LEMMA SplitLike ==
    ASSUME NEW E, Rows(E), NEW F, NEW g, Likeness(g, E, F),
           NEW c \in Cluster(E), NEW d \in Cluster(F), LikeCluster(g, c, d)
    PROVE  LikeClusters(g, SplitByProject(c), SplitByProject(d))
<1> DEFINE s == c.events
           t == d.events
           segs == Segments(s, FolderAt(s))
           cuts == CutsAt(s, segs)
           last(n) == IF n = Len(cuts) THEN Len(s) ELSE cuts[n + 1] - 1
           pc == [n \in DOMAIN cuts |-> SubBlock(c, cuts[n], last(n))]
           pd == [n \in DOMAIN cuts |-> SubBlock(d, cuts[n], last(n))]
           kept == Ascending({n \in DOMAIN cuts : LongEnough(pc[n])})
<1>0. Rows(F)
    BY LikeRows
<1>1. s \in Seq(E) \ {<<>>} /\ t \in Seq(F) \ {<<>>} /\ LikeEvents(g, s, t)
    BY DEF Cluster, LikeCluster
<1>2. SameTimes(s, t) /\ Len(t) = Len(s)
    <2> HIDE DEF s, t
    <2>1. \A n \in 1 .. Len(s) : s[n] \in E /\ t[n] = g[s[n]]
        BY <1>1 DEF LikeEvents
    <2> QED BY <1>1, <2>1 DEF SameTimes, LikeEvents, Likeness
<1>3. segs \in Seq(1 .. Len(s)) /\ Segments(t, FolderAt(t)) = segs
    <2> HIDE DEF s, t
    <2> QED BY <1>1, <1>2, SegmentsAre, SegmentsSame
<1>4. Spaced(cuts, s) /\ CutsAt(t, segs) = cuts
    <2> HIDE DEF s, t, segs
    <2> QED BY <1>1, <1>2, <1>3, CutsAre, CutsSame
<1>5. SplitByProject(c) = IF c.cal \/ Len(cuts) = 1 THEN <<c>> ELSE [m \in DOMAIN kept |-> pc[kept[m]]]
    BY DEF SplitByProject, SplitAt
<1>6. SplitByProject(d) = IF d.cal \/ Len(cuts) = 1 THEN <<d>>
                          ELSE LET k == Ascending({n \in DOMAIN cuts : LongEnough(pd[n])})
                               IN  [m \in DOMAIN k |-> pd[k[m]]]
    <2>1. SplitByProject(d) = SplitAt(d, cuts)
        BY <1>3, <1>4 DEF SplitByProject
    <2> HIDE DEF cuts
    <2> QED BY <1>2, <2>1 DEF SplitAt
<1>7. d.cal = c.cal
    BY DEF LikeCluster
<1> HIDE DEF cuts, s, t, segs
<1>8. ASSUME NEW n \in DOMAIN cuts PROVE LikeCluster(g, pc[n], pd[n])
    <2> DEFINE L == Len(cuts)
    <2>1. /\ cuts \in Seq(1 .. Len(s)) /\ Len(s) \in Nat
          /\ L \in Nat /\ DOMAIN cuts = 1 .. L
          /\ \A i, j \in 1 .. L : i < j => cuts[i] < cuts[j]
        BY <1>1, <1>4 DEF Spaced
    <2>2. n \in 1 .. L /\ cuts[n] \in 1 .. Len(s)
        BY <2>1
    <2>3. last(n) \in cuts[n] .. Len(s)
        <3>1. CASE n = L
            BY <2>1, <2>2, <3>1
        <3>2. CASE n # L
            <4>1. n + 1 \in 1 .. L /\ n < n + 1
                BY <2>1, <2>2, <3>2
            <4>2. cuts[n + 1] \in 1 .. Len(s) /\ cuts[n] < cuts[n + 1]
                BY <2>1, <2>2, <4>1
            <4> QED BY <2>1, <2>2, <3>2, <4>2
        <3> QED BY <3>1, <3>2
    <2>4. pc[n] = SubBlock(c, cuts[n], last(n)) /\ pd[n] = SubBlock(d, cuts[n], last(n))
        OBVIOUS
    <2> HIDE DEF pc, pd, last
    <2> QED BY <2>2, <2>3, <2>4, PieceLike DEF s
<1>9. {n \in DOMAIN cuts : LongEnough(pd[n])} = {n \in DOMAIN cuts : LongEnough(pc[n])}
    <2> HIDE DEF pc, pd
    <2> QED BY <1>8 DEF LikeCluster, LongEnough
<1>10. \E k \in Nat : DOMAIN kept = 1 .. k /\ \A m \in 1 .. k : kept[m] \in DOMAIN cuts
    <2> DEFINE S == {n \in DOMAIN cuts : LongEnough(pc[n])}
    <2>1. cuts \in Seq(1 .. Len(s))
        BY <1>4 DEF Spaced
    <2>2. Len(cuts) \in Nat /\ S \in SUBSET (1 .. Len(cuts))
        BY <2>1
    <2>3. kept = Ascending(S)
        OBVIOUS
    <2> HIDE DEF S, kept
    <2>4. kept \in [1 .. Cardinality(S) -> S] /\ Cardinality(S) \in Nat
        BY <2>2, <2>3, Ascends
    <2> QED BY <2>4 DEF S
<1>11. CASE c.cal \/ Len(cuts) = 1
    <2>1. SplitByProject(c) = <<c>> /\ SplitByProject(d) = <<d>>
        BY <1>5, <1>6, <1>7, <1>11
    <2> QED BY <2>1 DEF LikeClusters
<1>12. CASE ~(c.cal \/ Len(cuts) = 1)
    <2> DEFINE x == [m \in DOMAIN kept |-> pc[kept[m]]]
               y == [m \in DOMAIN kept |-> pd[kept[m]]]
    <2>1. SplitByProject(c) = x
        BY <1>5, <1>12
    <2>2. SplitByProject(d) = y
        <3> HIDE DEF pc, pd
        <3> QED BY <1>6, <1>7, <1>9, <1>12
    <2>3. PICK k \in Nat : DOMAIN kept = 1 .. k /\ \A m \in 1 .. k : kept[m] \in DOMAIN cuts
        BY <1>10
    <2> HIDE DEF kept, pc, pd
    <2>4. Len(x) = k /\ Len(y) = k
        BY <2>3
    <2>5. \A m \in 1 .. k : LikeCluster(g, x[m], y[m])
        BY <1>8, <2>3
    <2> HIDE DEF x, y
    <2> QED BY <2>1, <2>2, <2>4, <2>5 DEF LikeClusters
<1> QED
    BY <1>11, <1>12

LEMMA BlockLike ==
    ASSUME NEW E, NEW F, NEW g, NEW c \in Cluster(E), NEW d \in Cluster(F), LikeCluster(g, c, d)
    PROVE  LikeBlock(g, Block(c), Block(d))
<1> DEFINE s == c.events
           t == d.events
<1>1. /\ DOMAIN s = 1 .. Len(s) /\ DOMAIN t = 1 .. Len(s)
      /\ \A n \in 1 .. Len(s) : t[n] = g[s[n]]
    <2>1. s \in Seq(E) /\ t \in Seq(F) /\ LikeEvents(g, s, t)
        BY DEF Cluster, LikeCluster
    <2> HIDE DEF s, t
    <2> QED BY <2>1 DEF LikeEvents
<1> HIDE DEF s, t
<1>2. ToSet(t) = ImageBy(g, ToSet(s))
    BY <1>1 DEF ToSet, ImageBy
<1>3. /\ Block(c).start = c.start /\ Block(c).end = c.end /\ Block(c).cal = c.cal
      /\ Block(c).events = ToSet(s)
    BY DEF Block, s
<1>4. /\ Block(d).start = d.start /\ Block(d).end = d.end /\ Block(d).cal = d.cal
      /\ Block(d).events = ToSet(t)
    BY DEF Block, t
<1> QED
    BY <1>2, <1>3, <1>4 DEF LikeCluster, LikeBlock

LEMMA FinalizedLike ==
    ASSUME NEW E, Rows(E), NEW F, NEW g, Likeness(g, E, F),
           NEW c \in Cluster(E), NEW d \in Cluster(F), LikeCluster(g, c, d),
           NEW bs \in Seq(BlocksOf(E)), NEW cs \in Seq(BlocksOf(F)), LikeBlocks(g, bs, cs)
    PROVE  LikeBlocks(g, Finalized(bs, c), Finalized(cs, d))
<1> DEFINE p == SplitByProject(c)
           q == SplitByProject(d)
           u == Blocks(p)
           v == Blocks(q)
<1>0. Rows(F) /\ (LongEnough(d) <=> LongEnough(c))
    BY LikeRows DEF LikeCluster, LongEnough
<1>1. p \in Seq(Cluster(E)) /\ q \in Seq(Cluster(F)) /\ LikeClusters(g, p, q)
    BY <1>0, PiecesAre, SplitLike
<1>2. Finalized(bs, c) = IF LongEnough(c) THEN bs \o u ELSE bs
    BY DEF Finalized
<1>3. Finalized(cs, d) = IF LongEnough(c) THEN cs \o v ELSE cs
    BY <1>0 DEF Finalized
<1> HIDE DEF p, q
<1> DEFINE K == Len(p)
           M == Len(bs)
<1>4. /\ K \in Nat /\ M \in Nat /\ Len(q) = K /\ Len(cs) = M
      /\ \A n \in 1 .. K : p[n] \in Cluster(E) /\ q[n] \in Cluster(F) /\ LikeCluster(g, p[n], q[n])
    BY <1>1 DEF LikeClusters, LikeBlocks
<1>5. \A n \in 1 .. K : /\ LikeBlock(g, Block(p[n]), Block(q[n]))
                        /\ Block(p[n]) \in BlocksOf(E) /\ Block(q[n]) \in BlocksOf(F)
    BY <1>4, BlockLike, BlockIs
<1>6. u = [n \in 1 .. K |-> Block(p[n])] /\ v = [n \in 1 .. K |-> Block(q[n])]
    <2>1. DOMAIN p = 1 .. K /\ DOMAIN q = 1 .. K
        BY <1>1, <1>4
    <2> HIDE DEF K
    <2> QED BY <2>1 DEF Blocks
<1> HIDE DEF u, v
<1>7. u \in Seq(BlocksOf(E)) /\ v \in Seq(BlocksOf(F)) /\ Len(u) = K /\ Len(v) = K
    BY <1>4, <1>5, <1>6
<1>8. \A n \in 1 .. K : LikeBlock(g, u[n], v[n])
    BY <1>5, <1>6
<1> DEFINE x == bs \o u
           y == cs \o v
<1>9. /\ Len(x) = M + K /\ Len(y) = M + K
      /\ \A n \in 1 .. M : x[n] = bs[n] /\ y[n] = cs[n]
      /\ \A n \in 1 .. K : x[M + n] = u[n] /\ y[M + n] = v[n]
    BY <1>4, <1>7
<1>10. \A n \in 1 .. M + K : n \in 1 .. M \/ (n - M \in 1 .. K /\ M + (n - M) = n)
    BY <1>4
<1> HIDE DEF x, y, K, M
<1>11. \A n \in 1 .. M + K : LikeBlock(g, x[n], y[n])
    <2> TAKE n \in 1 .. M + K
    <2>1. CASE n \in 1 .. M
        BY <1>9, <2>1 DEF LikeBlocks, M
    <2>2. CASE n - M \in 1 .. K /\ M + (n - M) = n
        <3>1. x[n] = u[n - M] /\ y[n] = v[n - M]
            BY <1>9, <2>2
        <3> QED BY <1>8, <2>2, <3>1
    <2> QED BY <1>10, <2>1, <2>2
<1>12. LikeBlocks(g, x, y)
    BY <1>9, <1>11 DEF LikeBlocks
<1> QED
    BY <1>2, <1>3, <1>12 DEF x, y

(* The clustering sees when and in which folder something happened and     *)
(* what comes from the calendar: events that differ in anything else make  *)
(* the same blocks, of the corresponding events.  (build_blocks_sequential) *)
THEOREM ClusteringSeesTimesAndFolders ==
    ASSUME NEW E, Rows(E), NEW F, NEW g, Likeness(g, E, F)
    PROVE  LikeBlocks(g, BuildBlocks(E), BuildBlocks(F))
<1> DEFINE cs == Clusters(E)
           ds == Clusters(F)
           N == Len(cs)
<1>0. Rows(F)
    BY LikeRows
<1>1. cs \in Seq(Cluster(E)) /\ ds \in Seq(Cluster(F)) /\ LikeClusters(g, cs, ds)
    BY <1>0, ClustersAre, ClustersLike
<1>2. BuildBlocks(E) = Day(cs) /\ BuildBlocks(F) = Day(ds)
    BY BuildIsDay
<1> HIDE DEF cs, ds
<1>3. /\ N \in Nat /\ Len(ds) = N
      /\ \A n \in 1 .. N : cs[n] \in Cluster(E) /\ ds[n] \in Cluster(F) /\ LikeCluster(g, cs[n], ds[n])
    BY <1>1 DEF LikeClusters
<1>4. PICK h \in [0 .. N -> Seq(BlocksOf(E))] :
              /\ h[0] = <<>> /\ h[N] = Day(cs)
              /\ \A k \in 1 .. N : h[k] = Finalized(h[k - 1], cs[k])
    BY <1>1, DayIs
<1>5. PICK i \in [0 .. N -> Seq(BlocksOf(F))] :
              /\ i[0] = <<>> /\ i[N] = Day(ds)
              /\ \A k \in 1 .. N : i[k] = Finalized(i[k - 1], ds[k])
    <2>1. \E i \in [0 .. Len(ds) -> Seq(BlocksOf(F))] :
              /\ i[0] = <<>> /\ i[Len(ds)] = Day(ds)
              /\ \A k \in 1 .. Len(ds) : i[k] = Finalized(i[k - 1], ds[k])
        BY <1>0, <1>1, DayIs
    <2> HIDE DEF N
    <2> QED BY <1>3, <2>1
<1> HIDE DEF N
<1> DEFINE P == {k \in 0 .. N : LikeBlocks(g, h[k], i[k])}
<1>6. 0 \in P
    BY <1>3, <1>4, <1>5 DEF LikeBlocks
<1>7. \A k \in 1 .. N : k - 1 \in P => k \in P
    <2> TAKE k \in 1 .. N
    <2>1. k \in 0 .. N /\ k - 1 \in 0 .. N
        BY <1>3
    <2>2. /\ h[k - 1] \in Seq(BlocksOf(E)) /\ i[k - 1] \in Seq(BlocksOf(F))
          /\ h[k] = Finalized(h[k - 1], cs[k]) /\ i[k] = Finalized(i[k - 1], ds[k])
        BY <1>4, <1>5, <2>1
    <2> QED BY <1>3, <2>1, <2>2, FinalizedLike
<1>8. \A k \in 0 .. N : k \in P
    <2> HIDE DEF P
    <2> QED BY <1>3, <1>6, <1>7, Climb
<1>9. LikeBlocks(g, h[N], i[N])
    BY <1>3, <1>8
<1> QED
    BY <1>2, <1>4, <1>5, <1>9
=============================================================================
