---------------------------- MODULE LanesProofs ----------------------------
(***************************************************************************)
(* Theorems about Lanes: to whom the minutes of a day belong.  The         *)
(* stretches of the day's owners are a chain, one after the other, and the *)
(* sub-stretches of a block's customers a tiling, a chain without gaps     *)
(* from the block's first minute to its last.  Each pass over them (short  *)
(* ones folded, slivers given away, weak ones absorbed, neighbours merged) *)
(* is shown to keep that, for any votes.  Then whole days are compared     *)
(* minute by minute: with and without riders, with and without customers,  *)
(* with and without the windows the owner has saved.                       *)
(***************************************************************************)
EXTENDS InferProofs

-----------------------------------------------------------------------------
(* Who owns a minute is someone with an event in the day.                  *)

Votes(V) ==
    /\ IsFiniteSet(V) /\ V # {}
    /\ \A v \in V : v.id \in Int /\ v.at \in Int /\ v.key \in Int \X Int
    /\ \A u, v \in V : u.id = v.id => u = v

(* Time has two ends: of events in it one comes first and one last.        *)
LEMMA TimeHasEnds ==
    ASSUME NEW E, IsFiniteSet(E), E # {}, \A e \in E : e.id \in Int /\ e.at \in Int,
           \A d, e \in E : d.id = e.id => d = e
    PROVE  /\ \E x \in E : \A y \in E \ {x} : Earlier(x, y)
           /\ \E x \in E : \A y \in E \ {x} : Earlier(y, x)
<1> DEFINE R == {p \in E \X E : Earlier(p[1], p[2])}
<1>1. \A d, e \in E : <<d, e>> \in R <=> Earlier(d, e)
    OBVIOUS
<1>2. Orders(R, E)
    <2> HIDE DEF R
    <2> QED BY <1>1 DEF Orders, Earlier
<1>3. /\ \E x \in E : \A y \in E \ {x} : <<x, y>> \in R
      /\ \E x \in E : \A y \in E \ {x} : <<y, x>> \in R
    <2> HIDE DEF R
    <2> QED BY <1>2, EndsExist
<1> HIDE DEF R
<1> QED
    BY <1>1, <1>3

LEMMA LatestIs ==
    ASSUME NEW E, IsFiniteSet(E), E # {}, \A e \in E : e.id \in Int /\ e.at \in Int,
           \A d, e \in E : d.id = e.id => d = e
    PROVE  Latest(E) \in E /\ First(E) \in E
BY TimeHasEnds DEF Latest, First

LEMMA VotesWithin ==
    ASSUME NEW V, Votes(V), NEW U, U \subseteq V
    PROVE  /\ IsFiniteSet(U) /\ WorkFirst(U) \subseteq U /\ (U # {} => WorkFirst(U) # {})
           /\ Keys(U) \subseteq Keys(V) /\ IsFiniteSet(Keys(U)) /\ Keys(U) \subseteq Int \X Int
           /\ U # {} => Keys(U) # {} /\ Latest(U).key \in Keys(V) /\ First(U).key \in Keys(V)
<1>1. IsFiniteSet(U)
    BY FS_Subset DEF Votes
<1>2. WorkFirst(U) \subseteq U /\ (U # {} => WorkFirst(U) # {})
    BY DEF WorkFirst
<1>3. Keys(U) \subseteq Keys(V) /\ Keys(U) \subseteq Int \X Int /\ (U # {} => Keys(U) # {})
    BY DEF Keys, Votes
<1>4. IsFiniteSet(Keys(U))
    <2>1. Keys(U) = {v.key : v \in U}
        BY DEF Keys
    <2> DEFINE f == [v \in U |-> v.key]
    <2>2. f \in Surjection(U, Keys(U))
        BY <2>1 DEF Surjection
    <2> QED BY <1>1, <2>2, FS_Surjection
<1>5. U # {} => Latest(U) \in U /\ First(U) \in U
    <2>1. /\ \A e \in U : e.id \in Int /\ e.at \in Int
          /\ \A d, e \in U : d.id = e.id => d = e
        BY DEF Votes
    <2> QED BY <1>1, <2>1, LatestIs
<1> QED
    BY <1>1, <1>2, <1>3, <1>4, <1>5 DEF Keys

LEMMA BusiestIs ==
    ASSUME NEW V, Votes(V), NEW m, NEW current
    PROVE  Busiest(V, m, current) \in Keys(V) \cup {Null}
<1> DEFINE near == WorkFirst({v \in V : Distance(v.at, m) <= WINDOW_MINUTES})
           votes(k) == Cardinality({v \in near : v.key = k})
           tied == {k \in Keys(near) : \A l \in Keys(near) : votes(l) <= votes(k)}
<1>1. near \subseteq V
    BY VotesWithin
<1>2. IsFiniteSet(Keys(near)) /\ Keys(near) \subseteq Int \X Int /\ Keys(near) \subseteq Keys(V)
    <2> HIDE DEF near
    <2> QED BY <1>1, VotesWithin
<1>3. tied \subseteq Keys(near)
    OBVIOUS
<1>4. Busiest(V, m, current) = IF tied = {} THEN Null
                               ELSE IF current \in tied THEN current
                               ELSE CHOOSE k \in tied : \A l \in tied \ {k} : Precedes(k, l)
    BY DEF Busiest
<1> HIDE DEF tied, near
<1>5. IsFiniteSet(tied)
    BY <1>2, <1>3, FS_Subset
<1>6. tied # {} => \E k \in tied : \A l \in tied \ {k} : Precedes(k, l)
    <2> SUFFICES ASSUME tied # {} PROVE \E k \in tied : \A l \in tied \ {k} : Precedes(k, l)
        OBVIOUS
    <2> DEFINE R == {p \in tied \X tied : Precedes(p[1], p[2])}
    <2>1. \A k, l \in tied : <<k, l>> \in R <=> Precedes(k, l)
        OBVIOUS
    <2> HIDE DEF R
    <2>2. \A k \in tied : k = <<k[1], k[2]>> /\ k[1] \in Int /\ k[2] \in Int
        BY <1>2, <1>3
    <2>3. Orders(R, tied)
        BY <2>1, <2>2 DEF Orders, Precedes
    <2>4. /\ \E x \in tied : \A y \in tied \ {x} : <<x, y>> \in R
          /\ \E x \in tied : \A y \in tied \ {x} : <<y, x>> \in R
        BY <1>5, <2>3, EndsExist
    <2> QED BY <2>1, <2>4
<1> QED
    BY <1>2, <1>3, <1>4, <1>6

LEMMA OwnerIs ==
    ASSUME NEW V, Votes(V), NEW m, NEW current
    PROVE  OwnerOf(V, m, current) \in Keys(V) \cup {Null}
<1>1. LatestHuman(V, m, current) \in Keys(V) \cup {Null}
    <2> DEFINE held == {v \in V : /\ v.human \/ (v.focus > 0 /\ v.key = current)
                                  /\ v.at <= m /\ m - v.at <= v.focus}
    <2>1. held \subseteq V
        OBVIOUS
    <2>2. LatestHuman(V, m, current) = IF held = {} THEN Null ELSE Latest(WorkFirst(held)).key
        BY DEF LatestHuman
    <2> HIDE DEF held
    <2>3. WorkFirst(held) \subseteq V /\ (held # {} => WorkFirst(held) # {})
        BY <2>1, VotesWithin
    <2>4. held # {} => Latest(WorkFirst(held)).key \in Keys(V)
        BY <2>3, VotesWithin
    <2> QED BY <2>2, <2>4
<1> QED
    BY <1>1, BusiestIs DEF OwnerOf

-----------------------------------------------------------------------------
(* The minutes of the day, one after the other. *)

Minute(V, first, day, n) ==
    LET owner == OwnerOf(V, first + n - 1, day.current)
    IN  [owners  |-> Append(day.owners, owner),
         current |-> IF owner = Null THEN day.current ELSE owner]

Dawn == [owners |-> <<>>, current |-> Null]

Numbers(n) == [k \in 1 .. n |-> k]

Owning(f, V, first, s) ==
    f = [S \in SUBSET DOMAIN s |->
            IF S = {} THEN Dawn ELSE Minute(V, first, f[S \ {Max(S)}], s[Max(S)])]

LEMMA OwnersFold ==
    ASSUME NEW V, NEW first, NEW last
    PROVE  LET s == Numbers(last - first + 1)
           IN  Owners(V, first, last) = (CHOOSE f : Owning(f, V, first, s))[DOMAIN s].owners
<1> DEFINE s == Numbers(last - first + 1)
<1>1. Owners(V, first, last)
        = MapThenFoldSet(LAMBDA x, y : Minute(V, first, y, x), Dawn, LAMBDA i : s[i],
                         LAMBDA S : Max(S), DOMAIN s).owners
    BY DEF Owners, FoldLeft, Minute, Dawn, Numbers
<1>2. @ = (CHOOSE f : Owning(f, V, first, s))[DOMAIN s].owners
    BY DEF MapThenFoldSet, Owning
<1> QED
    BY <1>1, <1>2

LEMMA OwnersAre ==
    ASSUME NEW V, Votes(V), NEW first \in Int, NEW last \in Int, first <= last
    PROVE  /\ Owners(V, first, last) \in Seq(Keys(V) \cup {Null})
           /\ Len(Owners(V, first, last)) = last - first + 1
<1> DEFINE N == last - first + 1
           K == Keys(V) \cup {Null}
           A == [owners : Seq(K), current : K]
           B == 1 .. N
           s == Numbers(N)
           F == [x \in A \X B |-> Minute(V, first, x[1], x[2])]
           D == SUBSET (1 .. Len(s))
           P == {x \in Nat \X A : Len(x[2].owners) = x[1]}
<1>0. N \in Nat
    OBVIOUS
<1>1. \A day \in A, n \in B : /\ Minute(V, first, day, n) \in A
                              /\ Len(Minute(V, first, day, n).owners) = Len(day.owners) + 1
    <2> TAKE day \in A, n \in B
    <2>1. OwnerOf(V, first + n - 1, day.current) \in K
        BY OwnerIs
    <2> HIDE DEF K
    <2> QED BY <2>1 DEF Minute
<1>2. Dawn \in A /\ Len(Dawn.owners) = 0
    BY DEF Dawn
<1>3. s \in Seq(B) /\ Len(s) = N /\ DOMAIN s = 1 .. Len(s)
    BY <1>0 DEF Numbers
<1> HIDE DEF N, A, s
<1>4. F \in [A \X B -> A]
    BY <1>1
<1>5. \A day \in A, n \in B : F[<<day, n>>] = Minute(V, first, day, n)
    OBVIOUS
<1> HIDE DEF F
<1>6. PICK f : LeftFold(f, A, F, Dawn, s)
    BY <1>2, <1>3, <1>4, LeftExists
<1>7. ASSUME NEW S \in D, S # {}
      PROVE  S \ {Max(S)} \in D /\ s[Max(S)] \in B
    <2>1. Max(S) \in 1 .. Len(s)
        BY <1>0, <1>3, <1>7, LargestNat
    <2>2. S \ {Max(S)} \in D
        OBVIOUS
    <2> HIDE DEF D, B
    <2> QED BY <1>3, <2>1, <2>2
<1>8. Owning(f, V, first, s)
    <2>1. f \in [D -> A] /\ \A S \in D : f[S] = Left(f, F, Dawn, s, S)
        BY <1>6 DEF LeftFold
    <2>2. ASSUME NEW S \in D
          PROVE  f[S] = IF S = {} THEN Dawn ELSE Minute(V, first, f[S \ {Max(S)}], s[Max(S)])
        <3> HIDE DEF D, B
        <3> QED BY <1>5, <1>7, <2>1 DEF Left
    <2> QED BY <1>3, <2>1, <2>2 DEF Owning
<1> DEFINE g == CHOOSE p : Owning(p, V, first, s)
<1>9. Owning(g, V, first, s)
    BY <1>8
<1>10. Owners(V, first, last) = g[1 .. Len(s)].owners
    BY <1>3, OwnersFold DEF s, N
<1> HIDE DEF g
<1>11. Alike(f, g, Len(s))
    BY <1>3, <1>8, <1>9 DEF Owning, Alike
<1>12. \A k \in 1 .. Len(s), a \in A : <<k - 1, a>> \in P => <<k, F[<<a, s[k]>>]>> \in P
    <2> SUFFICES ASSUME NEW k \in 1 .. Len(s), NEW a \in A, Len(a.owners) = k - 1
                 PROVE  <<k, F[<<a, s[k]>>]>> \in P
        OBVIOUS
    <2>1. s[k] \in B /\ k \in Nat
        BY <1>0, <1>3
    <2>2. F[<<a, s[k]>>] = Minute(V, first, a, s[k])
        BY <1>5, <2>1
    <2>3. Minute(V, first, a, s[k]) \in A /\ Len(Minute(V, first, a, s[k]).owners) = k
        BY <1>1, <2>1
    <2> QED BY <2>1, <2>2, <2>3
<1>13. Keeping(P, A, F, Dawn, s)
    BY <1>2, <1>12 DEF Keeping
<1> HIDE DEF P, B
<1>14. g[1 .. Len(s)] \in A /\ <<Len(s), g[1 .. Len(s)]>> \in P
    BY <1>2, <1>3, <1>4, <1>6, <1>11, <1>13, FoldKeeps
<1> QED
    BY <1>3, <1>10, <1>14 DEF P, A, N

LEMMA BridgedIs ==
    ASSUME NEW K, NEW owners \in Seq(K \cup {Null})
    PROVE  Bridged(owners) \in Seq(K \cup {Null}) /\ Len(Bridged(owners)) = Len(owners)
<1> DEFINE N == Len(owners)
           owned == {n \in DOMAIN owners : owners[n] # Null}
           before(n) == {k \in owned : k < n}
           after(n) == {k \in owned : k > n}
           filled(n) == IF /\ before(n) # {} /\ after(n) # {}
                           /\ owners[Max(before(n))] = owners[Min(after(n))]
                           /\ Min(after(n)) - Max(before(n)) - 1 < BRIDGE_MINUTES
                        THEN owners[Max(before(n))] ELSE Null
           b == [n \in DOMAIN owners |-> IF n \in owned THEN owners[n] ELSE filled(n)]
<1>1. N \in Nat /\ DOMAIN owners = 1 .. N /\ \A n \in 1 .. N : owners[n] \in K \cup {Null}
    OBVIOUS
<1>2. Bridged(owners) = b
    BY DEF Bridged
<1>3. ASSUME NEW n \in 1 .. N PROVE filled(n) \in K \cup {Null}
    <2>1. before(n) \in SUBSET (1 .. N)
        BY <1>1
    <2>2. before(n) # {} => Max(before(n)) \in 1 .. N
        <3> HIDE DEF before, N
        <3> QED BY <1>1, <2>1, LargestNat
    <2>3. before(n) # {} => owners[Max(before(n))] \in K \cup {Null}
        BY <1>1, <2>2
    <2> HIDE DEF before, after
    <2> QED BY <2>3
<1>4. \A n \in 1 .. N : b[n] \in K \cup {Null}
    BY <1>1, <1>3
<1>5. DOMAIN b = 1 .. N /\ b = [n \in 1 .. N |-> b[n]]
    BY <1>1
<1> HIDE DEF b
<1>6. b \in [1 .. N -> K \cup {Null}]
    BY <1>4, <1>5
<1> QED
    BY <1>1, <1>2, <1>6

-----------------------------------------------------------------------------
(* Stretches: no two share a minute. *)

Stretch(K) == [owner : K, first : Int, last : Int]

Run(K) == {r \in Stretch(K) : r.first <= r.last}

(* One after the other; without gaps, each begins where the last one ends. *)
Chain(s, gaps) ==
    \A i \in 1 .. Len(s) - 1 : /\ s[i].last < s[i + 1].first
                               /\ gaps \/ s[i].last + 1 = s[i + 1].first

LEMMA ChainInTurn ==
    ASSUME NEW K, NEW s \in Seq(Run(K)), NEW gaps, Chain(s, gaps)
    PROVE  \A i, j \in 1 .. Len(s) : i < j => s[i].last < s[j].first
<1> SUFFICES ASSUME NEW i \in 1 .. Len(s)
             PROVE  \A j \in 1 .. Len(s) : i < j => s[i].last < s[j].first
    OBVIOUS
<1> DEFINE Bad == {j \in 1 .. Len(s) : i < j /\ ~(s[i].last < s[j].first)}
<1>1. Len(s) \in Nat /\ \A k \in 1 .. Len(s) : s[k] \in Run(K)
    OBVIOUS
<1>2. \A k \in 1 .. Len(s) : s[k].first \in Int /\ s[k].last \in Int /\ s[k].first <= s[k].last
    BY <1>1 DEF Run, Stretch
<1>3. Bad = {}
    <2> SUFFICES ASSUME Bad # {} PROVE FALSE
        OBVIOUS
    <2>1. PICK j \in Bad : \A k \in Bad : j <= k
        <3>1. Bad \in SUBSET Nat
            BY <1>1
        <3> HIDE DEF Bad
        <3> QED BY <3>1, SmallestNat
    <2>2. j \in 1 .. Len(s) /\ i < j /\ ~(s[i].last < s[j].first)
        BY <2>1
    <2>3. j - 1 \in 1 .. Len(s) - 1 /\ j - 1 \in 1 .. Len(s) /\ (j - 1) + 1 = j /\ ~(j <= j - 1)
        BY <1>1, <2>2
    <2>4. s[j - 1].last < s[j].first
        BY <2>3 DEF Chain
    <2>5. j - 1 = i \/ i < j - 1
        BY <1>1, <2>2, <2>3
    <2>6. i < j - 1 => s[i].last < s[j - 1].first
        BY <2>1, <2>3
    <2> DEFINE a == s[i].last
               c == s[j - 1].first
               d == s[j - 1].last
               e == s[j].first
    <2>7. a \in Int /\ c \in Int /\ d \in Int /\ e \in Int /\ c <= d
        BY <1>2, <2>2, <2>3
    <2>8. ~(a < e) /\ d < e /\ (j - 1 = i => a = d) /\ (i < j - 1 => a < c)
        BY <2>2, <2>4, <2>6
    <2> HIDE DEF a, c, d, e
    <2>9. j - 1 # i
        BY <2>7, <2>8
    <2>10. ~(i < j - 1)
        BY <2>7, <2>8
    <2> QED BY <2>5, <2>9, <2>10
<1> QED
    BY <1>3

LEMMA StretchesAre ==
    ASSUME NEW K, NEW owners \in Seq(K \cup {Null}), NEW first \in Int
    PROVE  Stretches(owners, first) \in Seq(Run(K)) /\ Chain(Stretches(owners, first), TRUE)
<1> DEFINE N == Len(owners)
           edge(n) == n = 1 \/ owners[n - 1] # owners[n]
           S == {n \in DOMAIN owners : owners[n] # Null /\ edge(n)}
           q == Ascending(S)
           same(n) == {k \in n .. Len(owners) : \A j \in n .. k : owners[j] = owners[n]}
           run(i) == [owner |-> owners[q[i]], first |-> first + q[i] - 1,
                      last |-> first + Max(same(q[i])) - 1]
           s == [i \in DOMAIN q |-> run(i)]
<1>1. N \in Nat /\ DOMAIN owners = 1 .. N /\ \A n \in 1 .. N : owners[n] \in K \cup {Null}
    OBVIOUS
<1>2. Stretches(owners, first) = s
    BY DEF Stretches
<1>3. S \in SUBSET (1 .. N)
    BY <1>1
<1>4. \A n \in S : owners[n] \in K /\ n \in 1 .. N /\ (n = 1 \/ owners[n - 1] # owners[n])
    BY <1>1
<1> HIDE DEF S
<1> DEFINE C == Cardinality(S)
<1>5. /\ q \in [1 .. C -> S] /\ C \in Nat
      /\ \A j, k \in 1 .. C : j < k => q[j] < q[k]
    BY <1>1, <1>3, Ascends
<1> HIDE DEF q, C
<1>6. ASSUME NEW n \in 1 .. N
      PROVE  Max(same(n)) \in same(n) /\ Max(same(n)) \in n .. N
    <2>1. same(n) \in SUBSET (1 .. N) /\ n \in same(n) /\ same(n) \subseteq n .. N
        BY <1>1
    <2> HIDE DEF same
    <2>2. same(n) # {}
        BY <2>1
    <2>3. Max(same(n)) \in same(n)
        BY <1>1, <2>1, <2>2, LargestNat
    <2> QED BY <2>1, <2>3
<1>7. ASSUME NEW i \in 1 .. C PROVE run(i) \in Run(K)
    <2>1. q[i] \in S /\ q[i] \in 1 .. N /\ owners[q[i]] \in K
        BY <1>4, <1>5
    <2>2. Max(same(q[i])) \in Int /\ q[i] \in Int /\ q[i] <= Max(same(q[i]))
        BY <1>1, <1>6, <2>1
    <2> DEFINE m == Max(same(q[i]))
               p == q[i]
    <2> HIDE DEF m, p, same
    <2>3. /\ m \in Int /\ p \in Int /\ p <= m
          /\ run(i) = [owner |-> owners[p], first |-> first + p - 1, last |-> first + m - 1]
        BY <2>2 DEF m, p
    <2>4. owners[p] \in K
        BY <2>1 DEF p
    <2> QED BY <2>3, <2>4 DEF Run, Stretch
<1>8. DOMAIN q = 1 .. C
    BY <1>5
<1>9. s \in Seq(Run(K)) /\ Len(s) = C /\ \A i \in 1 .. C : s[i] = run(i)
    <2> HIDE DEF run
    <2> QED BY <1>5, <1>7, <1>8
<1>10. ASSUME NEW i \in 1 .. C - 1 PROVE s[i].last < s[i + 1].first
    <2>1. i \in 1 .. C /\ i + 1 \in 1 .. C /\ i < i + 1
        BY <1>5
    <2>2. q[i] < q[i + 1] /\ q[i] \in 1 .. N /\ q[i + 1] \in S /\ q[i + 1] \in 1 .. N
        BY <1>4, <1>5, <2>1
    <2> DEFINE m == Max(same(q[i]))
    <2>3. m \in same(q[i]) /\ m \in q[i] .. N
        BY <1>6, <2>2
    <2>4. \A j \in q[i] .. m : owners[j] = owners[q[i]]
        BY <2>3
    <2> HIDE DEF m, same
    <2>5. m < q[i + 1]
        <3> SUFFICES ASSUME q[i + 1] <= m PROVE FALSE
            BY <1>1, <2>2, <2>3
        <3>1. q[i + 1] \in q[i] .. m /\ q[i + 1] - 1 \in q[i] .. m /\ q[i + 1] # 1
            BY <1>1, <2>2, <2>3
        <3>2. owners[q[i + 1]] = owners[q[i]] /\ owners[q[i + 1] - 1] = owners[q[i]]
            BY <2>4, <3>1
        <3> QED BY <1>4, <2>2, <3>1, <3>2
    <2>6. s[i].last = first + m - 1 /\ s[i + 1].first = first + q[i + 1] - 1
        BY <1>9, <2>1 DEF m
    <2> QED BY <1>1, <2>2, <2>3, <2>5, <2>6
<1> QED
    BY <1>2, <1>9, <1>10 DEF Chain

LEMMA OwnerRunsAre ==
    ASSUME NEW V, Votes(V)
    PROVE  OwnerRuns(V) \in Seq(Run(Keys(V))) /\ Chain(OwnerRuns(V), TRUE)
<1> DEFINE T == {v.at : v \in V}
           first == Min(T)
           last == Max(T)
           day == Owners(V, first, last)
           K == Keys(V)
<1>1. T \subseteq Int /\ T # {} /\ IsFiniteSet(T)
    <2>1. T \subseteq Int /\ T # {}
        BY DEF Votes
    <2> DEFINE f == [v \in V |-> v.at]
    <2>2. f \in Surjection(V, T)
        BY DEF Surjection
    <2> HIDE DEF T, f
    <2> QED BY <2>1, <2>2, FS_Surjection DEF Votes
<1> HIDE DEF T
<1>2. first \in Int /\ last \in Int /\ first <= last
    <2>1. first \in T /\ \A k \in T : first <= k
        BY <1>1, LeastInt
    <2>2. last \in T
        <3>1. T \in SUBSET Int
            BY <1>1
        <3> QED BY <1>1, <3>1, LargestInt
    <2> QED BY <1>1, <2>1, <2>2
<1>3. OwnerRuns(V) = Stretches(Bridged(day), first)
    BY DEF OwnerRuns, T
<1> HIDE DEF first, last
<1>4. day \in Seq(K \cup {Null})
    BY <1>2, OwnersAre
<1> HIDE DEF day, K
<1>5. Bridged(day) \in Seq(K \cup {Null})
    BY <1>4, BridgedIs
<1> DEFINE owners == Bridged(day)
<1> HIDE DEF owners
<1>6. Stretches(owners, first) \in Seq(Run(K)) /\ Chain(Stretches(owners, first), TRUE)
    BY <1>2, <1>5, StretchesAre DEF owners
<1> QED
    BY <1>3, <1>6 DEF owners, K

-----------------------------------------------------------------------------
(* A pass that adds each run to the end of what it has, or lets it be part *)
(* of the last one.                                                        *)

Grows(K, out, r, new) ==
    \/ new = Append(out, r)
    \/ /\ out # <<>>
       /\ \E w \in Stretch(K) : /\ w.first = Last(out).first /\ w.last = r.last
                                /\ new = Append(Front(out), w)

Done(runs, k, out, K, gaps) ==
    /\ out \in Seq(Run(K)) /\ Chain(out, gaps) /\ (k = 0 <=> out = <<>>)
    /\ k > 0 => out[1].first = runs[1].first /\ out[Len(out)].last = runs[k].last

LEMMA GrowsOn ==
    ASSUME NEW K, NEW gaps, NEW runs \in Seq(Run(K)), Chain(runs, gaps), NEW k \in 1 .. Len(runs),
           NEW out, Done(runs, k - 1, out, K, gaps), NEW new, Grows(K, out, runs[k], new)
    PROVE  Done(runs, k, new, K, gaps)
<1> DEFINE r == runs[k]
           L == Len(out)
<1>1. /\ Len(runs) \in Nat /\ r \in Run(K) /\ k > 0 /\ L \in Nat
      /\ out \in Seq(Run(K)) /\ (k = 1 <=> out = <<>>)
    BY DEF Done
<1>2. \A i \in 1 .. L : /\ out[i] \in Run(K) /\ out[i].first \in Int /\ out[i].last \in Int
                        /\ out[i].first <= out[i].last
    BY <1>1 DEF Run, Stretch
<1>3. r.first \in Int /\ r.last \in Int /\ r.first <= r.last
    BY <1>1 DEF Run, Stretch
<1>4. k # 1 => /\ L >= 1 /\ out[1].first = runs[1].first /\ out[L].last < r.first
               /\ gaps \/ out[L].last + 1 = r.first
    <2> SUFFICES ASSUME k # 1
                 PROVE  /\ L >= 1 /\ out[1].first = runs[1].first /\ out[L].last < r.first
                        /\ gaps \/ out[L].last + 1 = r.first
        OBVIOUS
    <2>1. k - 1 \in 1 .. Len(runs) - 1 /\ (k - 1) + 1 = k /\ k - 1 > 0
        BY <1>1
    <2>2. runs[k - 1].last < r.first /\ (gaps \/ runs[k - 1].last + 1 = r.first)
        BY <2>1 DEF Chain
    <2>3. out[1].first = runs[1].first /\ out[L].last = runs[k - 1].last
        BY <2>1 DEF Done
    <2> QED BY <1>1, <2>2, <2>3
<1>5. CASE new = Append(out, r)
    <2>1. /\ new \in Seq(Run(K)) /\ Len(new) = L + 1 /\ new[L + 1] = r
          /\ \A i \in 1 .. L : new[i] = out[i]
        BY <1>1, <1>5
    <2>2. ASSUME NEW i \in 1 .. (L + 1) - 1
          PROVE  new[i].last < new[i + 1].first /\ (gaps \/ new[i].last + 1 = new[i + 1].first)
        <3>1. i \in 1 .. L /\ k # 1
            BY <1>1
        <3>2. CASE i = L
            BY <1>4, <2>1, <3>1, <3>2
        <3>3. CASE i # L
            <4>1. i \in 1 .. L - 1 /\ i + 1 \in 1 .. L
                BY <1>1, <3>1, <3>3
            <4> QED BY <2>1, <3>1, <4>1 DEF Done, Chain
        <3> QED BY <3>2, <3>3
    <2>3. new[1].first = runs[1].first
        <3>1. k = 1 => L = 0
            BY <1>1
        <3>2. k # 1 => 1 \in 1 .. L
            BY <1>1, <1>4
        <3> QED BY <1>4, <2>1, <3>1, <3>2
    <2>4. new # <<>>
        BY <1>1, <1>5
    <2> HIDE DEF r
    <2>5. Chain(new, gaps)
        BY <2>1, <2>2 DEF Chain
    <2> QED BY <1>1, <2>1, <2>3, <2>4, <2>5 DEF Done, r
<1>6. ASSUME out # <<>>, NEW w \in Stretch(K), w.first = Last(out).first, w.last = r.last,
             new = Append(Front(out), w)
      PROVE  Done(runs, k, new, K, gaps)
    <2>1. k # 1 /\ L >= 1 /\ Last(out) = out[L] /\ L \in 1 .. L
        BY <1>1, <1>4, <1>6 DEF Last
    <2>2. /\ Front(out) \in Seq(Run(K)) /\ Len(Front(out)) = L - 1
          /\ \A i \in 1 .. L - 1 : Front(out)[i] = out[i]
        BY <1>1, <1>6, LastAndFront
    <2>3. w \in Run(K)
        <3>1. w.first = out[L].first /\ out[L].first <= out[L].last /\ out[L].last < r.first
            BY <1>2, <1>4, <1>6, <2>1
        <3> QED BY <1>2, <1>3, <1>6, <2>1, <3>1 DEF Run
    <2>4. /\ new \in Seq(Run(K)) /\ Len(new) = L /\ new[L] = w
          /\ \A i \in 1 .. L - 1 : new[i] = out[i]
        <3> DEFINE front == Front(out)
        <3> HIDE DEF front
        <3>1. front \in Seq(Run(K)) /\ Len(front) = L - 1 /\ new = Append(front, w)
            BY <1>6, <2>2 DEF front
        <3>2. new \in Seq(Run(K)) /\ Len(new) = L /\ new[L] = w /\ \A i \in 1 .. L - 1 : new[i] = front[i]
            BY <1>1, <2>1, <2>3, <3>1
        <3> QED BY <2>2, <3>2 DEF front
    <2>5. ASSUME NEW i \in 1 .. L - 1
          PROVE  new[i].last < new[i + 1].first /\ (gaps \/ new[i].last + 1 = new[i + 1].first)
        <3>1. new[i] = out[i] /\ i \in 1 .. L /\ i + 1 \in 1 .. L
            BY <1>1, <2>4
        <3>2. new[i + 1].first = out[i + 1].first
            <4>1. CASE i + 1 = L
                BY <1>6, <2>1, <2>4, <4>1
            <4>2. CASE i + 1 # L
                <5>1. i + 1 \in 1 .. L - 1
                    BY <1>1, <4>2
                <5> QED BY <2>4, <5>1
            <4> QED BY <4>1, <4>2
        <3> QED BY <3>1, <3>2 DEF Done, Chain
    <2>6. Chain(new, gaps)
        BY <2>4, <2>5 DEF Chain
    <2>7. new[1].first = runs[1].first
        <3>1. CASE L = 1
            BY <1>4, <1>6, <2>1, <2>4, <3>1
        <3>2. CASE L # 1
            <4>1. 1 \in 1 .. L - 1
                <5>1. L \in Nat /\ L >= 1 /\ L # 1
                    BY <1>1, <2>1, <3>2
                <5> HIDE DEF L
                <5> QED BY <5>1
            <4> QED BY <1>4, <2>1, <2>4, <4>1
        <3> QED BY <3>1, <3>2
    <2>8. new # <<>>
        BY <1>1, <2>1, <2>4
    <2> QED BY <1>1, <1>6, <2>4, <2>6, <2>7, <2>8 DEF Done
<1> QED
    BY <1>5, <1>6 DEF Grows

LEMMA PassIsDone ==
    ASSUME NEW K, NEW gaps, NEW runs \in Seq(Run(K)), Chain(runs, gaps),
           NEW F \in [Seq(Stretch(K)) \X Run(K) -> Seq(Stretch(K))],
           \A out \in Seq(Stretch(K)), r \in Run(K) : Grows(K, out, r, F[<<out, r>>]),
           NEW f, LeftFold(f, Seq(Stretch(K)), F, <<>>, runs), NEW g, Alike(f, g, Len(runs))
    PROVE  Done(runs, Len(runs), g[1 .. Len(runs)], K, gaps)
<1> DEFINE A == Seq(Stretch(K))
           P == {x \in Nat \X A : Done(runs, x[1], x[2], K, gaps)}
<1>1. Len(runs) \in Nat /\ \A k \in 1 .. Len(runs) : k \in Nat /\ k - 1 \in Nat /\ runs[k] \in Run(K)
    OBVIOUS
<1>2. <<>> \in A
    OBVIOUS
<1>3. Done(runs, 0, <<>>, K, gaps)
    BY DEF Done, Chain
<1>4. <<0, <<>>>> \in P
    BY <1>2, <1>3
<1>5. \A k \in 1 .. Len(runs), a \in A : <<k - 1, a>> \in P => <<k, F[<<a, runs[k]>>]>> \in P
    <2> SUFFICES ASSUME NEW k \in 1 .. Len(runs), NEW a \in A, Done(runs, k - 1, a, K, gaps)
                 PROVE  <<k, F[<<a, runs[k]>>]>> \in P
        OBVIOUS
    <2>1. F[<<a, runs[k]>>] \in A /\ Grows(K, a, runs[k], F[<<a, runs[k]>>])
        BY <1>1
    <2>2. Done(runs, k, F[<<a, runs[k]>>], K, gaps)
        BY <2>1, GrowsOn
    <2> QED BY <1>1, <2>1, <2>2
<1> HIDE DEF P
<1>6. Keeping(P, A, F, <<>>, runs)
    BY <1>4, <1>5 DEF Keeping
<1>7. <<Len(runs), g[1 .. Len(runs)]>> \in P
    <2> HIDE DEF A
    <2>1. F \in [A \X Run(K) -> A] /\ LeftFold(f, A, F, <<>>, runs)
        BY DEF A
    <2> QED BY <1>2, <1>6, <2>1, FoldKeeps
<1> QED
    BY <1>7 DEF P

(* merge_touching_same_owner *)
MergeOne(out, r) ==
    IF out # <<>> /\ Last(out).owner = r.owner /\ r.first - Last(out).last <= 1
    THEN Append(Front(out), [Last(out) EXCEPT !.last = r.last])
    ELSE Append(out, r)

Merging(f, s) ==
    f = [S \in SUBSET DOMAIN s |->
            IF S = {} THEN <<>> ELSE MergeOne(f[S \ {Max(S)}], s[Max(S)])]

LEMMA MergeFold ==
    ASSUME NEW s
    PROVE  MergeTouchingSameOwner(s) = (CHOOSE f : Merging(f, s))[DOMAIN s]
<1>1. MergeTouchingSameOwner(s)
        = MapThenFoldSet(LAMBDA x, y : MergeOne(y, x), <<>>, LAMBDA i : s[i],
                         LAMBDA S : Max(S), DOMAIN s)
    BY DEF MergeTouchingSameOwner, FoldLeft, MergeOne
<1>2. @ = (CHOOSE f : Merging(f, s))[DOMAIN s]
    BY DEF MapThenFoldSet, Merging
<1> QED
    BY <1>1, <1>2

LEMMA MergeOneGrows ==
    ASSUME NEW K, NEW out \in Seq(Stretch(K)), NEW r \in Run(K)
    PROVE  MergeOne(out, r) \in Seq(Stretch(K)) /\ Grows(K, out, r, MergeOne(out, r))
<1>1. r \in Stretch(K) /\ Append(out, r) \in Seq(Stretch(K))
    BY DEF Run
<1>2. ASSUME out # <<>>
      PROVE  LET w == [Last(out) EXCEPT !.last = r.last]
             IN  /\ w \in Stretch(K) /\ w.first = Last(out).first /\ w.last = r.last
                 /\ Append(Front(out), w) \in Seq(Stretch(K))
    <2>1. Last(out) \in Stretch(K) /\ Front(out) \in Seq(Stretch(K))
        BY <1>2, LastAndFront
    <2>2. [Last(out) EXCEPT !.last = r.last] \in Stretch(K)
        BY <1>1, <2>1 DEF Stretch
    <2> QED BY <1>1, <2>1, <2>2 DEF Stretch
<1> QED
    BY <1>1, <1>2 DEF MergeOne, Grows

LEMMA MergeIs ==
    ASSUME NEW K, NEW gaps, NEW runs \in Seq(Run(K)), Chain(runs, gaps)
    PROVE  Done(runs, Len(runs), MergeTouchingSameOwner(runs), K, gaps)
<1> DEFINE A == Seq(Stretch(K))
           B == Run(K)
           F == [x \in A \X B |-> MergeOne(x[1], x[2])]
           D == SUBSET (1 .. Len(runs))
<1>1. F \in [A \X B -> A] /\ <<>> \in A
    BY MergeOneGrows
<1>2. \A out \in A, r \in B : F[<<out, r>>] = MergeOne(out, r) /\ Grows(K, out, r, F[<<out, r>>])
    BY MergeOneGrows
<1> HIDE DEF A, F
<1>3. PICK f : LeftFold(f, A, F, <<>>, runs)
    BY <1>1, LeftExists
<1>4. DOMAIN runs = 1 .. Len(runs) /\ Len(runs) \in Nat
    OBVIOUS
<1>5. ASSUME NEW S \in D, S # {}
      PROVE  S \ {Max(S)} \in D /\ runs[Max(S)] \in B
    <2>1. Max(S) \in 1 .. Len(runs)
        BY <1>4, <1>5, LargestNat
    <2>2. S \ {Max(S)} \in D
        OBVIOUS
    <2> HIDE DEF D, B
    <2>3. runs[Max(S)] \in B
        BY <2>1 DEF B
    <2> QED BY <2>2, <2>3
<1>6. Merging(f, runs)
    <2>1. f \in [D -> A] /\ \A S \in D : f[S] = Left(f, F, <<>>, runs, S)
        BY <1>3 DEF LeftFold
    <2>2. ASSUME NEW S \in D
          PROVE  f[S] = IF S = {} THEN <<>> ELSE MergeOne(f[S \ {Max(S)}], runs[Max(S)])
        <3> HIDE DEF D, B
        <3> QED BY <1>2, <1>5, <2>1 DEF Left
    <2> QED BY <1>4, <2>1, <2>2 DEF Merging
<1> DEFINE g == CHOOSE p : Merging(p, runs)
<1>7. Merging(g, runs)
    BY <1>6
<1>8. MergeTouchingSameOwner(runs) = g[1 .. Len(runs)]
    BY <1>4, MergeFold
<1> HIDE DEF g
<1>9. Alike(f, g, Len(runs))
    BY <1>4, <1>6, <1>7 DEF Merging, Alike
<1>10. Done(runs, Len(runs), g[1 .. Len(runs)], K, gaps)
    BY <1>1, <1>2, <1>3, <1>9, PassIsDone DEF A, B
<1> QED
    BY <1>8, <1>10

(* fold_short_runs *)
FoldOne(out, r) ==
    IF out = <<>> \/ ~(Touch(Last(out), r) /\ SameClass(Last(out), r)) THEN Append(out, r)
    ELSE IF Length(r) < MIN_RUN_MINUTES \/ Last(out).owner = r.owner
    THEN Append(Front(out), [Last(out) EXCEPT !.last = r.last])
    ELSE IF Length(Last(out)) < MIN_RUN_MINUTES
    THEN Append(Front(out), [r EXCEPT !.first = Last(out).first])
    ELSE Append(out, r)

Folding(f, s) ==
    f = [S \in SUBSET DOMAIN s |->
            IF S = {} THEN <<>> ELSE FoldOne(f[S \ {Max(S)}], s[Max(S)])]

LEMMA ShortFold ==
    ASSUME NEW s
    PROVE  FoldShortRuns(s) = (CHOOSE f : Folding(f, s))[DOMAIN s]
<1>1. FoldShortRuns(s)
        = MapThenFoldSet(LAMBDA x, y : FoldOne(y, x), <<>>, LAMBDA i : s[i],
                         LAMBDA S : Max(S), DOMAIN s)
    BY DEF FoldShortRuns, FoldLeft, FoldOne
<1>2. @ = (CHOOSE f : Folding(f, s))[DOMAIN s]
    BY DEF MapThenFoldSet, Folding
<1> QED
    BY <1>1, <1>2

LEMMA FoldOneGrows ==
    ASSUME NEW K, NEW out \in Seq(Stretch(K)), NEW r \in Run(K)
    PROVE  FoldOne(out, r) \in Seq(Stretch(K)) /\ Grows(K, out, r, FoldOne(out, r))
<1>1. r \in Stretch(K) /\ Append(out, r) \in Seq(Stretch(K))
    BY DEF Run
<1>2. ASSUME out # <<>>,
             NEW w \in {[Last(out) EXCEPT !.last = r.last], [r EXCEPT !.first = Last(out).first]}
      PROVE  /\ w \in Stretch(K) /\ w.first = Last(out).first /\ w.last = r.last
             /\ Append(Front(out), w) \in Seq(Stretch(K))
    <2>1. Last(out) \in Stretch(K) /\ Front(out) \in Seq(Stretch(K))
        BY <1>2, LastAndFront
    <2>2. w \in Stretch(K) /\ w.first = Last(out).first /\ w.last = r.last
        BY <1>1, <2>1 DEF Stretch
    <2> QED BY <2>1, <2>2
<1> QED
    BY <1>1, <1>2 DEF FoldOne, Grows

LEMMA ShortIs ==
    ASSUME NEW K, NEW gaps, NEW runs \in Seq(Run(K)), Chain(runs, gaps)
    PROVE  Done(runs, Len(runs), FoldShortRuns(runs), K, gaps)
<1> DEFINE A == Seq(Stretch(K))
           B == Run(K)
           F == [x \in A \X B |-> FoldOne(x[1], x[2])]
           D == SUBSET (1 .. Len(runs))
<1>1. F \in [A \X B -> A] /\ <<>> \in A
    BY FoldOneGrows
<1>2. \A out \in A, r \in B : F[<<out, r>>] = FoldOne(out, r) /\ Grows(K, out, r, F[<<out, r>>])
    BY FoldOneGrows
<1> HIDE DEF A, F
<1>3. PICK f : LeftFold(f, A, F, <<>>, runs)
    BY <1>1, LeftExists
<1>4. DOMAIN runs = 1 .. Len(runs) /\ Len(runs) \in Nat
    OBVIOUS
<1>5. ASSUME NEW S \in D, S # {}
      PROVE  S \ {Max(S)} \in D /\ runs[Max(S)] \in B
    <2>1. Max(S) \in 1 .. Len(runs)
        BY <1>4, <1>5, LargestNat
    <2>2. S \ {Max(S)} \in D
        OBVIOUS
    <2> HIDE DEF D, B
    <2>3. runs[Max(S)] \in B
        BY <2>1 DEF B
    <2> QED BY <2>2, <2>3
<1>6. Folding(f, runs)
    <2>1. f \in [D -> A] /\ \A S \in D : f[S] = Left(f, F, <<>>, runs, S)
        BY <1>3 DEF LeftFold
    <2>2. ASSUME NEW S \in D
          PROVE  f[S] = IF S = {} THEN <<>> ELSE FoldOne(f[S \ {Max(S)}], runs[Max(S)])
        <3> HIDE DEF D, B
        <3> QED BY <1>2, <1>5, <2>1 DEF Left
    <2> QED BY <1>4, <2>1, <2>2 DEF Folding
<1> DEFINE g == CHOOSE p : Folding(p, runs)
<1>7. Folding(g, runs)
    BY <1>6
<1>8. FoldShortRuns(runs) = g[1 .. Len(runs)]
    BY <1>4, ShortFold
<1> HIDE DEF g
<1>9. Alike(f, g, Len(runs))
    BY <1>4, <1>6, <1>7 DEF Folding, Alike
<1>10. Done(runs, Len(runs), g[1 .. Len(runs)], K, gaps)
    BY <1>1, <1>2, <1>3, <1>9, PassIsDone DEF A, B
<1> QED
    BY <1>8, <1>10

-----------------------------------------------------------------------------
(* Slivers: what one of them covers goes to a neighbour or to nobody.      *)

LEMMA FunctionIsSeq ==
    ASSUME NEW T, NEW n \in Nat, NEW f \in [1 .. n -> T]
    PROVE  f \in Seq(T) /\ Len(f) = n
OBVIOUS

LEMMA JoinedIs ==
    ASSUME NEW T, NEW a \in Seq(T), NEW c \in Seq(T)
    PROVE  /\ a \o c \in Seq(T) /\ Len(a \o c) = Len(a) + Len(c) /\ Len(a) \in Nat /\ Len(c) \in Nat
           /\ \A k \in 1 .. Len(a) : (a \o c)[k] = a[k]
           /\ \A k \in 1 .. Len(c) : (a \o c)[Len(a) + k] = c[k]
OBVIOUS

LEMMA RemovedIs ==
    ASSUME NEW T, NEW s \in Seq(T), NEW i \in 1 .. Len(s)
    PROVE  /\ RemoveAt(s, i) \in Seq(T) /\ Len(RemoveAt(s, i)) = Len(s) - 1
           /\ \A k \in 1 .. Len(s) - 1 : RemoveAt(s, i)[k] = IF k < i THEN s[k] ELSE s[k + 1]
<1> DEFINE a == SubSeq(s, 1, i - 1)
           c == SubSeq(s, i + 1, Len(s))
<1>1. Len(s) \in Nat /\ i \in Nat /\ i >= 1 /\ i <= Len(s)
    OBVIOUS
<1>2. a \in Seq(T) /\ Len(a) = i - 1 /\ \A k \in 1 .. i - 1 : a[k] = s[k]
    BY <1>1
<1>3. c \in Seq(T) /\ Len(c) = Len(s) - i /\ \A k \in 1 .. Len(s) - i : c[k] = s[i + k]
    BY <1>1
<1>4. RemoveAt(s, i) = a \o c
    BY DEF RemoveAt
<1> HIDE DEF a, c
<1>5. a \o c \in Seq(T) /\ Len(a \o c) = Len(s) - 1
    <2>1. a \o c \in Seq(T) /\ Len(a \o c) = Len(a) + Len(c)
        BY <1>2, <1>3, JoinedIs
    <2>2. Len(a) + Len(c) = Len(s) - 1
        BY <1>1, <1>2, <1>3
    <2> QED BY <2>1, <2>2
<1>6. ASSUME NEW k \in 1 .. Len(s) - 1 PROVE (a \o c)[k] = IF k < i THEN s[k] ELSE s[k + 1]
    <2>1. CASE k < i
        BY <1>1, <1>2, <1>3, <2>1
    <2>2. CASE ~(k < i)
        <3>1. k - (i - 1) \in 1 .. Len(s) - i /\ i + (k - (i - 1)) = k + 1
            BY <1>1, <2>2
        <3>2. (a \o c)[k] = c[k - (i - 1)]
            BY <1>1, <1>2, <1>3, <2>2
        <3> QED BY <1>3, <2>2, <3>1, <3>2
    <2> QED BY <2>1, <2>2
<1> QED
    BY <1>4, <1>5, <1>6

(* Run i is to go to its neighbour j. *)
Given(s, i, j) ==
    IF j < i THEN [s EXCEPT ![j].last = s[i].last] ELSE [s EXCEPT ![j].first = s[i].first]

LEMMA GivenAway ==
    ASSUME NEW K, NEW gaps, NEW s \in Seq(Run(K)), Chain(s, gaps),
           NEW i \in 1 .. Len(s), NEW j \in {i - 1, i + 1} \cap DOMAIN s
    PROVE  LET u == RemoveAt(Given(s, i, j), i)
           IN  /\ u \in Seq(Run(K)) /\ Chain(u, gaps) /\ Len(u) = Len(s) - 1 /\ Len(s) > 1
               /\ u[1].first = s[1].first /\ u[Len(s) - 1].last = s[Len(s)].last
<1> DEFINE L == Len(s)
           t == Given(s, i, j)
           u == RemoveAt(t, i)
<1>1. /\ L \in Nat /\ L = Len(s) /\ DOMAIN s = 1 .. L
      /\ i \in 1 .. L /\ j \in 1 .. L /\ (j = i - 1 \/ j = i + 1)
    OBVIOUS
<1> HIDE DEF L
<1>2. \A k \in 1 .. L : /\ s[k] \in Stretch(K) /\ s[k].first \in Int /\ s[k].last \in Int
                        /\ s[k].first <= s[k].last
    BY DEF L, Run, Stretch
<1>3. \A m, n \in 1 .. L : m < n => s[m].last < s[n].first
    BY ChainInTurn DEF L
<1>4. \A k \in 1 .. L - 1 : gaps \/ s[k].last + 1 = s[k + 1].first
    BY DEF Chain, L
<1>5. /\ t \in Seq(Stretch(K)) /\ Len(t) = L
      /\ \A k \in 1 .. L : k # j => t[k] = s[k]
      /\ t[j] \in Stretch(K)
      /\ t[j].first = IF j < i THEN s[j].first ELSE s[i].first
      /\ t[j].last = IF j < i THEN s[i].last ELSE s[j].last
    <2>1. s[i] \in Stretch(K) /\ s[j] \in Stretch(K)
        BY <1>1, <1>2
    <2> DEFINE w == IF j < i THEN [s[j] EXCEPT !.last = s[i].last]
                    ELSE [s[j] EXCEPT !.first = s[i].first]
    <2>2. w \in Stretch(K)
        BY <2>1 DEF Stretch
    <2>3. t = [s EXCEPT ![j] = w]
        BY DEF Given
    <2>4. w.first = IF j < i THEN s[j].first ELSE s[i].first
        BY <2>1 DEF Stretch
    <2>5. w.last = IF j < i THEN s[i].last ELSE s[j].last
        BY <2>1 DEF Stretch
    <2> HIDE DEF w, t
    <2>6. t = [k \in 1 .. L |-> IF k = j THEN w ELSE s[k]]
        BY <1>1, <2>3
    <2>7. t \in [1 .. L -> Stretch(K)]
        BY <1>2, <2>2, <2>6
    <2>8. t \in Seq(Stretch(K)) /\ Len(t) = L
        <3>1. L \in Nat
            BY <1>1
        <3> QED BY <2>7, <3>1, FunctionIsSeq, Zenon
    <2>9. \A k \in 1 .. L : t[k] = IF k = j THEN w ELSE s[k]
        BY <2>6
    <2>10. t[j] = w
        BY <1>1, <2>9
    <2> QED BY <1>1, <2>2, <2>4, <2>5, <2>8, <2>9, <2>10
<1> HIDE DEF t
<1>6. \A k \in 1 .. L : t[k].first \in Int /\ t[k].last \in Int
    <2>1. \A k \in 1 .. L : t[k] \in Stretch(K)
        BY <1>1, <1>5
    <2> QED BY <2>1 DEF Stretch
<1>7. i # j => s[i].first \in Int
    BY <1>1, <1>2
<1>8. \A k \in 1 .. L : k # i => t[k].first <= t[k].last
    <2> SUFFICES ASSUME NEW k \in 1 .. L, k # i PROVE t[k].first <= t[k].last
        OBVIOUS
    <2>1. CASE k # j
        BY <1>2, <1>5, <2>1
    <2>2. CASE k = j /\ j < i
        <3>1. s[j].last < s[i].first /\ s[j].first <= s[j].last /\ s[i].first <= s[i].last
            BY <1>1, <1>2, <1>3, <2>2
        <3>2. s[j].first \in Int /\ s[j].last \in Int /\ s[i].first \in Int /\ s[i].last \in Int
            BY <1>1, <1>2
        <3>3. t[j].first = s[j].first /\ t[j].last = s[i].last
            BY <1>5, <2>2
        <3> HIDE DEF L
        <3> QED BY <2>2, <3>1, <3>2, <3>3
    <2>3. CASE k = j /\ ~(j < i)
        <3>0. i < j
            BY <1>1, <2>3
        <3>1. s[i].last < s[j].first /\ s[j].first <= s[j].last /\ s[i].first <= s[i].last
            BY <1>1, <1>2, <1>3, <3>0
        <3>2. s[j].first \in Int /\ s[j].last \in Int /\ s[i].first \in Int /\ s[i].last \in Int
            BY <1>1, <1>2
        <3>3. t[j].first = s[i].first /\ t[j].last = s[j].last
            BY <1>5, <2>3
        <3> QED BY <2>3, <3>1, <3>2, <3>3
    <2> QED BY <2>1, <2>2, <2>3
<1>9. /\ u \in Seq(Stretch(K)) /\ Len(u) = L - 1
      /\ \A k \in 1 .. L - 1 : u[k] = IF k < i THEN t[k] ELSE t[k + 1]
    <2>1. t \in Seq(Stretch(K)) /\ i \in 1 .. Len(t) /\ Len(t) = L
        BY <1>1, <1>5
    <2>2. /\ u \in Seq(Stretch(K)) /\ Len(u) = Len(t) - 1
          /\ \A k \in 1 .. Len(t) - 1 : u[k] = IF k < i THEN t[k] ELSE t[k + 1]
        BY <2>1, RemovedIs
    <2> QED BY <2>1, <2>2
<1> HIDE DEF u
<1>10. L > 1 /\ L - 1 \in Nat /\ L \in Nat
    BY <1>1
<1>11. \A k \in 1 .. L - 1 : u[k] \in Run(K)
    <2> SUFFICES ASSUME NEW k \in 1 .. L - 1 PROVE u[k] \in Run(K)
        OBVIOUS
    <2> DEFINE n == IF k < i THEN k ELSE k + 1
    <2>1. n \in 1 .. L /\ n # i /\ u[k] = t[n]
        <3>1. CASE k < i
            BY <1>1, <1>9, <3>1
        <3>2. CASE ~(k < i)
            <4>1. k + 1 \in 1 .. L /\ k + 1 # i /\ n = k + 1
                BY <1>1, <3>2
            <4> QED BY <1>9, <3>2, <4>1
        <3> QED BY <3>1, <3>2
    <2>2. u[k] \in Stretch(K)
        BY <1>9
    <2> HIDE DEF n
    <2> QED BY <1>8, <2>1, <2>2 DEF Run
<1>12. u \in Seq(Run(K))
    <2>1. u \in [1 .. L - 1 -> Stretch(K)]
        BY <1>9
    <2>2. u \in [1 .. L - 1 -> Run(K)]
        BY <1>11, <2>1
    <2> QED BY <1>10, <2>2
<1>13. ASSUME NEW k \in 1 .. (L - 1) - 1
       PROVE  u[k].last < u[k + 1].first /\ (gaps \/ u[k].last + 1 = u[k + 1].first)
    <2>1. k \in 1 .. L - 1 /\ k + 1 \in 1 .. L - 1 /\ k \in 1 .. L /\ k + 1 \in 1 .. L
          /\ k + 2 \in 1 .. L /\ (k + 1) + 1 = k + 2
        BY <1>1
    <2>2. CASE k + 1 < i
        <3>1. k < i
            BY <1>1, <2>1, <2>2
        <3>2. k # j
            BY <1>1, <2>2
        <3>3. t[k] = s[k] /\ t[k + 1].first = s[k + 1].first
            BY <1>1, <1>5, <2>1, <2>2, <3>2
        <3>4. s[k].last < s[k + 1].first
            BY <1>3, <2>1
        <3>5. gaps \/ s[k].last + 1 = s[k + 1].first
            BY <1>4, <2>1
        <3>6. u[k] = t[k] /\ u[k + 1] = t[k + 1]
            BY <1>9, <2>1, <2>2, <3>1
        <3> QED BY <3>3, <3>4, <3>5, <3>6
    <2>3. CASE k + 1 = i
        <3>1. k < i /\ ~(k + 1 < i)
            BY <1>1, <2>3
        <3>2. u[k] = t[k] /\ u[k + 1] = t[k + 2]
            BY <1>9, <2>1, <3>1
        <3>3. s[k].last < s[k + 1].first /\ s[k + 1].last < s[k + 2].first
            BY <1>3, <2>1
        <3>4. /\ gaps \/ s[k].last + 1 = s[k + 1].first
              /\ gaps \/ s[k + 1].last + 1 = s[k + 2].first
            BY <1>4, <2>1
        <3>5. CASE j = k
            <4>1. t[k].last = s[k + 1].last /\ t[k + 2] = s[k + 2]
                BY <1>5, <2>1, <2>3, <3>1, <3>5
            <4> QED BY <3>2, <3>3, <3>4, <4>1
        <3>6. CASE j = k + 2
            <4>0. ~(j < i) /\ k # j
                BY <2>1, <2>3, <3>6
            <4>1. t[k] = s[k] /\ t[k + 2].first = s[k + 1].first
                BY <1>5, <2>1, <2>3, <3>6, <4>0
            <4> QED BY <3>2, <3>3, <3>4, <4>1
        <3> QED BY <1>1, <2>3, <3>5, <3>6
    <2>4. CASE k >= i
        <3>1. ~(k < i) /\ ~(k + 1 < i)
            BY <1>1, <2>4
        <3>2. u[k] = t[k + 1] /\ u[k + 1] = t[k + 2]
            BY <1>9, <2>1, <3>1
        <3>3. k + 2 # j
            BY <1>1, <2>4
        <3>4. t[k + 1].last = s[k + 1].last /\ t[k + 2] = s[k + 2]
            <4>1. k + 1 = j => ~(j < i)
                BY <1>1, <2>4
            <4> QED BY <1>5, <2>1, <3>3, <4>1
        <3>5. s[k + 1].last < s[k + 2].first
            BY <1>3, <2>1
        <3>6. gaps \/ s[k + 1].last + 1 = s[k + 2].first
            BY <1>4, <2>1
        <3> QED BY <3>2, <3>4, <3>5, <3>6
    <2> QED BY <1>1, <2>2, <2>3, <2>4
<1>14. Chain(u, gaps)
    BY <1>9, <1>13 DEF Chain
<1>15. u[1].first = s[1].first
    <2>0. 1 \in 1 .. L - 1 /\ 1 \in 1 .. L /\ 2 \in 1 .. L
        BY <1>10
    <2>1. CASE i = 1
        <3>0. j = 2 /\ ~(1 < i)
            BY <1>1, <2>1
        <3>1. u[1] = t[2] /\ j = 2
            BY <1>9, <2>0, <3>0
        <3> QED BY <1>5, <2>1, <3>1
    <2>2. CASE i # 1
        <3>1. 1 < i
            BY <1>1, <2>2
        <3>2. u[1] = t[1]
            BY <1>9, <2>0, <3>1
        <3> QED BY <1>5, <2>0, <3>1, <3>2
    <2> QED BY <2>1, <2>2
<1>16. u[L - 1].last = s[L].last
    <2>0. L - 1 \in 1 .. L - 1 /\ L - 1 \in 1 .. L /\ L \in 1 .. L /\ (L - 1) + 1 = L
        BY <1>10
    <2>1. CASE i = L
        <3>0. j = L - 1 /\ j < i /\ L - 1 < i
            BY <1>1, <2>1
        <3>1. u[L - 1] = t[L - 1] /\ j = L - 1 /\ j < i
            BY <1>9, <2>0, <3>0
        <3> QED BY <1>5, <2>1, <3>1
    <2>2. CASE i # L
        <3>1. u[L - 1] = t[L] /\ (j = L => ~(j < i))
            BY <1>1, <1>9, <2>0, <2>2
        <3> QED BY <1>5, <2>0, <3>1
    <2> QED BY <2>1, <2>2
<1> QED
    BY <1>1, <1>9, <1>10, <1>12, <1>14, <1>15, <1>16 DEF t, u

(* Runs i - 1, i and i + 1 become one. *)
Sandwich(s, i) ==
    SubSeq(s, 1, i - 2) \o <<[s[i - 1] EXCEPT !.last = s[i + 1].last]>> \o SubSeq(s, i + 2, Len(s))

LEMMA SandwichIs ==
    ASSUME NEW K, NEW s \in Seq(Run(K)), Chain(s, TRUE), NEW i,
           i - 1 \in 1 .. Len(s), i \in 1 .. Len(s), i + 1 \in 1 .. Len(s)
    PROVE  Sandwich(s, i) \in Seq(Run(K)) /\ Chain(Sandwich(s, i), TRUE)
<1> DEFINE L == Len(s)
           w == [s[i - 1] EXCEPT !.last = s[i + 1].last]
           a == SubSeq(s, 1, i - 2)
           c == SubSeq(s, i + 2, L)
           u == Sandwich(s, i)
           p(k) == IF k <= i - 1 THEN k ELSE k + 2
           q(k) == IF k < i - 1 THEN k ELSE k + 2
<1>1. L \in Nat /\ i \in 2 .. L - 1 /\ \A k \in 1 .. L : s[k] \in Run(K)
    OBVIOUS
<1>2. \A k \in 1 .. L : /\ s[k] \in Stretch(K) /\ s[k].first \in Int /\ s[k].last \in Int
                        /\ s[k].first <= s[k].last
    BY <1>1 DEF Run, Stretch
<1>3. \A m, n \in 1 .. L : m < n => s[m].last < s[n].first
    BY ChainInTurn
<1>4. w \in Stretch(K) /\ w.first = s[i - 1].first /\ w.last = s[i + 1].last
    <2>1. s[i - 1] \in Stretch(K) /\ s[i + 1] \in Stretch(K)
        BY <1>2
    <2> QED BY <2>1 DEF Stretch
<1>5. w \in Run(K)
    <2>1. i - 1 \in 1 .. L /\ i + 1 \in 1 .. L /\ i - 1 < i + 1
        BY <1>1
    <2>2. s[i - 1].first <= s[i - 1].last /\ s[i - 1].last < s[i + 1].first /\ s[i + 1].first <= s[i + 1].last
        BY <1>2, <1>3, <2>1
    <2>3. s[i - 1].first \in Int /\ s[i - 1].last \in Int /\ s[i + 1].first \in Int /\ s[i + 1].last \in Int
        BY <1>2, <2>1
    <2> HIDE DEF w
    <2> QED BY <1>4, <2>2, <2>3 DEF Run
<1>6. a \in Seq(Run(K)) /\ Len(a) = i - 2 /\ \A k \in 1 .. i - 2 : a[k] = s[k]
    BY <1>1
<1>7. c \in Seq(Run(K)) /\ Len(c) = L - i - 1 /\ \A k \in 1 .. L - i - 1 : c[k] = s[i + 1 + k]
    BY <1>1
<1>8. u = a \o <<w>> \o c
    BY DEF Sandwich
<1> HIDE DEF a, c, w, u, L
<1> DEFINE b == a \o <<w>>
<1>9. /\ b \in Seq(Run(K)) /\ Len(b) = i - 1 /\ b[i - 1] = w
      /\ \A k \in 1 .. i - 2 : b[k] = s[k]
    <2>1. <<w>> \in Seq(Run(K)) /\ Len(<<w>>) = 1 /\ 1 \in 1 .. Len(<<w>>) /\ <<w>>[1] = w
        BY <1>5
    <2>2. /\ b \in Seq(Run(K)) /\ Len(b) = Len(a) + Len(<<w>>)
          /\ \A k \in 1 .. Len(a) : b[k] = a[k]
          /\ \A k \in 1 .. Len(<<w>>) : b[Len(a) + k] = <<w>>[k]
        BY <1>6, <2>1, JoinedIs
    <2> HIDE DEF b
    <2>3. b[Len(a) + 1] = w /\ Len(a) + 1 = i - 1
        BY <1>1, <1>6, <2>1, <2>2
    <2> QED BY <1>1, <1>6, <2>1, <2>2, <2>3
<1> HIDE DEF b
<1>10. /\ u \in Seq(Run(K)) /\ Len(u) = L - 2
       /\ \A k \in 1 .. i - 1 : u[k] = b[k]
       /\ \A k \in 1 .. L - i - 1 : u[i - 1 + k] = s[i + 1 + k]
    <2>1. /\ b \o c \in Seq(Run(K)) /\ Len(b \o c) = Len(b) + Len(c)
          /\ \A k \in 1 .. Len(b) : (b \o c)[k] = b[k]
          /\ \A k \in 1 .. Len(c) : (b \o c)[Len(b) + k] = c[k]
        <3>1. b \in Seq(Run(K)) /\ c \in Seq(Run(K))
            BY <1>7, <1>9
        <3> QED BY <3>1, JoinedIs
    <2>2. u = b \o c
        BY <1>8 DEF b
    <2>3. Len(b) + Len(c) = L - 2
        BY <1>1, <1>7, <1>9
    <2> QED BY <1>7, <1>9, <2>1, <2>2, <2>3
<1>11. ASSUME NEW k \in 1 .. L - 2
       PROVE  /\ p(k) \in 1 .. L /\ q(k) \in 1 .. L
              /\ u[k].first = s[p(k)].first /\ u[k].last = s[q(k)].last
    <2>1. CASE k < i - 1
        <3>1. k \in 1 .. i - 2 /\ k \in 1 .. i - 1 /\ p(k) = k /\ q(k) = k /\ k \in 1 .. L
            BY <1>1, <2>1
        <3> QED BY <1>9, <1>10, <3>1
    <2>2. CASE k = i - 1
        <3>1. k \in 1 .. i - 1 /\ p(k) = i - 1 /\ q(k) = i + 1 /\ i - 1 \in 1 .. L /\ i + 1 \in 1 .. L
            BY <1>1, <2>2
        <3> QED BY <1>4, <1>9, <1>10, <2>2, <3>1
    <2>3. CASE k > i - 1
        <3>1. /\ k - i + 1 \in 1 .. L - i - 1 /\ i - 1 + (k - i + 1) = k
              /\ i + 1 + (k - i + 1) = k + 2 /\ p(k) = k + 2 /\ q(k) = k + 2 /\ k + 2 \in 1 .. L
            BY <1>1, <2>3
        <3>2. u[i - 1 + (k - i + 1)] = s[i + 1 + (k - i + 1)]
            BY <1>10, <3>1
        <3>3. u[k] = s[k + 2]
            BY <3>1, <3>2
        <3> QED BY <3>1, <3>3
    <2> QED BY <1>1, <2>1, <2>2, <2>3
<1>12. ASSUME NEW k \in 1 .. (L - 2) - 1 PROVE u[k].last < u[k + 1].first
    <2>1. k \in 1 .. L - 2 /\ k + 1 \in 1 .. L - 2 /\ q(k) < p(k + 1)
        BY <1>1
    <2>2. q(k) \in 1 .. L /\ p(k + 1) \in 1 .. L /\ u[k].last = s[q(k)].last
          /\ u[k + 1].first = s[p(k + 1)].first
        BY <1>11, <2>1
    <2> HIDE DEF p, q
    <2> QED BY <1>3, <2>1, <2>2
<1>13. Chain(u, TRUE)
    BY <1>10, <1>12 DEF Chain
<1> QED
    BY <1>10, <1>13 DEF u

LEMMA FoldSliverIs ==
    ASSUME NEW K, NEW s \in Seq(Run(K)), Chain(s, TRUE), NEW i \in 1 .. Len(s), NEW V
    PROVE  FoldSliver(s, i, V) \in Seq(Run(K)) /\ Chain(FoldSliver(s, i, V), TRUE)
<1> DEFINE L == Len(s)
           kin == Kin(s, i)
           better(k, j) == Length(s[k]) < Length(s[j]) \/ (Length(s[k]) = Length(s[j]) /\ j <= k)
           to == CHOOSE j \in kin : \A k \in kin : better(k, j)
<1>1. L \in Nat /\ DOMAIN s = 1 .. L /\ i \in 1 .. L /\ L = Len(s)
    OBVIOUS
<1>2. kin \subseteq {i - 1, i + 1} \cap DOMAIN s
    BY DEF Kin, Neighbours
<1>3. FoldSliver(s, i, V) = IF Sandwiched(s, i, V) THEN Sandwich(s, i)
                            ELSE IF kin = {} THEN RemoveAt(s, i)
                            ELSE RemoveAt(Given(s, i, to), i)
    BY DEF FoldSliver, Sandwich, Given
<1>4. kin # {} => to \in kin
    <2>1. \A k \in kin : Length(s[k]) \in Int
        <3>1. \A k \in 1 .. L : s[k] \in Run(K)
            BY <1>1
        <3> QED BY <1>1, <1>2, <3>1 DEF Length, Run, Stretch
    <2> HIDE DEF kin
    <2>2. \A j, k \in kin : better(k, j) \/ better(j, k)
        <3>1. \A k \in kin : k \in Int
            BY <1>1, <1>2
        <3> QED BY <2>1, <3>1
    <2> HIDE DEF better
    <2>3. kin # {} => \E j \in kin : \A k \in kin : better(k, j)
        <3> SUFFICES ASSUME NEW j \in kin PROVE \E m \in kin : \A k \in kin : better(k, m)
            OBVIOUS
        <3>1. ASSUME NEW k \in kin, ~better(k, j)
              PROVE  \A n \in kin : better(n, k)
            <4>1. better(j, k) /\ better(k, k) /\ k # j
                BY <2>2, <3>1
            <4>2. \A n \in kin : n = j \/ n = k
                BY <1>2, <4>1
            <4> QED BY <4>1, <4>2
        <3> QED BY <3>1
    <2> QED BY <2>3
<1>5. CASE Sandwiched(s, i, V)
    <2>1. i - 1 \in 1 .. L /\ i + 1 \in 1 .. L
        BY <1>1, <1>5 DEF Sandwiched, Neighbours
    <2> QED BY <1>1, <1>3, <1>5, <2>1, SandwichIs
<1>6. CASE ~Sandwiched(s, i, V) /\ kin = {}
    <2> DEFINE u == RemoveAt(s, i)
    <2>1. /\ u \in Seq(Run(K)) /\ Len(u) = L - 1
          /\ \A k \in 1 .. L - 1 : u[k] = IF k < i THEN s[k] ELSE s[k + 1]
        BY RemovedIs
    <2>2. \A m, n \in 1 .. L : m < n => s[m].last < s[n].first
        BY ChainInTurn
    <2> HIDE DEF u, L
    <2>3. ASSUME NEW k \in 1 .. (L - 1) - 1 PROVE u[k].last < u[k + 1].first
        <3>1. /\ k \in 1 .. L - 1 /\ k + 1 \in 1 .. L - 1 /\ k \in 1 .. L /\ k + 1 \in 1 .. L
              /\ k + 2 \in 1 .. L /\ k < k + 1 /\ k + 1 < k + 2 /\ k < k + 2 /\ (k + 1) + 1 = k + 2
            BY <1>1
        <3>2. u[k] \in {s[k], s[k + 1]} /\ u[k + 1] \in {s[k + 1], s[k + 2]}
            BY <2>1, <3>1
        <3>3. u[k] = s[k + 1] => u[k + 1] = s[k + 2] \/ k < i
            BY <1>1, <2>1, <3>1
        <3>4. k < i => u[k] = s[k]
            BY <2>1, <3>1
        <3> QED BY <2>2, <3>1, <3>2, <3>3, <3>4
    <2>4. Chain(u, TRUE)
        BY <2>1, <2>3 DEF Chain
    <2> QED BY <1>3, <1>6, <2>1, <2>4 DEF u
<1>7. CASE ~Sandwiched(s, i, V) /\ kin # {}
    <2>1. to \in {i - 1, i + 1} \cap DOMAIN s
        BY <1>2, <1>4, <1>7
    <2> HIDE DEF to, kin
    <2>2. /\ RemoveAt(Given(s, i, to), i) \in Seq(Run(K))
          /\ Chain(RemoveAt(Given(s, i, to), i), TRUE)
        BY <2>1, GivenAway
    <2> QED BY <1>3, <1>7, <2>2
<1> QED
    BY <1>5, <1>6, <1>7

(* merge_by_evidence: one scan. *)
ScanOne(rs, V) ==
    LET slivers == {i \in DOMAIN rs : IsSliver(rs, i, V)}
    IN  IF slivers = {} THEN rs ELSE FoldSliver(rs, Min(slivers), V)

Scanning(f, V, s) ==
    f = [S \in SUBSET DOMAIN s |-> IF S = {} THEN s ELSE ScanOne(f[S \ {Max(S)}], V)]

LEMMA ScanFold ==
    ASSUME NEW V, NEW s
    PROVE  MergeByEvidence(s, V) = MergeTouchingSameOwner((CHOOSE f : Scanning(f, V, s))[DOMAIN s])
<1> DEFINE scanned == FoldLeft(LAMBDA rs, n : ScanOne(rs, V), s, s)
<1>1. MergeByEvidence(s, V) = MergeTouchingSameOwner(scanned)
    BY DEF MergeByEvidence, ScanOne
<1>2. scanned = MapThenFoldSet(LAMBDA x, y : ScanOne(y, V), s, LAMBDA i : s[i],
                               LAMBDA S : Max(S), DOMAIN s)
    BY DEF FoldLeft
<1>3. @ = (CHOOSE f : Scanning(f, V, s))[DOMAIN s]
    BY DEF MapThenFoldSet, Scanning
<1> QED
    BY <1>1, <1>2, <1>3

Chained(K) == {s \in Seq(Run(K)) : Chain(s, TRUE)}

LEMMA ScanOneIs ==
    ASSUME NEW K, NEW s \in Chained(K), NEW V
    PROVE  ScanOne(s, V) \in Chained(K)
<1> DEFINE slivers == {i \in DOMAIN s : IsSliver(s, i, V)}
<1>0. s \in Seq(Run(K)) /\ Chain(s, TRUE)
    BY DEF Chained
<1>1. DOMAIN s = 1 .. Len(s) /\ Len(s) \in Nat
    BY <1>0
<1>2. slivers \subseteq 1 .. Len(s)
    BY <1>1
<1>3. ScanOne(s, V) = IF slivers = {} THEN s ELSE FoldSliver(s, Min(slivers), V)
    BY DEF ScanOne
<1> HIDE DEF slivers
<1>4. slivers # {} => Min(slivers) \in 1 .. Len(s)
    <2>1. slivers \subseteq Int /\ IsFiniteSet(slivers)
        <3>1. slivers \in SUBSET (1 .. Len(s))
            BY <1>2
        <3>2. IsFiniteSet(slivers)
            <4>1. Len(s) \in Nat
                BY <1>1
            <4> QED BY <3>1, <4>1, IndicesFinite
        <3> QED BY <1>1, <1>2, <3>2
    <2> QED BY <1>2, <2>1, LeastInt
<1>5. slivers # {} => ScanOne(s, V) \in Seq(Run(K)) /\ Chain(ScanOne(s, V), TRUE)
    BY <1>0, <1>3, <1>4, FoldSliverIs
<1> QED
    BY <1>0, <1>3, <1>5 DEF Chained

LEMMA EvidenceIs ==
    ASSUME NEW K, NEW s \in Chained(K), NEW V
    PROVE  MergeByEvidence(s, V) \in Seq(Run(K)) /\ Chain(MergeByEvidence(s, V), TRUE)
<1> DEFINE A == Chained(K)
           B == Run(K)
           F == [x \in A \X B |-> ScanOne(x[1], V)]
           D == SUBSET (1 .. Len(s))
           P == Nat \X A
<1>1. F \in [A \X B -> A] /\ s \in A
    BY ScanOneIs
<1>2. \A rs \in A, r \in B : F[<<rs, r>>] = ScanOne(rs, V)
    OBVIOUS
<1>3. s \in Seq(B) /\ DOMAIN s = 1 .. Len(s) /\ Len(s) \in Nat
    BY DEF Chained
<1> HIDE DEF A, F
<1>4. PICK f : LeftFold(f, A, F, s, s)
    BY <1>1, <1>3, LeftExists
<1>5. ASSUME NEW S \in D, S # {}
      PROVE  S \ {Max(S)} \in D /\ s[Max(S)] \in B
    <2>1. Max(S) \in 1 .. Len(s)
        BY <1>3, <1>5, LargestNat
    <2>2. S \ {Max(S)} \in D
        OBVIOUS
    <2> HIDE DEF D, B
    <2>3. s[Max(S)] \in B
        BY <1>3, <2>1
    <2> QED BY <2>2, <2>3
<1>6. Scanning(f, V, s)
    <2>1. f \in [D -> A] /\ \A S \in D : f[S] = Left(f, F, s, s, S)
        BY <1>4 DEF LeftFold
    <2>2. ASSUME NEW S \in D
          PROVE  f[S] = IF S = {} THEN s ELSE ScanOne(f[S \ {Max(S)}], V)
        <3> HIDE DEF D, B
        <3> QED BY <1>2, <1>5, <2>1 DEF Left
    <2> QED BY <1>3, <2>1, <2>2 DEF Scanning
<1> DEFINE g == CHOOSE p : Scanning(p, V, s)
<1>7. Scanning(g, V, s)
    BY <1>6
<1>8. MergeByEvidence(s, V) = MergeTouchingSameOwner(g[1 .. Len(s)])
    BY <1>3, ScanFold
<1> HIDE DEF g
<1>9. Alike(f, g, Len(s))
    BY <1>3, <1>6, <1>7 DEF Scanning, Alike
<1>10. Keeping(P, A, F, s, s)
    <2>1. ASSUME NEW k \in 1 .. Len(s), NEW a \in A
          PROVE  <<k, F[<<a, s[k]>>]>> \in P
        <3>1. s[k] \in B /\ k \in Nat
            BY <1>3
        <3> HIDE DEF B
        <3> QED BY <1>1, <3>1
    <2> QED BY <1>1, <2>1 DEF Keeping
<1> HIDE DEF P, B
<1>11. g[1 .. Len(s)] \in A
    BY <1>1, <1>3, <1>4, <1>9, <1>10, FoldKeeps
<1> DEFINE scanned == g[1 .. Len(s)]
<1> HIDE DEF scanned
<1>12. scanned \in Seq(Run(K)) /\ Chain(scanned, TRUE)
    BY <1>11 DEF A, Chained, scanned
<1>13. Done(scanned, Len(scanned), MergeTouchingSameOwner(scanned), K, TRUE)
    BY <1>12, MergeIs
<1> QED
    BY <1>8, <1>13 DEF Done, scanned

LEMMA LanesAre ==
    ASSUME NEW V, Votes(V)
    PROVE  LaneRuns(V) \in Seq(Run(Keys(V))) /\ Chain(LaneRuns(V), TRUE)
<1> DEFINE K == Keys(V)
           runs == OwnerRuns(V)
<1>1. runs \in Seq(Run(K)) /\ Chain(runs, TRUE)
    BY OwnerRunsAre
<1> HIDE DEF K, runs
<1>2. Done(runs, Len(runs), FoldShortRuns(runs), K, TRUE)
    BY <1>1, ShortIs
<1>3. FoldShortRuns(runs) \in Chained(K)
    BY <1>2 DEF Done, Chained
<1>4. /\ MergeByEvidence(FoldShortRuns(runs), V) \in Seq(Run(K))
      /\ Chain(MergeByEvidence(FoldShortRuns(runs), V), TRUE)
    BY <1>3, EvidenceIs
<1> QED
    BY <1>4 DEF LaneRuns, K, runs

OneOwner(runs, K) ==
    \A i, j \in DOMAIN runs :
        /\ runs[i].owner \in K /\ runs[i].first <= runs[i].last
        /\ i # j => (runs[i].first .. runs[i].last) \cap (runs[j].first .. runs[j].last) = {}

(* Every minute of the day has at most one owner, and he has an event in   *)
(* it: of the stretches a day is cut into, none is empty, each is somebody *)
(* of the day's, and no two meet, in whatever order short ones were folded *)
(* and slivers given away.  (owner_runs, merge_by_evidence)                *)
THEOREM OneOwnerAMinute ==
    ASSUME NEW V, Votes(V)
    PROVE  OneOwner(LaneRuns(V), Keys(V))
<1> DEFINE runs == LaneRuns(V)
<1>1. runs \in Seq(Run(Keys(V))) /\ Chain(runs, TRUE)
    BY LanesAre
<1> HIDE DEF runs
<1>2. DOMAIN runs = 1 .. Len(runs) /\ Len(runs) \in Nat
    BY <1>1
<1>3. \A i \in 1 .. Len(runs) : /\ runs[i].owner \in Keys(V) /\ runs[i].first <= runs[i].last
                                /\ runs[i].first \in Int /\ runs[i].last \in Int
    <2>1. \A i \in 1 .. Len(runs) : runs[i] \in Run(Keys(V))
        BY <1>1
    <2> QED BY <2>1 DEF Run, Stretch
<1>4. \A i, j \in 1 .. Len(runs) : i < j => runs[i].last < runs[j].first
    BY <1>1, ChainInTurn
<1>5. ASSUME NEW i \in 1 .. Len(runs), NEW j \in 1 .. Len(runs), i # j
      PROVE  (runs[i].first .. runs[i].last) \cap (runs[j].first .. runs[j].last) = {}
    <2>1. i < j \/ j < i
        BY <1>2, <1>5
    <2>2. runs[i].last < runs[j].first \/ runs[j].last < runs[i].first
        BY <1>4, <2>1
    <2> QED BY <1>3, <2>2
<1> QED
    BY <1>2, <1>3, <1>5 DEF runs, OneOwner

-----------------------------------------------------------------------------
(* Dividing a block's minutes: no minute is left over, none is shared.     *)

Tiling(K, first, last) ==
    {s \in Seq(Run(K)) : /\ s # <<>> /\ Chain(s, FALSE)
                         /\ s[1].first = first /\ s[Len(s)].last = last}

LEMMA MinOfTwo ==
    ASSUME NEW m \in Int, NEW n \in Int
    PROVE  Min({m, n}) \in {m, n} /\ Min({m, n}) <= m /\ Min({m, n}) <= n
<1>1. \E x \in {m, n} : \A y \in {m, n} : x <= y
    OBVIOUS
<1> QED
    BY <1>1 DEF Min

LEMMA NotTheLast ==
    ASSUME NEW n \in Nat, NEW i \in 1 .. n, i # n
    PROVE  i \in 1 .. n - 1 /\ i + 1 \in 1 .. n
OBVIOUS

LEMMA OfTwoInTurn ==
    ASSUME NEW n \in Nat, NEW i \in 1 .. n - 1
    PROVE  i \in 1 .. n /\ i + 1 \in 1 .. n /\ i # n /\ i + 1 # 1
OBVIOUS

LEMMA ClampedIs ==
    ASSUME NEW K, NEW runs \in Seq(Run(K)), Chain(runs, TRUE), NEW first \in Int, NEW last \in Int
    PROVE  /\ Clamped(runs, first, last) \in Seq(Run(K)) /\ Chain(Clamped(runs, first, last), TRUE)
           /\ \A m \in 1 .. Len(Clamped(runs, first, last)) :
                 /\ first <= Clamped(runs, first, last)[m].first
                 /\ Clamped(runs, first, last)[m].last <= last
<1> DEFINE N == Len(runs)
           clamp(r) == [r EXCEPT !.first = Max({first, @}), !.last = Min({last, @})]
           S == {i \in DOMAIN runs : clamp(runs[i]).first <= clamp(runs[i]).last}
           kept == Ascending(S)
           C == Cardinality(S)
           u == [m \in DOMAIN kept |-> clamp(runs[kept[m]])]
<1>1. N \in Nat /\ DOMAIN runs = 1 .. N /\ N = Len(runs)
    OBVIOUS
<1>2. \A i \in 1 .. N : /\ runs[i] \in Stretch(K) /\ runs[i].first \in Int /\ runs[i].last \in Int
    BY DEF Run, Stretch
<1>3. \A i, j \in 1 .. N : i < j => runs[i].last < runs[j].first
    BY ChainInTurn
<1>4. ASSUME NEW i \in 1 .. N
      PROVE  /\ clamp(runs[i]) \in Stretch(K)
             /\ first <= clamp(runs[i]).first /\ clamp(runs[i]).last <= last
             /\ runs[i].first <= clamp(runs[i]).first /\ clamp(runs[i]).last <= runs[i].last
             /\ clamp(runs[i]).first \in Int /\ clamp(runs[i]).last \in Int
    <2> DEFINE r == runs[i]
               a == Max({first, r.first})
               b == Min({last, r.last})
    <2>1. r \in Stretch(K) /\ r.first \in Int /\ r.last \in Int
        BY <1>2
    <2>2. a \in Int /\ first <= a /\ r.first <= a
        BY <2>1, MaxOfTwo
    <2>3. b \in Int /\ b <= last /\ b <= r.last
        BY <2>1, MinOfTwo
    <2>4. clamp(r) = [r EXCEPT !.first = a, !.last = b]
        OBVIOUS
    <2> HIDE DEF a, b, clamp, r
    <2>5. clamp(r) \in Stretch(K) /\ clamp(r).first = a /\ clamp(r).last = b
        BY <2>1, <2>2, <2>3, <2>4 DEF Stretch
    <2> QED BY <2>2, <2>3, <2>5 DEF r
<1>5. Clamped(runs, first, last) = u
    BY DEF Clamped
<1>6. S \in SUBSET (1 .. N) /\ \A i \in S : i \in 1 .. N /\ clamp(runs[i]).first <= clamp(runs[i]).last
    BY <1>1
<1> HIDE DEF S, clamp, N
<1>7. /\ kept \in [1 .. C -> S] /\ C \in Nat
      /\ \A j, k \in 1 .. C : j < k => kept[j] < kept[k]
    BY <1>1, <1>6, Ascends
<1> HIDE DEF kept, C
<1>8. u = [m \in 1 .. C |-> clamp(runs[kept[m]])]
    BY <1>7
<1>9. \A m \in 1 .. C : clamp(runs[kept[m]]) \in Run(K)
    <2> TAKE m \in 1 .. C
    <2>1. kept[m] \in S
        BY <1>7
    <2> QED BY <1>4, <1>6, <2>1 DEF Run
<1> HIDE DEF u
<1>10. u \in [1 .. C -> Run(K)] /\ \A m \in 1 .. C : u[m] = clamp(runs[kept[m]])
    BY <1>8, <1>9
<1>11. u \in Seq(Run(K)) /\ Len(u) = C
    BY <1>7, <1>10, FunctionIsSeq
<1>12. ASSUME NEW m \in 1 .. C - 1 PROVE u[m].last < u[m + 1].first
    <2>1. m \in 1 .. C /\ m + 1 \in 1 .. C /\ m < m + 1
        BY <1>7
    <2> DEFINE i == kept[m]
               j == kept[m + 1]
    <2>2. i \in 1 .. N /\ j \in 1 .. N /\ i < j /\ u[m] = clamp(runs[i]) /\ u[m + 1] = clamp(runs[j])
        BY <1>6, <1>7, <1>10, <2>1
    <2> HIDE DEF i, j
    <2>3. /\ clamp(runs[i]).last <= runs[i].last /\ runs[i].last < runs[j].first
          /\ runs[j].first <= clamp(runs[j]).first
          /\ clamp(runs[i]).last \in Int /\ runs[i].last \in Int
          /\ runs[j].first \in Int /\ clamp(runs[j]).first \in Int
        BY <1>2, <1>3, <1>4, <2>2
    <2> QED BY <2>2, <2>3
<1>13. Chain(u, TRUE)
    BY <1>11, <1>12 DEF Chain
<1>14. \A m \in 1 .. C : first <= u[m].first /\ u[m].last <= last
    <2> TAKE m \in 1 .. C
    <2>1. kept[m] \in 1 .. N
        BY <1>6, <1>7
    <2> QED BY <1>4, <1>10, <2>1
<1> QED
    BY <1>5, <1>11, <1>13, <1>14

LEMMA MergeTiles ==
    ASSUME NEW K, NEW first, NEW last, NEW s \in Tiling(K, first, last)
    PROVE  MergeTouchingSameOwner(s) \in Tiling(K, first, last)
<1>1. /\ s \in Seq(Run(K)) /\ s # <<>> /\ Chain(s, FALSE)
      /\ s[1].first = first /\ s[Len(s)].last = last
    BY DEF Tiling
<1>2. Len(s) \in Nat /\ Len(s) > 0
    <2>1. s \in Seq(Run(K)) /\ s # <<>>
        BY <1>1
    <2> QED BY <2>1
<1>3. Done(s, Len(s), MergeTouchingSameOwner(s), K, FALSE)
    BY <1>1, MergeIs
<1> DEFINE u == MergeTouchingSameOwner(s)
<1> HIDE DEF u
<1>4. Done(s, Len(s), u, K, FALSE)
    BY <1>3 DEF u
<1>5. /\ u \in Seq(Run(K)) /\ Chain(u, FALSE) /\ (Len(s) = 0 <=> u = <<>>)
      /\ Len(s) > 0 => u[1].first = s[1].first /\ u[Len(u)].last = s[Len(s)].last
    BY <1>4 DEF Done
<1>6. u # <<>> /\ u[1].first = first /\ u[Len(u)].last = last
    <2>1. Len(s) # 0
        BY <1>2
    <2> QED BY <1>1, <1>2, <1>5, <2>1
<1>7. u \in Tiling(K, first, last)
    BY <1>5, <1>6 DEF Tiling
<1> QED
    BY <1>7 DEF u

LEMMA TileIs ==
    ASSUME NEW K, NEW runs \in Seq(Run(K)), runs # <<>>, Chain(runs, TRUE),
           NEW first \in Int, NEW last \in Int,
           \A m \in 1 .. Len(runs) : first <= runs[m].first /\ runs[m].last <= last
    PROVE  Tile(runs, first, last) \in Tiling(K, first, last)
<1> DEFINE N == Len(runs)
           from(i) == IF i = 1 THEN first ELSE runs[i].first
           to(i) == IF i = Len(runs) THEN last ELSE runs[i + 1].first - 1
           t == [i \in DOMAIN runs |-> [owner |-> runs[i].owner, first |-> from(i), last |-> to(i)]]
<1>1. N \in Nat /\ N >= 1 /\ DOMAIN runs = 1 .. N /\ N = Len(runs)
    OBVIOUS
<1>2. \A i \in 1 .. N : /\ runs[i].owner \in K /\ runs[i].first \in Int /\ runs[i].last \in Int
                        /\ runs[i].first <= runs[i].last
                        /\ first <= runs[i].first /\ runs[i].last <= last
    BY DEF Run, Stretch
<1>3. Tile(runs, first, last) = MergeTouchingSameOwner(t)
    BY DEF Tile
<1>4. ASSUME NEW i \in 1 .. N PROVE from(i) \in Int /\ to(i) \in Int /\ from(i) <= to(i)
    <2>1. from(i) \in Int /\ from(i) <= runs[i].first
        BY <1>2
    <2>2. to(i) \in Int /\ runs[i].last <= to(i)
        <3>1. CASE i = N
            BY <1>2, <3>1
        <3>2. CASE i # N
            <4>1. i \in 1 .. N - 1 /\ i + 1 \in 1 .. N
                <5>1. N \in Nat
                    BY <1>1
                <5> QED BY <3>2, <5>1, NotTheLast
            <4>2. runs[i].last < runs[i + 1].first
                BY <4>1 DEF Chain
            <4>3. runs[i].last \in Int /\ runs[i + 1].first \in Int
                BY <1>2, <4>1
            <4>4. to(i) = runs[i + 1].first - 1
                BY <3>2
            <4> QED BY <4>2, <4>3, <4>4
        <3> QED BY <3>1, <3>2
    <2> HIDE DEF from, to
    <2>3. runs[i].first \in Int /\ runs[i].last \in Int /\ runs[i].first <= runs[i].last
        BY <1>2
    <2> QED BY <2>1, <2>2, <2>3
<1>5. t = [i \in 1 .. N |-> [owner |-> runs[i].owner, first |-> from(i), last |-> to(i)]]
    BY <1>1
<1>6. from(1) = first /\ to(N) = last
    BY <1>1
<1>7. ASSUME NEW i \in 1 .. N - 1 PROVE to(i) = from(i + 1) - 1
    <2>1. i # N /\ i + 1 # 1
        <3>1. N \in Nat
            BY <1>1
        <3> QED BY <3>1, OfTwoInTurn
    <2> QED BY <2>1
<1> HIDE DEF from, to, t, N
<1>8. t \in [1 .. N -> Run(K)]
    BY <1>2, <1>4, <1>5 DEF Run, Stretch
<1>9. t \in Seq(Run(K)) /\ Len(t) = N
    BY <1>1, <1>8, FunctionIsSeq
<1>10. \A i \in 1 .. N : t[i].first = from(i) /\ t[i].last = to(i)
    BY <1>5
<1>11. \A i \in 1 .. N - 1 : t[i].last + 1 = t[i + 1].first /\ t[i].last < t[i + 1].first
    <2> TAKE i \in 1 .. N - 1
    <2>1. i \in 1 .. N /\ i + 1 \in 1 .. N
        BY <1>1, OfTwoInTurn
    <2> DEFINE a == to(i)
               b == from(i + 1)
    <2>2. a \in Int /\ b \in Int /\ a = b - 1
        BY <1>4, <1>7, <2>1
    <2>3. t[i].last = a /\ t[i + 1].first = b
        BY <1>10, <2>1
    <2> HIDE DEF a, b
    <2> QED BY <2>2, <2>3
<1>12. Chain(t, FALSE)
    BY <1>9, <1>11 DEF Chain
<1>13. t \in Tiling(K, first, last)
    <2>1. 1 \in 1 .. N /\ N \in 1 .. N /\ t # <<>>
        BY <1>1, <1>9
    <2> QED BY <1>6, <1>9, <1>10, <1>12, <2>1 DEF Tiling
<1> QED
    BY <1>3, <1>13, MergeTiles

LEMMA TailIs ==
    ASSUME NEW T, NEW s \in Seq(T), s # <<>>
    PROVE  Tail(s) = RemoveAt(s, 1)
<1>1. Len(s) \in Nat /\ Len(s) # 0 /\ 1 \in 1 .. Len(s)
    OBVIOUS
<1>2. /\ RemoveAt(s, 1) \in Seq(T) /\ Len(RemoveAt(s, 1)) = Len(s) - 1
      /\ \A k \in 1 .. Len(s) - 1 : RemoveAt(s, 1)[k] = IF k < 1 THEN s[k] ELSE s[k + 1]
    BY <1>1, RemovedIs
<1>3. /\ Tail(s) \in Seq(T) /\ Len(Tail(s)) = Len(s) - 1
      /\ \A k \in 1 .. Len(s) - 1 : Tail(s)[k] = s[k + 1]
    OBVIOUS
<1> DEFINE u == Tail(s)
           v == RemoveAt(s, 1)
           n == Len(s) - 1
<1>4. n \in Nat
    BY <1>1
<1>5. u \in Seq(T) /\ v \in Seq(T) /\ Len(u) = n /\ Len(v) = n
    BY <1>2, <1>3
<1>6. \A k \in 1 .. n : u[k] = v[k]
    <2> TAKE k \in 1 .. n
    <2>1. ~(k < 1)
        BY <1>4
    <2> QED BY <1>2, <1>3, <2>1
<1> HIDE DEF u, v, n
<1>7. u = v
    BY <1>4, <1>5, <1>6
<1> QED
    BY <1>7 DEF u, v

(* fold_weak_sub_runs: one scan. *)
WeakOne(rs, V) ==
    LET minutes(r) == Cardinality({v.at : v \in OwnEvents(r, V)})
        weak == {i \in DOMAIN rs : minutes(rs[i]) < MIN_EVIDENCE_MINUTES}
        i    == Min(weak)
    IN  IF Len(rs) = 1 \/ weak = {} THEN rs
        ELSE IF i = 1 THEN Tail([rs EXCEPT ![2].first = rs[1].first])
        ELSE RemoveAt([rs EXCEPT ![i - 1].last = rs[i].last], i)

Weakening(f, V, s) ==
    f = [S \in SUBSET DOMAIN s |-> IF S = {} THEN s ELSE WeakOne(f[S \ {Max(S)}], V)]

LEMMA WeakFold ==
    ASSUME NEW V, NEW s
    PROVE  FoldWeakSubRuns(s, V) = MergeTouchingSameOwner((CHOOSE f : Weakening(f, V, s))[DOMAIN s])
<1> DEFINE folded == FoldLeft(LAMBDA rs, n : WeakOne(rs, V), s, s)
<1>1. FoldWeakSubRuns(s, V) = MergeTouchingSameOwner(folded)
    BY DEF FoldWeakSubRuns, WeakOne
<1>2. folded = MapThenFoldSet(LAMBDA x, y : WeakOne(y, V), s, LAMBDA i : s[i],
                              LAMBDA S : Max(S), DOMAIN s)
    BY DEF FoldLeft
<1>3. @ = (CHOOSE f : Weakening(f, V, s))[DOMAIN s]
    BY DEF MapThenFoldSet, Weakening
<1> QED
    BY <1>1, <1>2, <1>3

LEMMA WeakOneIs ==
    ASSUME NEW K, NEW first, NEW last, NEW s \in Tiling(K, first, last), NEW V
    PROVE  WeakOne(s, V) \in Tiling(K, first, last)
<1> DEFINE weak == {i \in DOMAIN s : Cardinality({v.at : v \in OwnEvents(s[i], V)}) < MIN_EVIDENCE_MINUTES}
           m == Min(weak)
           L == Len(s)
<1>1. /\ s \in Seq(Run(K)) /\ s # <<>> /\ Chain(s, FALSE)
      /\ s[1].first = first /\ s[Len(s)].last = last
    BY DEF Tiling
<1>2. DOMAIN s = 1 .. L /\ L \in Nat /\ L >= 1 /\ L = Len(s)
    BY <1>1
<1>3. weak \subseteq 1 .. L
    BY <1>2
<1>4. WeakOne(s, V) = IF L = 1 \/ weak = {} THEN s
                      ELSE IF m = 1 THEN Tail([s EXCEPT ![2].first = s[1].first])
                      ELSE RemoveAt([s EXCEPT ![m - 1].last = s[m].last], m)
    BY DEF WeakOne
<1> HIDE DEF weak
<1>5. weak # {} => m \in 1 .. L
    <2>1. weak \subseteq Int /\ IsFiniteSet(weak)
        <3>1. weak \in SUBSET (1 .. L)
            BY <1>3
        <3>2. IsFiniteSet(weak)
            <4>1. L \in Nat
                BY <1>2
            <4> QED BY <3>1, <4>1, IndicesFinite
        <3> QED BY <1>2, <1>3, <3>2
    <2> QED BY <1>3, <2>1, LeastInt
<1> HIDE DEF m, L
<1>6. ASSUME NEW i \in 1 .. L, NEW j \in {i - 1, i + 1} \cap DOMAIN s
      PROVE  RemoveAt(Given(s, i, j), i) \in Tiling(K, first, last)
    <2> DEFINE u == RemoveAt(Given(s, i, j), i)
    <2>1. /\ u \in Seq(Run(K)) /\ Chain(u, FALSE) /\ Len(u) = L - 1 /\ L > 1
          /\ u[1].first = s[1].first /\ u[L - 1].last = s[L].last
        BY <1>1, <1>2, GivenAway
    <2> HIDE DEF u
    <2>2. u # <<>>
        BY <1>2, <2>1
    <2>3. u \in Tiling(K, first, last)
        BY <1>1, <1>2, <2>1, <2>2 DEF Tiling
    <2> QED BY <2>3 DEF u
<1>7. CASE L = 1 \/ weak = {}
    BY <1>4, <1>7
<1>8. CASE L # 1 /\ weak # {} /\ m = 1
    <2>1. 1 \in 1 .. L /\ 2 \in {1 - 1, 1 + 1} \cap DOMAIN s
        BY <1>2, <1>8
    <2>2. Given(s, 1, 2) = [s EXCEPT ![2].first = s[1].first]
        BY DEF Given
    <2>3. RemoveAt(Given(s, 1, 2), 1) \in Tiling(K, first, last)
        BY <1>6, <2>1
    <2> DEFINE w == Given(s, 1, 2)
    <2>4. w \in Seq(Stretch(K)) /\ w # <<>>
        <3>1. \A i \in 1 .. L : s[i] \in Stretch(K)
            BY <1>1, <1>2 DEF Run
        <3>2. s[1] \in Stretch(K) /\ s[2] \in Stretch(K)
            BY <2>1, <1>2, <3>1
        <3>3. [s[2] EXCEPT !.first = s[1].first] \in Stretch(K)
            BY <3>2 DEF Stretch
        <3>4. w = [i \in 1 .. L |-> IF i = 2 THEN [s[2] EXCEPT !.first = s[1].first] ELSE s[i]]
            BY <1>1, <1>2, <2>2
        <3> HIDE DEF w
        <3>5. w \in [1 .. L -> Stretch(K)]
            BY <3>1, <3>3, <3>4
        <3>6. L \in Nat /\ L >= 1
            BY <1>2
        <3>7. w \in Seq(Stretch(K)) /\ Len(w) = L
            BY <3>5, <3>6, FunctionIsSeq
        <3> QED BY <3>6, <3>7
    <2>5. WeakOne(s, V) = Tail(w)
        BY <1>4, <1>8, <2>2
    <2> HIDE DEF w
    <2>6. Tail(w) = RemoveAt(w, 1)
        BY <2>4, TailIs
    <2> QED BY <2>3, <2>5, <2>6 DEF w
<1>9. CASE L # 1 /\ weak # {} /\ m # 1
    <2>1. m \in 1 .. L /\ m - 1 \in 1 .. L /\ m - 1 < m
        BY <1>2, <1>5, <1>9
    <2>2. Given(s, m, m - 1) = [s EXCEPT ![m - 1].last = s[m].last]
        BY <2>1 DEF Given
    <2>3. m - 1 \in {m - 1, m + 1} \cap DOMAIN s
        BY <1>2, <2>1
    <2>4. RemoveAt(Given(s, m, m - 1), m) \in Tiling(K, first, last)
        BY <1>6, <2>1, <2>3
    <2> QED BY <1>4, <1>9, <2>2, <2>4
<1> QED
    BY <1>7, <1>8, <1>9

LEMMA WeakIs ==
    ASSUME NEW K, NEW first, NEW last, NEW s \in Tiling(K, first, last), NEW V
    PROVE  FoldWeakSubRuns(s, V) \in Tiling(K, first, last)
<1> DEFINE A == Tiling(K, first, last)
           B == Run(K)
           F == [x \in A \X B |-> WeakOne(x[1], V)]
           D == SUBSET (1 .. Len(s))
           P == Nat \X A
<1>1. F \in [A \X B -> A] /\ s \in A
    BY WeakOneIs
<1>2. \A rs \in A, r \in B : F[<<rs, r>>] = WeakOne(rs, V)
    OBVIOUS
<1>3. s \in Seq(B) /\ DOMAIN s = 1 .. Len(s) /\ Len(s) \in Nat
    BY DEF Tiling
<1> HIDE DEF A, F
<1>4. PICK f : LeftFold(f, A, F, s, s)
    BY <1>1, <1>3, LeftExists
<1>5. ASSUME NEW S \in D, S # {}
      PROVE  S \ {Max(S)} \in D /\ s[Max(S)] \in B
    <2>1. Max(S) \in 1 .. Len(s)
        BY <1>3, <1>5, LargestNat
    <2>2. S \ {Max(S)} \in D
        OBVIOUS
    <2> HIDE DEF D, B
    <2>3. s[Max(S)] \in B
        BY <1>3, <2>1
    <2> QED BY <2>2, <2>3
<1>6. Weakening(f, V, s)
    <2>1. f \in [D -> A] /\ \A S \in D : f[S] = Left(f, F, s, s, S)
        BY <1>4 DEF LeftFold
    <2>2. ASSUME NEW S \in D
          PROVE  f[S] = IF S = {} THEN s ELSE WeakOne(f[S \ {Max(S)}], V)
        <3> HIDE DEF D, B
        <3> QED BY <1>2, <1>5, <2>1 DEF Left
    <2> QED BY <1>3, <2>1, <2>2 DEF Weakening
<1> DEFINE g == CHOOSE p : Weakening(p, V, s)
<1>7. Weakening(g, V, s)
    BY <1>6
<1>8. FoldWeakSubRuns(s, V) = MergeTouchingSameOwner(g[1 .. Len(s)])
    BY <1>3, WeakFold
<1> HIDE DEF g
<1>9. Alike(f, g, Len(s))
    BY <1>3, <1>6, <1>7 DEF Weakening, Alike
<1>10. Keeping(P, A, F, s, s)
    <2>1. ASSUME NEW k \in 1 .. Len(s), NEW a \in A
          PROVE  <<k, F[<<a, s[k]>>]>> \in P
        <3>1. s[k] \in B /\ k \in Nat
            BY <1>3
        <3> HIDE DEF B
        <3> QED BY <1>1, <3>1
    <2> QED BY <1>1, <2>1 DEF Keeping
<1> HIDE DEF P, B
<1>11. g[1 .. Len(s)] \in A
    BY <1>1, <1>3, <1>4, <1>9, <1>10, FoldKeeps
<1> QED
    BY <1>8, <1>11, MergeTiles DEF A

LEMMA SplitOneIs ==
    ASSUME NEW V, Votes(V), NEW first \in Int, NEW last \in Int, first <= last
    PROVE  SplitOne(first, last, V) \in Tiling(Keys(V), first, last)
<1> DEFINE K == Keys(V)
           whole == <<[owner |-> First(V).key, first |-> first, last |-> last]>>
           run == Clamped(LaneRuns(V), first, last)
           divided == IF run = <<>> THEN whole ELSE FoldWeakSubRuns(Tile(run, first, last), V)
<1>1. SplitOne(first, last, V) = IF Cardinality(Keys(V)) < 2 THEN whole ELSE divided
    BY DEF SplitOne
<1>2. First(V).key \in K
    <2>1. V \subseteq V /\ V # {}
        BY DEF Votes
    <2> QED BY <2>1, VotesWithin
<1> HIDE DEF K
<1>3. whole \in Tiling(K, first, last)
    <2> DEFINE r == [owner |-> First(V).key, first |-> first, last |-> last]
    <2>1. r \in Run(K) /\ r.first = first /\ r.last = last
        BY <1>2 DEF Run, Stretch
    <2>2. whole = <<r>>
        OBVIOUS
    <2> HIDE DEF r, whole
    <2>3. whole \in Seq(Run(K)) /\ whole # <<>> /\ Len(whole) = 1 /\ whole[1] = r
        BY <2>1, <2>2
    <2>4. Chain(whole, FALSE)
        BY <2>3 DEF Chain
    <2> QED BY <2>1, <2>3, <2>4 DEF Tiling
<1>4. LaneRuns(V) \in Seq(Run(K)) /\ Chain(LaneRuns(V), TRUE)
    BY LanesAre DEF K
<1>5. /\ run \in Seq(Run(K)) /\ Chain(run, TRUE)
      /\ \A m \in 1 .. Len(run) : first <= run[m].first /\ run[m].last <= last
    BY <1>4, ClampedIs
<1> HIDE DEF run, whole
<1>6. ASSUME run # <<>> PROVE FoldWeakSubRuns(Tile(run, first, last), V) \in Tiling(K, first, last)
    <2>1. Tile(run, first, last) \in Tiling(K, first, last)
        BY <1>5, <1>6, TileIs
    <2> QED BY <2>1, WeakIs
<1>7. divided \in Tiling(K, first, last)
    BY <1>3, <1>6
<1> QED
    BY <1>1, <1>3, <1>7 DEF K

Dated(E) ==
    /\ IsFiniteSet(E)
    /\ \A e \in E : /\ e.id \in Int /\ e.at \in Int /\ e.tag \in Int
                    /\ e.project \in Int \cup {Null}
    /\ \A d, e \in E : d.id = e.id => d = e

Ballots(W, k) == {Vote(e, k[e]) : e \in W}

LEMMA BallotsAreVotes ==
    ASSUME NEW E, Dated(E), NEW W, W \subseteq E, W # {},
           NEW k \in [W -> Int \X Int]
    PROVE  Votes(Ballots(W, k))
<1> DEFINE vote(e) == Vote(e, k[e])
           V == {vote(e) : e \in W}
<1>1. IsFiniteSet(W)
    BY FS_Subset DEF Dated
<1>2. \A e \in W : e.id \in Int /\ e.at \in Int
    BY DEF Dated
<1>3. \A d, e \in W : d.id = e.id => d = e
    BY DEF Dated
<1>4. \A e \in W : vote(e).id = e.id /\ vote(e).at = e.at /\ vote(e).key = k[e]
    BY DEF Vote
<1> HIDE DEF vote
<1>5. IsFiniteSet(V)
    <2> DEFINE f == [e \in W |-> vote(e)]
    <2>1. f \in Surjection(W, V)
        BY DEF Surjection
    <2> HIDE DEF f, V
    <2> QED BY <1>1, <2>1, FS_Surjection
<1>6. \A v \in V : v.id \in Int /\ v.at \in Int /\ v.key \in Int \X Int
    BY <1>2, <1>4
<1>7. \A u, v \in V : u.id = v.id => u = v
    BY <1>3, <1>4
<1>8. V # {} /\ Ballots(W, k) = V
    BY DEF Ballots, vote
<1> HIDE DEF V
<1> QED
    BY <1>5, <1>6, <1>7, <1>8 DEF Votes

LEMMA VotersAre ==
    ASSUME NEW E, Dated(E), NEW F, F \subseteq E
    PROVE  /\ Voting(F) \subseteq E
           /\ \A e \in Voting(F) : LaneKey(e) \in Int \X Int /\ LaneFolder(e) \in Int \X Int
BY DEF Voting, Dated, LaneKey, LaneFolder

LEMMA LaneVotes ==
    ASSUME NEW E, Dated(E), NEW F, F \subseteq E, Voting(F) # {}
    PROVE  Votes(KeyedByLane(F)) /\ Keys(KeyedByLane(F)) = {LaneKey(e) : e \in Voting(F)}
<1> DEFINE W == Voting(F)
           k == [e \in W |-> LaneKey(e)]
<1>1. W \subseteq E /\ W # {} /\ k \in [W -> Int \X Int]
    BY VotersAre
<1>2. KeyedByLane(F) = Ballots(W, k)
    BY DEF KeyedByLane, Ballots
<1>3. Keys(KeyedByLane(F)) = {LaneKey(e) : e \in W}
    <2>1. KeyedByLane(F) = {Vote(e, LaneKey(e)) : e \in W}
        BY DEF KeyedByLane
    <2>2. \A e \in W : Vote(e, LaneKey(e)).key = LaneKey(e)
        BY DEF Vote
    <2> HIDE DEF W
    <2> QED BY <2>1, <2>2 DEF Keys
<1> HIDE DEF W, k
<1> QED
    BY <1>1, <1>2, <1>3, BallotsAreVotes DEF W

LEMMA FolderVotes ==
    ASSUME NEW E, Dated(E), Voting(E) # {}
    PROVE  Votes(KeyedByFolder(E))
<1> DEFINE W == Voting(E)
           k == [e \in W |-> LaneFolder(e)]
<1>1. W \subseteq E /\ W # {} /\ k \in [W -> Int \X Int]
    BY VotersAre
<1>2. KeyedByFolder(E) = Ballots(W, k)
    BY DEF KeyedByFolder, Ballots
<1> HIDE DEF W, k
<1> QED
    BY <1>1, <1>2, BallotsAreVotes

Lends(own, E) == own \subseteq E /\ own # {} /\ \A e \in own : e.project # Null

PieceOf(b, S) ==
    /\ DOMAIN b = {"start", "end", "ticket", "cal", "events"}
    /\ b.start \in Int /\ b.end \in Int /\ b.start < b.end
    /\ b.cal = FALSE /\ b.events \subseteq S
    /\ \E e \in b.events : e.project # Null

OneBlock(span, start, end, S) ==
    \E b : span = <<b>> /\ b.start = start /\ b.end = end /\ PieceOf(b, S)

(* With a folder's events to borrow from, a span is always one block. *)
LEMMA SpanIsOne ==
    ASSUME NEW E, Dated(E), NEW S, NEW own, Lends(own, E),
           NEW start \in Int, NEW end \in Int, start < end
    PROVE  OneBlock(SpanBlock(S, start, end, own, TRUE), start, end, S \cup own)
<1> DEFINE located(F) == {e \in F : e.project # Null}
           closer(d, e) == \/ Distance(d.at, start) < Distance(e.at, start)
                           \/ Distance(d.at, start) = Distance(e.at, start) /\ Earlier(d, e)
           nearest == {e \in located(own) : \A d \in located(own) \ {e} : closer(e, d)}
           events == IF located(S) = {} THEN S \cup nearest ELSE S
           b == [start |-> start, end |-> end, ticket |-> UniqueTicket(events),
                 cal |-> FALSE, events |-> events]
<1>1. SpanBlock(S, start, end, own, TRUE)
        = IF located(events) = {} \/ end <= start \/ TooThin(start, end, TRUE) THEN <<>> ELSE <<b>>
    BY DEF SpanBlock
<1>2. /\ located(own) = own /\ own \subseteq E /\ own # {}
      /\ \A e \in own : e.project # Null
    BY DEF Lends
<1>3. nearest # {}
    <2> DEFINE R == {p \in own \X own : closer(p[1], p[2])}
    <2>1. \A d, e \in own : <<d, e>> \in R <=> closer(d, e)
        OBVIOUS
    <2>2. \A e \in own : e.id \in Int /\ e.at \in Int /\ Distance(e.at, start) \in Int
        <3> TAKE e \in own
        <3>1. e.id \in Int /\ e.at \in Int
            BY <1>2 DEF Dated
        <3>2. e.at - start \in Int /\ start - e.at \in Int
            BY <3>1
        <3>3. Distance(e.at, start) \in {e.at - start, start - e.at}
            <4> DEFINE x == e.at - start
                       y == start - e.at
            <4>1. x \in Int /\ y \in Int
                BY <3>2
            <4> HIDE DEF x, y
            <4>2. Max({x, y}) \in {x, y}
                BY <4>1, MaxOfTwo
            <4> QED BY <4>2 DEF Distance, x, y
        <3> QED BY <3>1, <3>2, <3>3
    <2>3. \A d, e \in own : d.id = e.id => d = e
        BY <1>2 DEF Dated
    <2>4. IsFiniteSet(own)
        BY <1>2, FS_Subset DEF Dated
    <2>5. Orders(R, own)
        <3> DEFINE far(e) == Distance(e.at, start)
        <3>1. \A d, e \in own : /\ <<d, e>> \in R <=> \/ far(d) < far(e)
                                                      \/ far(d) = far(e) /\ d.at < e.at
                                                      \/ far(d) = far(e) /\ d.at = e.at /\ d.id < e.id
            BY <2>1 DEF Earlier
        <3>2. \A e \in own : e.id \in Int /\ e.at \in Int /\ far(e) \in Int
            BY <2>2
        <3> HIDE DEF far, R
        <3>3. \A x \in own : <<x, x>> \notin R
            BY <3>1, <3>2
        <3>4. \A x, y, z \in own : <<x, y>> \in R /\ <<y, z>> \in R => <<x, z>> \in R
            BY <3>1, <3>2
        <3>5. ASSUME NEW x \in own, NEW y \in own, x # y
              PROVE  <<x, y>> \in R \/ <<y, x>> \in R
            <4>1. x.id # y.id
                BY <2>3, <3>5
            <4> DEFINE fx == far(x)
                       fy == far(y)
            <4>2. /\ x.id \in Int /\ x.at \in Int /\ fx \in Int
                  /\ y.id \in Int /\ y.at \in Int /\ fy \in Int
                BY <3>2
            <4>3. /\ <<x, y>> \in R <=> \/ fx < fy \/ (fx = fy /\ x.at < y.at)
                                         \/ (fx = fy /\ x.at = y.at /\ x.id < y.id)
                  /\ <<y, x>> \in R <=> \/ fy < fx \/ (fy = fx /\ y.at < x.at)
                                         \/ (fy = fx /\ y.at = x.at /\ y.id < x.id)
                BY <3>1
            <4> HIDE DEF fx, fy
            <4> QED BY <4>1, <4>2, <4>3
        <3> QED BY <3>3, <3>4, <3>5 DEF Orders
    <2> HIDE DEF R
    <2>6. \E e \in own : \A d \in own \ {e} : <<e, d>> \in R
        <3>1. /\ \E x \in own : \A y \in own \ {x} : <<x, y>> \in R
              /\ \E x \in own : \A y \in own \ {x} : <<y, x>> \in R
            BY <1>2, <2>4, <2>5, EndsExist
        <3> QED BY <3>1
    <2>7. \E e \in own : \A d \in own \ {e} : closer(e, d)
        <3> HIDE DEF closer
        <3> QED BY <2>1, <2>6
    <2> HIDE DEF closer
    <2> QED BY <1>2, <2>7
<1>4. nearest \subseteq own
    BY <1>2
<1> HIDE DEF nearest
<1>5. located(events) # {}
    BY <1>2, <1>3, <1>4
<1>6. ~TooThin(start, end, TRUE) /\ ~(end <= start)
    BY DEF TooThin
<1>7. events \subseteq S \cup own
    BY <1>4
<1> HIDE DEF events
<1>8. /\ DOMAIN b = {"start", "end", "ticket", "cal", "events"}
      /\ b.start = start /\ b.end = end /\ b.events = events /\ b.cal = FALSE
    OBVIOUS
<1>9. SpanBlock(S, start, end, own, TRUE) = <<b>>
    BY <1>1, <1>5, <1>6
<1> HIDE DEF b
<1> QED
    BY <1>5, <1>7, <1>8, <1>9 DEF OneBlock, PieceOf

LEMMA SinglesFlat ==
    ASSUME NEW n \in Nat, n # 0, NEW q
    PROVE  FlattenSeq([i \in 1 .. n |-> <<q[i]>>]) = [i \in 1 .. n |-> q[i]]
<1> DEFINE seqs == [i \in 1 .. n |-> <<q[i]>>]
           g == [i \in 1 .. n |-> [j \in 1 .. i |-> q[j]]]
           f == CHOOSE h : Flattens(h, seqs)
<1>1. Len(seqs) = n
    OBVIOUS
<1>2. FlattenSeq(seqs) = f[n]
    <2>1. FlattenSeq(seqs) = IF Len(seqs) = 0 THEN seqs ELSE f[Len(seqs)]
        BY DEF FlattenSeq, Flattens
    <2> HIDE DEF f, seqs
    <2> QED BY <1>1, <2>1
<1>3. \A i \in 1 .. n : seqs[i] = <<q[i]>>
    OBVIOUS
<1>4. ASSUME NEW i \in 1 .. n PROVE g[i] = IF i = 1 THEN seqs[i] ELSE g[i - 1] \o seqs[i]
    <2>1. CASE i = 1
        <3>1. [j \in 1 .. 1 |-> q[j]] = <<q[1]>>
            OBVIOUS
        <3>2. g[i] = [j \in 1 .. 1 |-> q[j]]
            BY <2>1
        <3> QED BY <1>3, <2>1, <3>1, <3>2
    <2>2. CASE i # 1
        <3>1. i - 1 \in 1 .. n /\ i \in Nat /\ i - 1 \in Nat
            BY <2>2
        <3> DEFINE a == [j \in 1 .. i - 1 |-> q[j]]
                   c == [j \in 1 .. i |-> q[j]]
        <3>2. g[i - 1] = a /\ g[i] = c
            BY <3>1
        <3>3. a \o <<q[i]>> = c
            <4> DEFINE T == {q[j] : j \in 1 .. i}
            <4>1. a \in Seq(T) /\ Len(a) = i - 1 /\ \A j \in 1 .. i - 1 : a[j] = q[j]
                BY <3>1
            <4>2. c \in Seq(T) /\ Len(c) = i /\ \A j \in 1 .. i : c[j] = q[j]
                BY <3>1
            <4> HIDE DEF a, c
            <4>3. <<q[i]>> \in Seq(T)
                BY <3>1
            <4> DEFINE d == a \o <<q[i]>>
            <4>4. d \in Seq(T) /\ Len(d) = i /\ \A j \in 1 .. i : d[j] = q[j]
                BY <3>1, <4>1, <4>3
            <4> HIDE DEF d, T
            <4>5. Len(d) = Len(c) /\ \A j \in 1 .. Len(d) : d[j] = c[j]
                BY <4>2, <4>4
            <4>6. d \in Seq(T) /\ c \in Seq(T)
                BY <4>2, <4>4
            <4>7. d = c
                BY <4>5, <4>6
            <4> QED BY <4>7 DEF d
        <3> HIDE DEF a, c, g
        <3> QED BY <1>3, <2>2, <3>2, <3>3
    <2> QED BY <2>1, <2>2
<1>5. Flattens(g, seqs)
    <2>1. g = [i \in 1 .. n |-> g[i]]
        OBVIOUS
    <2> HIDE DEF g, seqs
    <2> QED BY <1>1, <1>4, <2>1 DEF Flattens
<1>6. Flattens(f, seqs)
    BY <1>5
<1>7. g[n] = [i \in 1 .. n |-> q[i]] /\ n \in 1 .. n
    OBVIOUS
<1> HIDE DEF f, g, seqs
<1> DEFINE Bad == {i \in 1 .. n : f[i] # g[i]}
<1>8. Bad = {}
    <2> SUFFICES ASSUME Bad # {} PROVE FALSE
        OBVIOUS
    <2>1. PICK i \in Bad : \A j \in Bad : i <= j
        <3>1. Bad \in SUBSET Nat
            OBVIOUS
        <3> HIDE DEF Bad
        <3> QED BY <3>1, SmallestNat
    <2>2. /\ f[i] = IF i = 1 THEN seqs[i] ELSE f[i - 1] \o seqs[i]
          /\ g[i] = IF i = 1 THEN seqs[i] ELSE g[i - 1] \o seqs[i]
        BY <1>1, <1>5, <1>6, <2>1 DEF Flattens
    <2>3. i # 1
        BY <2>1, <2>2
    <2>4. i - 1 \in 1 .. n /\ ~(i <= i - 1)
        BY <2>1, <2>3
    <2>5. f[i - 1] = g[i - 1]
        BY <2>1, <2>4
    <2> QED BY <2>1, <2>2, <2>5
<1> QED
    BY <1>2, <1>7, <1>8 DEF seqs

(* One piece after the other, from b's first minute to its last.           *)
Divides(pieces, b) ==
    /\ pieces # <<>>
    /\ pieces[1].start = b.start /\ pieces[Len(pieces)].end = b.end
    /\ \A i \in 1 .. Len(pieces) : /\ pieces[i].start < pieces[i].end
                                   /\ \E e \in pieces[i].events : e.project # Null
    /\ \A i \in 1 .. Len(pieces) - 1 : pieces[i].end = pieces[i + 1].start

FolderBlock(b, E) ==
    /\ b.start \in Int /\ b.end \in Int /\ b.start < b.end
    /\ b.events \subseteq E /\ \A e \in b.events : ~e.cal
    /\ \E e \in b.events : e.project # Null

(* Each piece is b itself, or a block of S's events.                       *)
Parts(pieces, b, S) ==
    /\ pieces \in Seq(ToSet(pieces))
    /\ \A x \in ToSet(pieces) : x = b \/ PieceOf(x, S)

LEMMA ItselfDivides ==
    ASSUME NEW E, NEW b, FolderBlock(b, E), NEW S
    PROVE  Divides(<<b>>, b) /\ Parts(<<b>>, b, S)
<1> DEFINE s == <<b>>
<1>1. s # <<>> /\ Len(s) = 1 /\ s[1] = b /\ s \in Seq({b}) /\ DOMAIN s = {1}
    OBVIOUS
<1> HIDE DEF s
<1>2. Divides(s, b)
    BY <1>1 DEF Divides, FolderBlock
<1>3. ToSet(s) = {b}
    BY <1>1 DEF ToSet
<1> QED
    BY <1>1, <1>2, <1>3 DEF s, Parts

LEMMA AmongDivides ==
    ASSUME NEW E, Dated(E), NEW b, FolderBlock(b, E), NEW F, F \subseteq E,
           \A e \in F : e.project # Null,
           NEW K, \A k \in K : \E e \in F : LaneKey(e) = k,
           NEW subs \in Tiling(K, b.start, b.end - 1)
    PROVE  /\ Divides(DivideAmong(subs, b, F), b)
           /\ Parts(DivideAmong(subs, b, F), b, b.events \cup F)
<1> DEFINE N == Len(subs)
           share(i) == {e \in b.events : SubRunFor(subs, e) = {i}}
           own(i) == {e \in F : LaneKey(e) = subs[i].owner}
           piece(i) == SpanBlock(share(i), subs[i].first, subs[i].last + 1, own(i), TRUE)
           flat == FlattenSeq([i \in DOMAIN subs |-> piece(i)])
           Cuts(x, i) == /\ x.start = subs[i].first /\ x.end = subs[i].last + 1
                         /\ PieceOf(x, b.events \cup F)
           q == [i \in 1 .. N |-> CHOOSE x : piece(i) = <<x>> /\ Cuts(x, i)]
<1>1. DivideAmong(subs, b, F) = IF Len(subs) = 1 /\ share(1) = b.events THEN <<b>> ELSE flat
    BY DEF DivideAmong
<1>2. /\ subs \in Seq(Run(K)) /\ subs # <<>> /\ Chain(subs, FALSE)
      /\ subs[1].first = b.start /\ subs[Len(subs)].last = b.end - 1
    BY DEF Tiling
<1>3. DOMAIN subs = 1 .. N /\ N \in Nat /\ N # 0
    BY <1>2
<1>4. \A i \in 1 .. N : subs[i] \in Run(K)
    BY <1>2
<1>5. \A i \in 1 .. N : /\ subs[i].owner \in K /\ subs[i].first \in Int /\ subs[i].last \in Int
                        /\ subs[i].first <= subs[i].last
    BY <1>4 DEF Run, Stretch
<1>6. \A i \in 1 .. N - 1 : subs[i].last + 1 = subs[i + 1].first
    BY <1>2 DEF Chain
<1>7. ASSUME NEW i \in 1 .. N
      PROVE  \E x : piece(i) = <<x>> /\ Cuts(x, i)
    <2> DEFINE O == own(i)
               from == subs[i].first
               to == subs[i].last + 1
    <2>1. O \subseteq E /\ O # {} /\ \A e \in O : e.project # Null
        BY <1>5
    <2>2. Lends(O, E)
        <3> HIDE DEF O
        <3> QED BY <2>1 DEF Lends
    <2>3. from \in Int /\ to \in Int /\ from < to
        BY <1>5
    <2>4. piece(i) = SpanBlock(share(i), from, to, O, TRUE)
        OBVIOUS
    <2>5. share(i) \cup O \subseteq b.events \cup F
        OBVIOUS
    <2> HIDE DEF share, O, from, to, piece
    <2>6. OneBlock(piece(i), from, to, share(i) \cup O)
        BY <2>2, <2>3, <2>4, SpanIsOne
    <2>7. \A x : PieceOf(x, share(i) \cup O) => PieceOf(x, b.events \cup F)
        BY <2>5 DEF PieceOf
    <2> QED BY <2>6, <2>7 DEF OneBlock, from, to
<1> HIDE DEF N, piece, share, Cuts
<1>8. \A i \in 1 .. N : piece(i) = <<q[i]>> /\ Cuts(q[i], i)
    BY <1>7
<1>9. [i \in DOMAIN subs |-> piece(i)] = [i \in 1 .. N |-> <<q[i]>>]
    BY <1>3, <1>8
<1>10. q = [i \in 1 .. N |-> q[i]]
    OBVIOUS
<1> HIDE DEF q
<1>11. flat = q
    BY <1>3, <1>9, <1>10, SinglesFlat
<1> HIDE DEF flat
<1>12. Len(q) = N /\ q # <<>>
    <2> DEFINE T == {q[i] : i \in 1 .. N}
    <2>1. q \in [1 .. N -> T]
        BY <1>10
    <2> HIDE DEF T
    <2>2. N \in Nat /\ q \in Seq(T) /\ Len(q) = N
        BY <1>3, <2>1, FunctionIsSeq
    <2> QED BY <1>3, <2>2
<1>13. Divides(q, b)
    <2>1. \A i \in 1 .. N : /\ q[i].start = subs[i].first /\ q[i].end = subs[i].last + 1
                            /\ \E e \in q[i].events : e.project # Null
        BY <1>8 DEF Cuts, PieceOf
    <2>2. 1 \in 1 .. N /\ N \in 1 .. N
        BY <1>3
    <2>3. b.end \in Int
        BY DEF FolderBlock
    <2>4. q[1].start = b.start /\ q[N].end = b.end
        BY <1>2, <2>1, <2>2, <2>3 DEF N
    <2>5. \A i \in 1 .. N : q[i].start < q[i].end
        BY <1>5, <2>1
    <2>6. \A i \in 1 .. N - 1 : q[i].end = q[i + 1].start
        <3> TAKE i \in 1 .. N - 1
        <3>1. i \in 1 .. N /\ i + 1 \in 1 .. N
            BY <1>3, OfTwoInTurn
        <3> QED BY <1>6, <2>1, <3>1
    <2> QED BY <1>12, <2>1, <2>4, <2>5, <2>6 DEF Divides
<1>14. Parts(q, b, b.events \cup F)
    <2>1. q \in Seq(ToSet(q)) /\ \A x \in ToSet(q) : \E i \in 1 .. N : x = q[i]
        <3>1. q \in [1 .. N -> ToSet(q)] /\ DOMAIN q = 1 .. N
            BY <1>10 DEF ToSet
        <3> QED BY <1>3, <3>1, FunctionIsSeq DEF ToSet
    <2> QED BY <1>8, <2>1 DEF Parts, Cuts
<1> QED
    BY <1>1, <1>11, <1>13, <1>14, ItselfDivides

OfFolder(p, E) == {e \in E : ~e.cal /\ e.project = p}

LEMMA DivideIs ==
    ASSUME NEW E, Dated(E), NEW b, FolderBlock(b, E)
    PROVE  \E p : /\ p # Null /\ \E e \in b.events : e.project = p
                  /\ Divides(DivideBlock(b, E), b)
                  /\ Parts(DivideBlock(b, E), b, b.events \cup OfFolder(p, E))
<1> DEFINE first == First({e \in b.events : e.project # Null})
           folder == first.project
           F == {e \in E : ~e.cal /\ e.project = folder}
           V == KeyedByLane(F)
           subs == SplitOne(b.start, b.end - 1, V)
<1>1. DivideBlock(b, E) = IF \A e \in b.events : e.tag = 0 THEN <<b>> ELSE DivideAmong(subs, b, F)
    BY DEF DivideBlock
<1>2. first \in b.events /\ first \in E /\ ~first.cal /\ first.project # Null
    <2> DEFINE L == {e \in b.events : e.project # Null}
    <2>1. L \subseteq b.events /\ L \subseteq E /\ L # {} /\ \A e \in L : ~e.cal /\ e.project # Null
        BY DEF FolderBlock
    <2>2. IsFiniteSet(L)
        BY <2>1, FS_Subset DEF Dated
    <2>3. First(L) \in L
        <3> HIDE DEF L
        <3>1. /\ \A e \in L : e.id \in Int /\ e.at \in Int
              /\ \A d, e \in L : d.id = e.id => d = e
            BY <2>1 DEF Dated
        <3> QED BY <2>1, <2>2, <3>1, LatestIs
    <2> HIDE DEF L
    <2> QED BY <2>1, <2>3 DEF L
<1> HIDE DEF first
<1>3. F = OfFolder(folder, E) /\ F \subseteq E /\ first \in F /\ \A e \in F : ~e.cal /\ e.project # Null
    BY <1>2 DEF OfFolder
<1> HIDE DEF F
<1>4. Voting(F) = F
    BY <1>3 DEF Voting
<1>5. Votes(V) /\ Keys(V) = {LaneKey(e) : e \in F}
    BY <1>3, <1>4, LaneVotes
<1> HIDE DEF V
<1>6. b.start \in Int /\ b.end - 1 \in Int /\ b.start <= b.end - 1
    BY DEF FolderBlock
<1>7. subs \in Tiling(Keys(V), b.start, b.end - 1)
    BY <1>5, <1>6, SplitOneIs
<1> HIDE DEF subs
<1>8. \A k \in Keys(V) : \E e \in F : LaneKey(e) = k
    BY <1>5
<1>9. /\ Divides(DivideAmong(subs, b, F), b)
      /\ Parts(DivideAmong(subs, b, F), b, b.events \cup F)
    BY <1>3, <1>7, <1>8, AmongDivides
<1>10. /\ Divides(DivideBlock(b, E), b)
       /\ Parts(DivideBlock(b, E), b, b.events \cup F)
    BY <1>1, <1>9, ItselfDivides
<1> QED
    BY <1>2, <1>3, <1>10

(* Customers only divide a folder's minutes.  The pieces a folder's block  *)
(* is cut into follow one another without a gap from its first minute to   *)
(* its last: no minute is lost, none is two customers', and each piece has *)
(* an event of the folder to show, its own or the nearest of its customer. *)
(* (divide_block, tile: "the sub-runs still tile [s, e] exactly")          *)
THEOREM CustomersDivide ==
    ASSUME NEW E, Dated(E), NEW b, FolderBlock(b, E)
    PROVE  Divides(DivideBlock(b, E), b)
BY DivideIs

-----------------------------------------------------------------------------
(* The days the collectors bring, up to where they are cut.                *)

DayRow(e) ==
    /\ DOMAIN e = Fields /\ e.id \in Int /\ e.at \in Int
    /\ e.until \in Int /\ e.cal \in BOOLEAN
    /\ e.project \in Int \cup {Null} /\ e.customer \in Int /\ e.tag \in Int
    /\ e.cal => e.project = Null /\ e.session = Null /\ e.tag = 0

DayRows(E) ==
    /\ IsFiniteSet(E) /\ \A e \in E : DayRow(e)
    /\ \A d, e \in E : d.id = e.id => d = e

LEMMA MappedRows ==
    ASSUME NEW E, DayRows(E), NEW h, \A e \in E : DayRow(h[e]) /\ h[e].id = e.id
    PROVE  DayRows({h[e] : e \in E})
<1> DEFINE S == {h[e] : e \in E}
           g == [e \in E |-> h[e]]
<1>1. IsFiniteSet(S)
    <2>1. g \in Surjection(E, S)
        BY DEF Surjection
    <2> HIDE DEF g, S
    <2> QED BY <2>1, FS_Surjection DEF DayRows
<1>2. \A d \in S : DayRow(d)
    OBVIOUS
<1>3. \A c, d \in S : c.id = d.id => c = d
    BY DEF DayRows
<1> QED
    BY <1>1, <1>2, <1>3 DEF DayRows

LEMMA LocatedIs ==
    ASSUME NEW E, DayRows(E)
    PROVE  DayRows(Located(E))
<1> DEFINE of(e) == {d \in E : d.session = e.session /\ d.project # Null}
           before(e) == {d \in of(e) : Earlier(d, e)}
           folder(e) == IF e.project # Null \/ e.session = Null \/ of(e) = {} THEN e.project
                        ELSE IF before(e) # {} THEN Latest(before(e)).project
                        ELSE First(of(e)).project
           h == [e \in E |-> [e EXCEPT !.project = folder(e)]]
<1>1. Located(E) = {h[e] : e \in E}
    BY DEF Located
<1>2. ASSUME NEW S, S \subseteq E, S # {}
      PROVE  Latest(S).project \in Int \cup {Null} /\ First(S).project \in Int \cup {Null}
    <2>1. IsFiniteSet(S)
        BY <1>2, FS_Subset DEF DayRows
    <2>2. /\ \A e \in S : e.id \in Int /\ e.at \in Int
          /\ \A d, e \in S : d.id = e.id => d = e
        BY <1>2 DEF DayRows, DayRow
    <2>3. Latest(S) \in S /\ First(S) \in S
        BY <1>2, <2>1, <2>2, LatestIs
    <2> QED BY <1>2, <2>3 DEF DayRows, DayRow
<1>3. ASSUME NEW e \in E PROVE folder(e) \in Int \cup {Null}
    <2>1. e.project \in Int \cup {Null}
        BY DEF DayRows, DayRow
    <2>2. of(e) \subseteq E /\ before(e) \subseteq E
        OBVIOUS
    <2> DEFINE before_ == before(e)
               of_ == of(e)
    <2>3. before_ # {} => Latest(before_).project \in Int \cup {Null}
        BY <1>2, <2>2
    <2>4. of_ # {} => First(of_).project \in Int \cup {Null}
        BY <1>2, <2>2
    <2> HIDE DEF before, of
    <2> QED BY <2>1, <2>3, <2>4
<1>4. ASSUME NEW e \in E PROVE DayRow(h[e]) /\ h[e].id = e.id
    <2> DEFINE p == folder(e)
    <2>1. p \in Int \cup {Null} /\ h[e] = [e EXCEPT !.project = p]
        BY <1>3
    <2>2. DayRow(e)
        BY DEF DayRows
    <2>3. e.session = Null => p = e.project
        OBVIOUS
    <2> HIDE DEF p, h
    <2> DEFINE d == [e EXCEPT !.project = p]
    <2>4. /\ DOMAIN d = Fields /\ d.id = e.id /\ d.at = e.at /\ d.until = e.until
          /\ d.cal = e.cal /\ d.project = p /\ d.session = e.session
          /\ d.customer = e.customer /\ d.tag = e.tag
        BY <2>2 DEF DayRow, Fields
    <2> HIDE DEF d
    <2>5. DayRow(d) /\ d.id = e.id
        BY <2>1, <2>2, <2>3, <2>4 DEF DayRow
    <2> QED BY <2>1, <2>5 DEF d
<1> HIDE DEF h
<1> QED
    BY <1>1, <1>4, MappedRows

LEMMA TaggedIs ==
    ASSUME NEW E, DayRows(E)
    PROVE  DayRows(Tagged(E))
<1> DEFINE customers(e) == {d.customer : d \in {c \in E : c.project = e.project
                                                          /\ c.session # Null}} \ {0}
           several(e) == e.session # Null /\ Cardinality(customers(e)) >= 2
           h == [e \in E |-> IF several(e) THEN [e EXCEPT !.tag = e.customer] ELSE e]
<1>1. Tagged(E) = {h[e] : e \in E}
    BY DEF Tagged
<1> HIDE DEF several
<1>2. ASSUME NEW e \in E PROVE DayRow(h[e]) /\ h[e].id = e.id
    <2>1. DayRow(e)
        BY DEF DayRows
    <2>2. several(e) => e.session # Null
        BY DEF several
    <2> DEFINE d == [e EXCEPT !.tag = e.customer]
    <2>3. /\ DOMAIN d = Fields /\ d.id = e.id /\ d.at = e.at /\ d.until = e.until
          /\ d.cal = e.cal /\ d.project = e.project /\ d.session = e.session
          /\ d.customer = e.customer /\ d.tag = e.customer
        BY <2>1 DEF DayRow, Fields
    <2>4. h[e] = IF several(e) THEN d ELSE e
        OBVIOUS
    <2> HIDE DEF d, h
    <2>5. several(e) => DayRow(d)
        BY <2>1, <2>2, <2>3 DEF DayRow
    <2> QED BY <2>1, <2>3, <2>4, <2>5
<1> HIDE DEF h
<1> QED
    BY <1>1, <1>2, MappedRows

(* What the lanes are made of. *)
DayEvents == {e \in Counted(Tagged(Located(collected))) : ~Rides(e)}

LEMMA DayIsDated ==
    ASSUME Known
    PROVE  Dated(DayEvents)
<1>1. DayRows(collected)
    BY BatchesAssumption DEF Known, DayRows, DayRow
<1> DEFINE E == Tagged(Located(collected))
<1>2. DayRows(E)
    BY <1>1, LocatedIs, TaggedIs
<1>3. DayEvents \subseteq E
    BY DEF DayEvents, Counted
<1> HIDE DEF E
<1>4. IsFiniteSet(DayEvents)
    BY <1>2, <1>3, FS_Subset DEF DayRows
<1> QED
    BY <1>2, <1>3, <1>4 DEF DayRows, DayRow, Dated

InStretch(r, E) == {e \in E : ~e.cal /\ LaneFolder(e) = r.owner /\ e.at \in r.first .. r.last}

(* The block of a stretch, when it is worth one. *)
StretchKept(r, b, E) ==
    /\ b.start = r.first /\ b.end = r.last + 1
    /\ FolderBlock(b, E) /\ PieceOf(b, InStretch(r, E))

LEMMA StretchBlockIs ==
    ASSUME NEW E, NEW K, NEW r \in Run(K)
    PROVE  /\ StretchBlock(r, E) \in Seq(ToSet(StretchBlock(r, E)))
           /\ \A b \in ToSet(StretchBlock(r, E)) : StretchKept(r, b, E)
<1> DEFINE bucket == InStretch(r, E)
           located(F) == {e \in F : e.project # Null}
           start == r.first
           end == r.last + 1
           closer(d, e) == \/ Distance(d.at, start) < Distance(e.at, start)
                           \/ Distance(d.at, start) = Distance(e.at, start) /\ Earlier(d, e)
           nearest == {e \in located({}) : \A d \in located({}) \ {e} : closer(e, d)}
           events == IF located(bucket) = {} THEN bucket \cup nearest ELSE bucket
           b == [start |-> start, end |-> end, ticket |-> UniqueTicket(events),
                 cal |-> FALSE, events |-> events]
<1>1. StretchBlock(r, E) \in {<<>>, SpanBlock(bucket, start, end, {}, FALSE)}
    BY DEF StretchBlock, InStretch
<1>2. SpanBlock(bucket, start, end, {}, FALSE)
        = IF located(events) = {} \/ end <= start \/ TooThin(start, end, FALSE) THEN <<>> ELSE <<b>>
    BY DEF SpanBlock
<1>3. nearest = {}
    OBVIOUS
<1>4. events = bucket
    BY <1>3
<1>5. start \in Int /\ end \in Int /\ start < end
    BY DEF Run, Stretch
<1>6. bucket \subseteq E /\ \A e \in bucket : ~e.cal
    BY DEF InStretch
<1>7. /\ DOMAIN b = {"start", "end", "ticket", "cal", "events"} /\ b.cal = FALSE
      /\ b.start = start /\ b.end = end /\ b.events = events
    OBVIOUS
<1> HIDE DEF b, events, nearest, bucket
<1>8. located(events) # {} => StretchKept(r, b, E)
    <2> SUFFICES ASSUME located(events) # {} PROVE StretchKept(r, b, E)
        OBVIOUS
    <2>1. \E e \in b.events : e.project # Null
        BY <1>7
    <2> QED BY <1>4, <1>5, <1>6, <1>7, <2>1 DEF StretchKept, FolderBlock, PieceOf, bucket
<1>9. StretchBlock(r, E) \in {<<>>, <<b>>} /\ (StretchBlock(r, E) = <<b>> => located(events) # {})
    <2>1. <<b>> # <<>>
        OBVIOUS
    <2> HIDE DEF located
    <2> DEFINE span == SpanBlock(bucket, start, end, {}, FALSE)
    <2>2. span = <<>> \/ (span = <<b>> /\ located(events) # {})
        BY <1>2
    <2>3. StretchBlock(r, E) = <<>> \/ StretchBlock(r, E) = span
        BY <1>1
    <2> HIDE DEF span
    <2> QED BY <2>1, <2>2, <2>3
<1>10. ToSet(<<>>) = {} /\ ToSet(<<b>>) = {b} /\ <<>> \in Seq({}) /\ <<b>> \in Seq({b})
    BY DEF ToSet
<1> QED
    BY <1>8, <1>9, <1>10

DayIsDivided ==
    LET runs == LaneRuns(KeyedByFolder(DayEvents))
    IN  Voting(DayEvents) # {} =>
            /\ OneOwner(runs, Keys(KeyedByFolder(DayEvents)))
            /\ \A i \in DOMAIN runs : \A b \in ToSet(StretchBlock(runs[i], DayEvents)) :
                  /\ b.start = runs[i].first /\ b.end = runs[i].last + 1
                  /\ Divides(DivideBlock(b, DayEvents), b)

(* On every day the collectors can bring, the stretches that become blocks *)
(* share no minute, a stretch's block is as long as the stretch, and its   *)
(* customers' pieces fill it from end to end: no minute of a folder's      *)
(* stretches is lost and none is counted for two, folders or customers.    *)
(* (build_project_blocks, divide_blocks)                                   *)
THEOREM StretchesAreDivided == Spec => []DayIsDivided
<1>1. ASSUME Known PROVE DayIsDivided
    <2> DEFINE E == DayEvents
               V == KeyedByFolder(E)
               runs == LaneRuns(V)
    <2> SUFFICES ASSUME Voting(E) # {}
                 PROVE  /\ OneOwner(runs, Keys(V))
                        /\ \A i \in DOMAIN runs : \A b \in ToSet(StretchBlock(runs[i], E)) :
                              /\ b.start = runs[i].first /\ b.end = runs[i].last + 1
                              /\ Divides(DivideBlock(b, E), b)
        BY DEF DayIsDivided
    <2>1. Dated(E)
        BY <1>1, DayIsDated
    <2> HIDE DEF E
    <2>2. Votes(V)
        BY <2>1, FolderVotes
    <2>3. OneOwner(runs, Keys(V)) /\ runs \in Seq(Run(Keys(V)))
        BY <2>2, OneOwnerAMinute, LanesAre
    <2> HIDE DEF runs, V
    <2>4. ASSUME NEW i \in DOMAIN runs, NEW b \in ToSet(StretchBlock(runs[i], E))
          PROVE  /\ b.start = runs[i].first /\ b.end = runs[i].last + 1
                 /\ Divides(DivideBlock(b, E), b)
        <3>1. runs[i] \in Run(Keys(V))
            BY <2>3
        <3>2. StretchKept(runs[i], b, E)
            BY <3>1, StretchBlockIs
        <3> QED BY <2>1, <3>2, CustomersDivide DEF StretchKept
    <2> QED BY <2>3, <2>4
<1> QED
    BY <1>1, DaysAreKnown, PTL

-----------------------------------------------------------------------------
(* Blocks in a row, and rows of rows. *)

LEMMA FlatIs ==
    ASSUME NEW T, NEW ss \in Seq(Seq(T))
    PROVE  /\ FlattenSeq(ss) \in Seq(T)
           /\ ToSet(FlattenSeq(ss)) = UNION {ToSet(ss[i]) : i \in DOMAIN ss}
<1> DEFINE A == Seq(T)
           F == [x \in A \X A |-> x[1] \o x[2]]
           n == Len(ss)
           f == CHOOSE h : Flattens(h, ss)
<1>0. n \in Nat /\ DOMAIN ss = 1 .. n /\ \A i \in 1 .. n : ss[i] \in A
    OBVIOUS
<1>1. F \in [A \X A -> A] /\ <<>> \in A
    OBVIOUS
<1>2. \A a, c \in A : F[<<a, c>>] = a \o c
    OBVIOUS
<1>3. FlattenSeq(ss) = IF n = 0 THEN ss ELSE f[n]
    BY DEF FlattenSeq, Flattens
<1>4. ss \in Seq(A)
    OBVIOUS
<1> HIDE DEF F, n
<1>5. PICK e : LeftFold(e, A, F, <<>>, ss)
    BY <1>1, <1>4, LeftExists
<1>6. PICK h : Steps(h, e, A, F, <<>>, ss)
    BY <1>1, <1>4, <1>5, LeftPrefixes
<1>7. /\ h \in [0 .. n -> A] /\ h[0] = <<>>
      /\ \A k \in 1 .. n : h[k] = F[<<h[k - 1], ss[k]>>]
    BY <1>6 DEF Steps, n
<1>8. ASSUME NEW k \in 1 .. n
      PROVE  k - 1 \in 0 .. n /\ h[k - 1] \in A /\ h[k] = h[k - 1] \o ss[k] /\ h[k] \in A
    <2>1. k - 1 \in 0 .. n /\ k \in 0 .. n
        BY <1>0
    <2>2. h[k - 1] \in A /\ h[k] \in A
        BY <1>7, <2>1
    <2> QED BY <1>0, <1>2, <1>7, <2>1, <2>2
<1> DEFINE g == [i \in 1 .. n |-> h[i]]
<1>9. Flattens(g, ss)
    <2>1. ASSUME NEW i \in 1 .. n
          PROVE  g[i] = IF i = 1 THEN ss[i] ELSE g[i - 1] \o ss[i]
        <3>1. CASE i = 1
            <4>1. h[1] = h[0] \o ss[1] /\ ss[1] \in A
                BY <1>0, <1>8, <3>1
            <4>2. <<>> \o ss[1] = ss[1]
                BY <4>1
            <4> QED BY <1>7, <3>1, <4>1, <4>2
        <3>2. CASE i # 1
            <4>1. i - 1 \in 1 .. n
                BY <1>0, <3>2
            <4> QED BY <1>8, <3>2, <4>1
        <3> QED BY <3>1, <3>2
    <2> QED BY <2>1 DEF Flattens, n
<1>10. Flattens(f, ss)
    BY <1>9
<1>11. \A i \in 1 .. n : f[i] = IF i = 1 THEN ss[i] ELSE f[i - 1] \o ss[i]
    BY <1>10 DEF Flattens, n
<1> HIDE DEF f, g
<1> DEFINE All(k) == UNION {ToSet(ss[i]) : i \in 1 .. k}
           Bad == {k \in 1 .. n : ~(f[k] \in A /\ ToSet(f[k]) = All(k))}
<1>12. ASSUME NEW k \in 1 .. n, k # 1, f[k - 1] \in A, ToSet(f[k - 1]) = All(k - 1)
       PROVE  f[k] \in A /\ ToSet(f[k]) = All(k)
    <2> DEFINE a == f[k - 1]
               c == ss[k]
    <2>1. f[k] = a \o c /\ a \in Seq(T) /\ c \in Seq(T)
        BY <1>0, <1>11, <1>12
    <2> HIDE DEF a, c
    <2>2. a \o c \in Seq(T) /\ ToSet(a \o c) = ToSet(a) \cup ToSet(c)
        <3> DEFINE q == a \o c
        <3>1. /\ q \in Seq(T) /\ Len(q) = Len(a) + Len(c) /\ Len(a) \in Nat /\ Len(c) \in Nat
              /\ \A j \in 1 .. Len(a) : q[j] = a[j]
              /\ \A j \in 1 .. Len(c) : q[Len(a) + j] = c[j]
            BY <2>1, JoinedIs
        <3>2. DOMAIN q = 1 .. Len(q) /\ DOMAIN a = 1 .. Len(a) /\ DOMAIN c = 1 .. Len(c)
            BY <2>1, <3>1
        <3> HIDE DEF q
        <3>3. \A j \in 1 .. Len(q) : \/ j \in 1 .. Len(a) /\ q[j] = a[j]
                                     \/ j - Len(a) \in 1 .. Len(c) /\ q[j] = c[j - Len(a)]
            <4> TAKE j \in 1 .. Len(q)
            <4>1. j \in 1 .. Len(a) \/ (j - Len(a) \in 1 .. Len(c) /\ Len(a) + (j - Len(a)) = j)
                BY <3>1
            <4> QED BY <3>1, <4>1
        <3>4. \A j \in 1 .. Len(c) : Len(a) + j \in 1 .. Len(q)
            BY <3>1
        <3>5. \A j \in 1 .. Len(a) : j \in 1 .. Len(q)
            BY <3>1
        <3>6. ToSet(q) \subseteq ToSet(a) \cup ToSet(c)
            BY <3>2, <3>3 DEF ToSet
        <3>7. ToSet(a) \subseteq ToSet(q) /\ ToSet(c) \subseteq ToSet(q)
            BY <3>1, <3>2, <3>4, <3>5 DEF ToSet
        <3> QED BY <3>1, <3>6, <3>7 DEF q
    <2>3. All(k) = All(k - 1) \cup ToSet(ss[k])
        <3>1. 1 .. k = (1 .. k - 1) \cup {k}
            BY <1>0
        <3> QED BY <3>1
    <2> QED BY <1>12, <2>1, <2>2, <2>3 DEF a, c
<1>13. ASSUME 1 \in 1 .. n PROVE f[1] \in A /\ ToSet(f[1]) = All(1)
    <2>1. f[1] = ss[1] /\ ss[1] \in A
        BY <1>0, <1>11, <1>13
    <2>2. 1 .. 1 = {1}
        OBVIOUS
    <2> QED BY <2>1, <2>2
<1> HIDE DEF All
<1>14. Bad = {}
    <2> SUFFICES ASSUME Bad # {} PROVE FALSE
        OBVIOUS
    <2>1. PICK k \in Bad : \A j \in Bad : k <= j
        <3>1. Bad \in SUBSET Nat
            BY <1>0
        <3> HIDE DEF Bad
        <3> QED BY <3>1, SmallestNat
    <2>2. k # 1
        BY <1>13, <2>1
    <2>3. k \in 1 .. n /\ k - 1 \in 1 .. n /\ ~(k <= k - 1)
        BY <1>0, <2>1, <2>2
    <2> QED BY <1>12, <2>1, <2>2, <2>3
<1>15. CASE n # 0
    <2>1. n \in 1 .. n
        BY <1>0, <1>15
    <2> QED BY <1>0, <1>3, <1>14, <1>15, <2>1 DEF All
<1>16. CASE n = 0
    <2>1. ss = <<>>
        BY <1>16 DEF n
    <2>2. ToSet(<<>>) = {} /\ <<>> \in Seq(T)
        BY DEF ToSet
    <2>3. UNION {ToSet(ss[i]) : i \in DOMAIN ss} = {}
        BY <2>1
    <2> QED BY <1>3, <1>16, <2>1, <2>2, <2>3
<1> QED
    BY <1>15, <1>16

(* A sort leaves out nothing and adds nothing. *)
LEMMA RankedIs ==
    ASSUME NEW T, NEW s \in Seq(T), NEW key, \A i \in DOMAIN s : key[i] \in Int \X Int
    PROVE  Ranked(s, key) \in Seq(T) /\ ToSet(Ranked(s, key)) = ToSet(s)
<1> DEFINE n == Len(s)
           D == 1 .. n
           before(i, j) == \/ Precedes(key[i], key[j])
                           \/ key[i] = key[j] /\ i < j
           R == {p \in D \X D : before(p[1], p[2])}
           nth(k) == CHOOSE i \in D : Cardinality({j \in D : before(j, i)}) = k - 1
<1>0. n \in Nat /\ DOMAIN s = D /\ IsFiniteSet(D) /\ Cardinality(D) = n
    <2>1. n \in Nat /\ DOMAIN s = D
        OBVIOUS
    <2> HIDE DEF n
    <2>2. IsFiniteSet(D) /\ Cardinality(D) = n
        BY <2>1, FS_Interval
    <2> QED BY <2>1, <2>2
<1>1. \A i \in D : s[i] \in T /\ key[i] \in Int \X Int /\ i \in Int
    BY <1>0
<1> HIDE DEF n
<1>2. \A i, j \in D : <<i, j>> \in R <=> before(i, j)
    OBVIOUS
<1>3. Orders(R, D)
    <2> DEFINE x(i) == key[i][1]
               y(i) == key[i][2]
    <2>1. \A i \in D : x(i) \in Int /\ y(i) \in Int /\ i \in Int
        BY <1>1
    <2>2. \A i, j \in D : key[i] = key[j] <=> x(i) = x(j) /\ y(i) = y(j)
        BY <1>1
    <2>3. \A i, j \in D : <<i, j>> \in R <=> \/ x(i) < x(j)
                                             \/ x(i) = x(j) /\ y(i) < y(j)
                                             \/ x(i) = x(j) /\ y(i) = y(j) /\ i < j
        <3> HIDE DEF R, D
        <3> QED BY <1>2, <2>2 DEF Precedes
    <2> HIDE DEF R, D, x, y
    <2> QED BY <2>1, <2>3 DEF Orders
<1>4. Ranked(s, key) = [k \in D |-> s[nth(k)]]
    <2> HIDE DEF D
    <2> QED BY <1>0 DEF Ranked
<1>5. \A k \in D : nth(k) = Sorted(D, R)[k]
    <2> TAKE k \in D
    <2>1. \A i \in D : {j \in D : <<j, i>> \in R} = {j \in D : before(j, i)}
        BY <1>2
    <2> HIDE DEF R
    <2>2. \A i \in D : Rank(D, R, i) = Cardinality({j \in D : before(j, i)})
        BY <2>1 DEF Rank
    <2> DEFINE ranked == CHOOSE i \in D : Rank(D, R, i) = k - 1
    <2>3. nth(k) = ranked
        BY <2>2
    <2>4. Sorted(D, R)[k] = ranked
        BY <1>0 DEF Sorted
    <2> HIDE DEF nth, ranked
    <2> QED BY <2>3, <2>4
<1> HIDE DEF R, nth, D
<1>6. /\ Sorted(D, R) \in [D -> D]
      /\ \A i \in D : \E k \in D : Sorted(D, R)[k] = i
    <2>1. /\ Sorted(D, R) \in [1 .. Cardinality(D) -> D]
          /\ \A x \in D : \E k \in 1 .. Cardinality(D) : Sorted(D, R)[k] = x
        BY <1>0, <1>3, SortedIs
    <2> QED BY <1>0, <2>1 DEF D
<1> DEFINE q == Ranked(s, key)
<1>7. q \in [D -> T] /\ \A k \in D : q[k] = s[Sorted(D, R)[k]]
    <2>1. \A k \in D : Sorted(D, R)[k] \in D
        BY <1>6
    <2> QED BY <1>1, <1>4, <1>5, <2>1
<1> HIDE DEF q
<1>8. q \in Seq(T)
    BY <1>0, <1>7, FunctionIsSeq DEF D
<1>9. DOMAIN q = D
    BY <1>7
<1>10. ToSet(q) = ToSet(s)
    BY <1>0, <1>6, <1>7, <1>9 DEF ToSet
<1> QED
    BY <1>8, <1>10 DEF q

LEMMA ByStartIs ==
    ASSUME NEW T, NEW bs \in Seq(T), \A b \in ToSet(bs) : b.start \in Int
    PROVE  ByStart(bs) \in Seq(T) /\ ToSet(ByStart(bs)) = ToSet(bs)
<1> DEFINE key == [i \in DOMAIN bs |-> <<bs[i].start, 0>>]
<1>1. \A i \in DOMAIN bs : key[i] \in Int \X Int
    BY DEF ToSet
<1>2. ByStart(bs) = Ranked(bs, key)
    BY DEF ByStart
<1> HIDE DEF key
<1> QED
    BY <1>1, <1>2, RankedIs

-----------------------------------------------------------------------------
(* What a day's blocks are made of, riders aside.                          *)

Settled(E) == DayRows(E) /\ \A e \in E : ~Rides(e)

Good(b, E) ==
    /\ DOMAIN b = {"start", "end", "ticket", "cal", "events"}
    /\ b.start \in Int /\ b.end \in Int /\ b.start < b.end /\ b.cal \in BOOLEAN
    /\ b.events \subseteq E /\ b.events # {} /\ PureBlock(b)

GoodDay(bs, E) == bs \in Seq(ToSet(bs)) /\ \A b \in ToSet(bs) : Good(b, E)

LEMMA PartOfDay ==
    ASSUME NEW E, DayRows(E), NEW F, F \subseteq E
    PROVE  DayRows(F) /\ Rows(F) /\ Dated(F)
<1>1. IsFiniteSet(F)
    BY FS_Subset DEF DayRows
<1> QED
    BY <1>1 DEF DayRows, Rows, Dated, DayRow

LEMMA LocatedWork ==
    ASSUME NEW E, Settled(E), NEW e \in E, ~e.cal \/ e.project # Null
    PROVE  e.cal = FALSE /\ e.project \in Int /\ e.project # Null /\ e.kind # "lifecycle"
<1>1. DayRow(e) /\ ~Rides(e)
    BY DEF Settled, DayRows
<1> QED
    BY <1>1 DEF DayRow, Rides

(* The rows of several days, and of two. *)
LEMMA FlatRows ==
    ASSUME NEW n \in Nat, NEW ss, DOMAIN ss = 1 .. n, ss = [i \in 1 .. n |-> ss[i]],
           \A i \in 1 .. n : ss[i] \in Seq(ToSet(ss[i]))
    PROVE  /\ FlattenSeq(ss) \in Seq(ToSet(FlattenSeq(ss)))
           /\ \A b : b \in ToSet(FlattenSeq(ss)) <=> \E i \in 1 .. n : b \in ToSet(ss[i])
<1> DEFINE T == UNION {ToSet(ss[i]) : i \in 1 .. n}
<1>1. \A i \in 1 .. n : ss[i] \in Seq(T)
    <2> TAKE i \in 1 .. n
    <2>1. ss[i] \in Seq(ToSet(ss[i])) /\ ToSet(ss[i]) \subseteq T
        OBVIOUS
    <2> HIDE DEF T
    <2> QED BY <2>1
<1> HIDE DEF T
<1>2. ss \in Seq(Seq(T))
    <2>1. ss \in [1 .. n -> Seq(T)]
        BY <1>1
    <2> QED BY <2>1, FunctionIsSeq
<1> DEFINE q == FlattenSeq(ss)
<1>3. q \in Seq(T) /\ ToSet(q) = UNION {ToSet(ss[i]) : i \in DOMAIN ss}
    BY <1>2, FlatIs
<1> HIDE DEF q
<1>4. ToSet(q) = T
    BY <1>3 DEF T
<1> QED
    BY <1>3, <1>4 DEF q, T

LEMMA FlatGood ==
    ASSUME NEW E, NEW n \in Nat, NEW ss, DOMAIN ss = 1 .. n, ss = [i \in 1 .. n |-> ss[i]],
           \A i \in 1 .. n : GoodDay(ss[i], E)
    PROVE  /\ GoodDay(FlattenSeq(ss), E)
           /\ ToSet(FlattenSeq(ss)) = UNION {ToSet(ss[i]) : i \in 1 .. n}
<1> DEFINE q == FlattenSeq(ss)
<1>1. \A i \in 1 .. n : ss[i] \in Seq(ToSet(ss[i]))
    BY DEF GoodDay
<1>2. q \in Seq(ToSet(q)) /\ \A b : b \in ToSet(q) <=> \E i \in 1 .. n : b \in ToSet(ss[i])
    BY <1>1, FlatRows
<1> HIDE DEF q
<1>3. GoodDay(q, E)
    BY <1>2 DEF GoodDay
<1>4. ToSet(q) = UNION {ToSet(ss[i]) : i \in 1 .. n}
    BY <1>2
<1> QED
    BY <1>3, <1>4 DEF q

Joined(a, c) == a \o c

LEMMA JoinedRows ==
    ASSUME NEW a, NEW c, a \in Seq(ToSet(a)), c \in Seq(ToSet(c))
    PROVE  /\ Joined(a, c) \in Seq(ToSet(Joined(a, c)))
           /\ \A b : b \in ToSet(Joined(a, c)) <=> b \in ToSet(a) \/ b \in ToSet(c)
<1> DEFINE T == ToSet(a) \cup ToSet(c)
<1>1. a \in Seq(T) /\ c \in Seq(T)
    <2>1. ToSet(a) \subseteq T /\ ToSet(c) \subseteq T
        OBVIOUS
    <2> HIDE DEF T
    <2> QED BY <2>1
<1> HIDE DEF T
<1> DEFINE q == a \o c
<1>2. /\ q \in Seq(T) /\ Len(q) = Len(a) + Len(c) /\ Len(a) \in Nat /\ Len(c) \in Nat
      /\ \A j \in 1 .. Len(a) : q[j] = a[j]
      /\ \A j \in 1 .. Len(c) : q[Len(a) + j] = c[j]
    BY <1>1, JoinedIs
<1>3. DOMAIN q = 1 .. Len(q) /\ DOMAIN a = 1 .. Len(a) /\ DOMAIN c = 1 .. Len(c)
    BY <1>1, <1>2
<1> HIDE DEF q
<1>4. ToSet(a) \subseteq ToSet(q) /\ ToSet(c) \subseteq ToSet(q)
    <2>1. (\A j \in 1 .. Len(c) : Len(a) + j \in 1 .. Len(q)) /\ \A j \in 1 .. Len(a) : j \in 1 .. Len(q)
        BY <1>2
    <2> QED BY <1>2, <1>3, <2>1 DEF ToSet
<1>5. ToSet(q) \subseteq T
    BY <1>2, <1>3 DEF ToSet
<1>6. ToSet(q) = T
    BY <1>4, <1>5 DEF T
<1> QED
    BY <1>2, <1>6 DEF q, T, Joined

LEMMA JoinedGood ==
    ASSUME NEW E, NEW a, NEW c, GoodDay(a, E), GoodDay(c, E)
    PROVE  /\ GoodDay(Joined(a, c), E)
           /\ \A b : b \in ToSet(Joined(a, c)) <=> b \in ToSet(a) \/ b \in ToSet(c)
<1> DEFINE q == Joined(a, c)
<1>1. q \in Seq(ToSet(q)) /\ \A b : b \in ToSet(q) <=> b \in ToSet(a) \/ b \in ToSet(c)
    BY JoinedRows DEF GoodDay
<1> HIDE DEF q
<1>2. GoodDay(q, E)
    BY <1>1 DEF GoodDay
<1> QED
    BY <1>1, <1>2 DEF q

LEMMA BuiltGood ==
    ASSUME NEW E, DayRows(E), NEW F, F \subseteq E
    PROVE  GoodDay(BuildBlocks(F), E)
<1> DEFINE bs == BuildBlocks(F)
<1>1. Rows(F)
    BY PartOfDay
<1>2. bs \in Seq(BlocksOf(F)) /\ BlocksApart(bs, F) /\ \A b \in ToSet(bs) : PureBlock(b)
    BY <1>1, BlocksShareNothing, BlocksPure
<1> HIDE DEF bs
<1>3. DOMAIN bs = 1 .. Len(bs) /\ bs \in Seq(ToSet(bs))
    <2>1. DOMAIN bs = 1 .. Len(bs) /\ Len(bs) \in Nat /\ bs = [i \in 1 .. Len(bs) |-> bs[i]]
        BY <1>2
    <2>2. bs \in [1 .. Len(bs) -> ToSet(bs)]
        BY <2>1 DEF ToSet
    <2> QED BY <2>1, <2>2, FunctionIsSeq
<1>4. ASSUME NEW i \in 1 .. Len(bs) PROVE Good(bs[i], E)
    <2>1. bs[i] \in BlocksOf(F)
        BY <1>2
    <2>2. PICK c \in Cluster(F) : bs[i] = Block(c)
        BY <2>1 DEF BlocksOf
    <2>3. /\ DOMAIN bs[i] = {"start", "end", "ticket", "cal", "events"}
          /\ bs[i].start = c.start /\ bs[i].end = c.end /\ bs[i].cal = c.cal
        BY <2>2 DEF Block
    <2>4. c.start \in Int /\ c.end \in Int /\ c.cal \in BOOLEAN
        BY DEF Cluster
    <2>5. bs[i].events # {} /\ bs[i].events \subseteq E /\ LongEnough(bs[i])
        BY <1>2 DEF BlocksApart
    <2>6. bs[i].start < bs[i].end
        BY <2>3, <2>4, <2>5 DEF LongEnough, MIN_BLOCK_MINUTES
    <2>7. PureBlock(bs[i])
        BY <1>2, <1>3 DEF ToSet
    <2> QED BY <2>3, <2>4, <2>5, <2>6, <2>7 DEF Good
<1> QED
    BY <1>3, <1>4 DEF GoodDay, ToSet, bs

LEMMA PieceGood ==
    ASSUME NEW E, Settled(E), NEW S, S \subseteq E, \A e \in S : ~e.cal, NEW x, PieceOf(x, S)
    PROVE  Good(x, E)
<1>1. \A e \in S : e.cal = FALSE
    BY LocatedWork
<1> QED
    BY <1>1 DEF PieceOf, Good, PureBlock

(* A block of a folder's work, the only other kind there is. *)
LEMMA GoodIsFolders ==
    ASSUME NEW E, Settled(E), NEW b, Good(b, E), ~b.cal
    PROVE  /\ FolderBlock(b, E)
           /\ \A e \in b.events : ~e.cal /\ e.project \in Int /\ e.project # Null /\ e.kind # "lifecycle"
<1>1. \A e \in b.events : e \in E /\ ~e.cal
    BY DEF Good, PureBlock
<1>2. \A e \in b.events : e.project \in Int /\ e.project # Null /\ e.kind # "lifecycle"
    BY <1>1, LocatedWork
<1> QED
    BY <1>1, <1>2 DEF FolderBlock, Good

LEMMA MeetingStays ==
    ASSUME NEW E, Settled(E), NEW b, Good(b, E), b.cal
    PROVE  DivideBlock(b, E) = <<b>>
<1>1. \A e \in b.events : e.tag = 0
    <2> TAKE e \in b.events
    <2>1. DayRow(e) /\ e.cal
        BY DEF Good, PureBlock, Settled, DayRows
    <2> QED BY <2>1 DEF DayRow
<1> QED
    BY <1>1 DEF DivideBlock

LEMMA OneGood ==
    ASSUME NEW E, NEW b, Good(b, E)
    PROVE  GoodDay(<<b>>, E) /\ ToSet(<<b>>) = {b}
<1>1. ToSet(<<b>>) = {b} /\ <<b>> \in Seq({b})
    BY DEF ToSet
<1> QED
    BY <1>1 DEF GoodDay

LEMMA DividedGood ==
    ASSUME NEW E, Settled(E), NEW b, Good(b, E)
    PROVE  GoodDay(DivideBlock(b, E), E)
<1>1. CASE b.cal
    BY <1>1, MeetingStays, OneGood
<1>2. CASE ~b.cal
    <2>1. FolderBlock(b, E) /\ \A e \in b.events : e \in E /\ ~e.cal
        BY <1>2, GoodIsFolders DEF Good
    <2>2. Dated(E)
        BY PartOfDay DEF Settled
    <2>3. PICK p : Parts(DivideBlock(b, E), b, b.events \cup OfFolder(p, E))
        BY <2>1, <2>2, DivideIs
    <2> DEFINE S == b.events \cup OfFolder(p, E)
    <2>4. S \subseteq E /\ \A e \in S : ~e.cal
        BY <2>1 DEF OfFolder
    <2> HIDE DEF S
    <2>5. \A x \in ToSet(DivideBlock(b, E)) : Good(x, E)
        BY <2>3, <2>4, PieceGood DEF Parts, S
    <2> QED BY <2>3, <2>5 DEF Parts, GoodDay
<1> QED
    BY <1>1, <1>2

LEMMA DayDivided ==
    ASSUME NEW E, Settled(E), NEW bs, GoodDay(bs, E)
    PROVE  /\ GoodDay(DivideBlocks(bs, E), E)
           /\ ToSet(DivideBlocks(bs, E)) = UNION {ToSet(DivideBlock(b, E)) : b \in ToSet(bs)}
<1> DEFINE n == Len(bs)
           ss == [i \in DOMAIN bs |-> DivideBlock(bs[i], E)]
<1>1. n \in Nat /\ DOMAIN bs = 1 .. n
    <2>1. bs \in Seq(ToSet(bs))
        BY DEF GoodDay
    <2> QED BY <2>1
<1>2. DOMAIN ss = 1 .. n /\ ss = [i \in 1 .. n |-> ss[i]] /\ \A i \in 1 .. n : ss[i] = DivideBlock(bs[i], E)
    BY <1>1
<1>3. \A i \in 1 .. n : GoodDay(ss[i], E)
    BY <1>1, <1>2, DividedGood DEF GoodDay, ToSet
<1>4. DivideBlocks(bs, E) = FlattenSeq(ss)
    BY DEF DivideBlocks
<1> HIDE DEF n, ss
<1>5. /\ GoodDay(FlattenSeq(ss), E)
      /\ ToSet(FlattenSeq(ss)) = UNION {ToSet(ss[i]) : i \in 1 .. n}
    BY <1>1, <1>2, <1>3, FlatGood
<1>6. UNION {ToSet(ss[i]) : i \in 1 .. n} = UNION {ToSet(DivideBlock(b, E)) : b \in ToSet(bs)}
    BY <1>1, <1>2 DEF ToSet
<1> QED
    BY <1>4, <1>5, <1>6

OwnedBlocks(runs, E) == FlattenSeq([i \in DOMAIN runs |-> StretchBlock(runs[i], E)])

LEMMA OwnedGood ==
    ASSUME NEW E, Settled(E), NEW K, NEW runs \in Seq(Run(K))
    PROVE  /\ GoodDay(OwnedBlocks(runs, E), E)
           /\ ToSet(OwnedBlocks(runs, E)) = UNION {ToSet(StretchBlock(runs[i], E)) : i \in DOMAIN runs}
<1> DEFINE n == Len(runs)
           ss == [i \in DOMAIN runs |-> StretchBlock(runs[i], E)]
<1>1. n \in Nat /\ DOMAIN runs = 1 .. n /\ \A i \in 1 .. n : runs[i] \in Run(K)
    OBVIOUS
<1>2. DOMAIN ss = 1 .. n /\ ss = [i \in 1 .. n |-> ss[i]] /\ \A i \in 1 .. n : ss[i] = StretchBlock(runs[i], E)
    BY <1>1
<1>3. OwnedBlocks(runs, E) = FlattenSeq(ss)
    BY DEF OwnedBlocks
<1> HIDE DEF n, ss
<1>4. ASSUME NEW i \in 1 .. n PROVE GoodDay(ss[i], E)
    <2> DEFINE r == runs[i]
               q == StretchBlock(r, E)
               S == InStretch(r, E)
    <2>1. S \subseteq E /\ \A e \in S : ~e.cal
        BY DEF InStretch
    <2>2. q \in Seq(ToSet(q)) /\ \A b \in ToSet(q) : StretchKept(r, b, E)
        BY <1>1, StretchBlockIs
    <2> HIDE DEF q, r, S
    <2>3. \A b \in ToSet(q) : Good(b, E)
        BY <2>1, <2>2, PieceGood DEF StretchKept, S
    <2> QED BY <1>2, <2>2, <2>3 DEF GoodDay, q, r
<1>5. /\ GoodDay(FlattenSeq(ss), E)
      /\ ToSet(FlattenSeq(ss)) = UNION {ToSet(ss[i]) : i \in 1 .. n}
    BY <1>1, <1>2, <1>4, FlatGood
<1> QED
    BY <1>1, <1>2, <1>3, <1>5

Unowned(runs, E) ==
    {e \in E : ~e.cal /\ \A i \in DOMAIN runs : e.at \notin runs[i].first .. runs[i].last}

LEMMA RunBlocksAre ==
    ASSUME NEW E, Settled(E), NEW K, NEW runs \in Seq(Run(K))
    PROVE  /\ GoodDay(BlocksOfRuns(runs, E), E)
           /\ \A b : b \in ToSet(BlocksOfRuns(runs, E)) <=>
                    \/ \E k \in ToSet(OwnedBlocks(runs, E)) : b \in ToSet(DivideBlock(k, E))
                    \/ b \in ToSet(BuildBlocks({e \in E : e.cal}))
                    \/ b \in ToSet(BuildBlocks(Unowned(runs, E)))
<1> DEFINE work == DivideBlocks(OwnedBlocks(runs, E), E)
           meet == BuildBlocks({e \in E : e.cal})
           rest == BuildBlocks(Unowned(runs, E))
           q == Joined(Joined(work, meet), rest)
<1>1. BlocksOfRuns(runs, E) = ByStart(q)
    BY DEF BlocksOfRuns, OwnedBlocks, Unowned, Joined
<1>2. /\ GoodDay(work, E)
      /\ \A b : b \in ToSet(work) <=> \E k \in ToSet(OwnedBlocks(runs, E)) : b \in ToSet(DivideBlock(k, E))
    <2>1. /\ GoodDay(work, E)
          /\ ToSet(work) = UNION {ToSet(DivideBlock(b, E)) : b \in ToSet(OwnedBlocks(runs, E))}
        BY OwnedGood, DayDivided
    <2> HIDE DEF work
    <2> QED BY <2>1
<1>3. GoodDay(meet, E) /\ GoodDay(rest, E)
    <2>1. {e \in E : e.cal} \subseteq E /\ Unowned(runs, E) \subseteq E
        BY DEF Unowned
    <2> QED BY <2>1, BuiltGood DEF Settled
<1> HIDE DEF work, meet, rest
<1>4. GoodDay(q, E) /\ ToSet(q) = ToSet(work) \cup ToSet(meet) \cup ToSet(rest)
    <2> DEFINE both == Joined(work, meet)
    <2>1. GoodDay(work, E) /\ GoodDay(meet, E) /\ GoodDay(rest, E)
        BY <1>2, <1>3
    <2>2. GoodDay(Joined(work, meet), E) /\ \A b : b \in ToSet(Joined(work, meet)) <=> b \in ToSet(work) \/ b \in ToSet(meet)
        BY <2>1, JoinedGood
    <2> HIDE DEF both
    <2>3. GoodDay(both, E) /\ \A b : b \in ToSet(both) <=> b \in ToSet(work) \/ b \in ToSet(meet)
        BY <2>2 DEF both
    <2>4. GoodDay(Joined(both, rest), E) /\ \A b : b \in ToSet(Joined(both, rest)) <=> b \in ToSet(both) \/ b \in ToSet(rest)
        BY <2>1, <2>3, JoinedGood
    <2> QED BY <2>3, <2>4 DEF both
<1> HIDE DEF q
<1>5. q \in Seq(ToSet(q)) /\ \A b \in ToSet(q) : b.start \in Int
    BY <1>4 DEF GoodDay, Good
<1>6. ByStart(q) \in Seq(ToSet(q)) /\ ToSet(ByStart(q)) = ToSet(q)
    BY <1>5, ByStartIs
<1>7. GoodDay(ByStart(q), E)
    BY <1>4, <1>6 DEF GoodDay
<1>8. ToSet(ByStart(q)) = ToSet(work) \cup ToSet(meet) \cup ToSet(rest)
    BY <1>4, <1>6
<1>9. ToSet(BlocksOfRuns(runs, E)) = ToSet(work) \cup ToSet(meet) \cup ToSet(rest)
    BY <1>1, <1>8
<1>10. GoodDay(BlocksOfRuns(runs, E), E)
    BY <1>1, <1>7
<1> QED
    BY <1>2, <1>9, <1>10 DEF meet, rest

LEMMA ProjectGood ==
    ASSUME NEW E, Settled(E)
    PROVE  GoodDay(ProjectBlocks(E), E)
<1> DEFINE F == {LaneFolder(e) : e \in Voting(E)}
           runs == LaneRuns(KeyedByFolder(E))
<1>1. CASE Cardinality(F) < 2
    <2>1. GoodDay(BuildBlocks(E), E)
        BY BuiltGood DEF Settled
    <2>2. ProjectBlocks(E) = DivideBlocks(BuildBlocks(E), E)
        BY <1>1 DEF ProjectBlocks
    <2> QED BY <2>1, <2>2, DayDivided
<1>2. CASE ~(Cardinality(F) < 2)
    <2>1. Voting(E) # {}
        <3>1. Voting(E) = {} => F = {}
            OBVIOUS
        <3>2. Cardinality({}) = 0
            BY FS_EmptySet
        <3> HIDE DEF F
        <3> QED BY <1>2, <3>1, <3>2
    <2>2. Votes(KeyedByFolder(E))
        BY <2>1, PartOfDay, FolderVotes DEF Settled
    <2>3. runs \in Seq(Run(Keys(KeyedByFolder(E))))
        BY <2>2, LanesAre
    <2>4. ProjectBlocks(E) = BlocksOfRuns(runs, E)
        BY <1>2 DEF ProjectBlocks
    <2> HIDE DEF runs
    <2> QED BY <2>3, <2>4, RunBlocksAre
<1> QED
    BY <1>1, <1>2

-----------------------------------------------------------------------------
(* Riders. *)

Leading(V) ==
    LET votes(p) == Cardinality({e \in V : e.project = p})
        folders  == {e.project : e \in V}
    IN  {p \in folders : \A q \in folders : votes(q) <= votes(p)}

LEMMA DominantIs ==
    ASSUME NEW x, NEW V, V # {},
           V = {e \in x.events : e.project # Null /\ e.kind # "lifecycle"}
    PROVE  DominantFolders(x) = Leading(V)
BY DEF DominantFolders, Leading

LEMMA WithRiders ==
    ASSUME NEW E, Settled(E), NEW b, Good(b, E), ~b.cal,
           NEW S, \A e \in S : Rides(e), NEW x, x.events = b.events \cup S
    PROVE  DominantFolders(x) = DominantFolders(b)
<1> DEFINE V == b.events
<1>1. /\ V # {}
      /\ \A e \in V : e.project # Null /\ e.kind # "lifecycle"
    BY GoodIsFolders DEF Good
<1>2. V = {e \in b.events : e.project # Null /\ e.kind # "lifecycle"}
    BY <1>1
<1>3. V = {e \in x.events : e.project # Null /\ e.kind # "lifecycle"}
    BY <1>1 DEF Rides
<1>4. DominantFolders(b) = Leading(V)
    BY <1>1, <1>2, DominantIs
<1>5. DominantFolders(x) = Leading(V)
    BY <1>1, <1>3, DominantIs
<1> QED
    BY <1>4, <1>5

(* A block as it was, but for its events and what hangs on them. *)
Filled(x, b) ==
    /\ x.start = b.start /\ x.end = b.end /\ x.cal = b.cal
    /\ ~b.cal => DominantFolders(x) = DominantFolders(b)

LEMMA FilledIs ==
    ASSUME NEW E, Settled(E), NEW b, Good(b, E), NEW S, \A e \in S : Rides(e),
           NEW t, NEW x,
           x = IF S = {} THEN b ELSE [b EXCEPT !.events = @ \cup S, !.ticket = t]
    PROVE  Filled(x, b)
<1>1. CASE S = {}
    <2>1. x = b
        BY <1>1
    <2> QED BY <2>1 DEF Filled
<1>2. CASE S # {}
    <2>1. DOMAIN b = {"start", "end", "ticket", "cal", "events"}
        BY DEF Good
    <2>2. x.start = b.start /\ x.end = b.end /\ x.cal = b.cal /\ x.events = b.events \cup S
        BY <1>2, <2>1
    <2>3. ~b.cal => DominantFolders(x) = DominantFolders(b)
        BY <2>2, WithRiders
    <2> QED BY <2>2, <2>3 DEF Filled
<1> QED
    BY <1>1, <1>2

LEMMA PlacedIs ==
    ASSUME NEW E, Settled(E), NEW bs, GoodDay(bs, E), NEW R, \A e \in R : Rides(e)
    PROVE  /\ DOMAIN PlaceFolderless(bs, R) = DOMAIN bs
           /\ \A i \in DOMAIN bs : Filled(PlaceFolderless(bs, R)[i], bs[i])
<1> DEFINE around(e) == {i \in DOMAIN bs : ~bs[i].cal /\ bs[i].start <= e.at /\ e.at < bs[i].end}
           placed(i) == {e \in R : around(e) # {} /\ i = Min(around(e))}
           with(b, S) == IF S = {} THEN b
                         ELSE [b EXCEPT !.events = @ \cup S, !.ticket = UniqueTicket(b.events \cup S)]
<1>1. PlaceFolderless(bs, R) = [i \in DOMAIN bs |-> with(bs[i], placed(i))]
    BY DEF PlaceFolderless
<1>2. \A i \in DOMAIN bs : \A e \in placed(i) : Rides(e)
    OBVIOUS
<1>3. \A i \in DOMAIN bs : Good(bs[i], E)
    BY DEF GoodDay, ToSet
<1> HIDE DEF placed
<1>4. ASSUME NEW i \in DOMAIN bs PROVE Filled(with(bs[i], placed(i)), bs[i])
    BY <1>2, <1>3, FilledIs
<1> QED
    BY <1>1, <1>4

(* Of two days with the same blocks but for that, the folders' minutes are *)
(* the same.                                                               *)
LEMMA FilledSame ==
    ASSUME NEW day, NEW other, DOMAIN day = DOMAIN other,
           \A i \in DOMAIN day : Filled(day[i], other[i]), NEW p
    PROVE  Covered(Of(p, day)) = Covered(Of(p, other))
<1>1. \A i \in DOMAIN day : /\ day[i].start = other[i].start /\ day[i].end = other[i].end
                            /\ day[i] \in Of(p, day) <=> other[i] \in Of(p, other)
    BY DEF Filled, Of, Worked, ToSet
<1>2. /\ \A b \in Of(p, day) : \E i \in DOMAIN day : b = day[i]
      /\ \A b \in Of(p, other) : \E i \in DOMAIN day : b = other[i]
    BY DEF Of, Worked, ToSet
<1>3. \A b \in Of(p, day) : \E c \in Of(p, other) : b.start .. b.end - 1 = c.start .. c.end - 1
    BY <1>1, <1>2
<1>4. \A b \in Of(p, other) : \E c \in Of(p, day) : b.start .. b.end - 1 = c.start .. c.end - 1
    BY <1>1, <1>2
<1>5. \A m : m \in Covered(Of(p, day)) <=> m \in Covered(Of(p, other))
    <2> TAKE m
    <2>1. m \in Covered(Of(p, day)) <=> \E b \in Of(p, day) : m \in b.start .. b.end - 1
        BY DEF Covered
    <2>2. m \in Covered(Of(p, other)) <=> \E b \in Of(p, other) : m \in b.start .. b.end - 1
        BY DEF Covered
    <2> QED BY <1>3, <1>4, <2>1, <2>2, Zenon
<1> QED
    BY <1>5

LEMMA PlacedSame ==
    ASSUME NEW E, Settled(E), NEW bs, GoodDay(bs, E), NEW R, \A e \in R : Rides(e), NEW p
    PROVE  Covered(Of(p, PlaceFolderless(bs, R))) = Covered(Of(p, bs))
BY PlacedIs, FilledSame

(* Blocks of events without folders are no folder's. *)
LEMMA NobodysBlocks ==
    ASSUME NEW E, DayRows(E), \A e \in E : e.project = Null, NEW p
    PROVE  Of(p, BuildBlocks(E)) = {}
<1> SUFFICES ASSUME NEW b \in ToSet(BuildBlocks(E)) PROVE DominantFolders(b) = {}
    BY DEF Of, Worked
<1>1. b.events \subseteq E
    BY BuiltGood DEF GoodDay, Good
<1>2. \A e \in b.events : e.project = Null
    BY <1>1
<1> QED
    BY <1>2 DEF DominantFolders

(* Meetings are no folder's either. *)
LEMMA MeetingsOnly ==
    ASSUME NEW E, NEW bs, GoodDay(bs, E), \A e \in E : e.cal, NEW p
    PROVE  Of(p, bs) = {}
<1>1. \A b \in ToSet(bs) : b.cal
    BY DEF GoodDay, Good, PureBlock
<1> QED
    BY <1>1 DEF Of, Worked

Folderless(E) == \A e \in E : e.cal \/ e.project = Null

LEMMA CountedRows ==
    ASSUME NEW D, DayRows(D)
    PROVE  DayRows(Counted(D)) /\ Settled({e \in Counted(D) : ~Rides(e)})
<1>1. Counted(D) \subseteq D /\ {e \in Counted(D) : ~Rides(e)} \subseteq D
    BY DEF Counted
<1> QED
    BY <1>1, PartOfDay DEF Settled

(* The folders' minutes are those of the events that do not ride. *)
LEMMA MinutesAre ==
    ASSUME NEW D, DayRows(D), NEW p
    PROVE  Covered(Of(p, BuildBlocksByProject(D)))
             = IF Folderless({e \in Counted(D) : ~Rides(e)}) THEN {}
               ELSE Covered(Of(p, ProjectBlocks({e \in Counted(D) : ~Rides(e)})))
<1> DEFINE E == Counted(D)
           R == {e \in E : Rides(e)}
           B == {e \in E : ~Rides(e)}
<1>0. DayRows(E) /\ Settled(B) /\ E \ R = B /\ \A e \in R : Rides(e)
    BY CountedRows
<1>1. \A b \in {} : FALSE
    OBVIOUS
<1>2. Covered({}) = {}
    BY DEF Covered
<1>3. GoodDay(ProjectBlocks(B), B)
    BY <1>0, ProjectGood
<1>4. BuildBlocksByProject(D) = IF Folderless(E) THEN BuildBlocks(E)
                                ELSE PlaceFolderless(ProjectBlocks(E \ R), R)
    BY DEF BuildBlocksByProject, Folderless
<1>5. Folderless(B) => \A e \in B : e.cal
    <2> SUFFICES ASSUME Folderless(B), NEW e \in B PROVE e.cal
        OBVIOUS
    <2>1. DayRow(e) /\ ~Rides(e)
        BY <1>0 DEF Settled, DayRows
    <2> QED BY <2>1 DEF Folderless, Rides, DayRow
<1>6. B \subseteq E
    OBVIOUS
<1> HIDE DEF E, R, B
<1>7. CASE Folderless(E)
    <2>1. \A e \in E : e.project = Null
        <3> TAKE e \in E
        <3>1. DayRow(e)
            BY <1>0 DEF DayRows
        <3> QED BY <1>7, <3>1 DEF Folderless, DayRow
    <2>2. Of(p, BuildBlocks(E)) = {}
        BY <1>0, <2>1, NobodysBlocks
    <2>3. Folderless(B)
        BY <1>6, <1>7 DEF Folderless
    <2> QED BY <1>2, <1>4, <1>7, <2>2, <2>3 DEF B, E
<1>8. CASE ~Folderless(E)
    <2>1. Covered(Of(p, BuildBlocksByProject(D))) = Covered(Of(p, ProjectBlocks(B)))
        BY <1>0, <1>3, <1>4, <1>8, PlacedSame
    <2>2. Folderless(B) => Of(p, ProjectBlocks(B)) = {}
        BY <1>3, <1>5, MeetingsOnly
    <2>3. Covered(Of(p, BuildBlocksByProject(D)))
            = IF Folderless(B) THEN {} ELSE Covered(Of(p, ProjectBlocks(B)))
        BY <1>2, <2>1, <2>2
    <2> QED BY <2>3 DEF B, E
<1> QED
    BY <1>7, <1>8

(* Who was there is as before without them. *)
LEMMA MereLeaveAlone ==
    ASSUME NEW D, DayRows(D)
    PROVE  {e \in Counted({d \in D : ~Mere(d)}) : ~Rides(e)} = {e \in Counted(D) : ~Rides(e)}
<1> DEFINE P == {d \in D : ~Mere(d)}
<1>1. ASSUME NEW e \in P PROVE Attended(e, P) <=> Attended(e, D)
    <2> DEFINE mates(E) == {d \in E : d.session = e.session}
    <2>1. CASE e.session = Null
        BY <2>1 DEF Attended
    <2>2. CASE e.session # Null
        <3>1. \A d \in mates(D) : d.kind \in {"turn", "submit", "heartbeat"} => d \in mates(P)
            BY <2>2 DEF Mere
        <3>2. mates(P) \subseteq mates(D)
            OBVIOUS
        <3> QED BY <3>1, <3>2 DEF Attended
    <2> QED BY <2>1, <2>2
<1>2. \A e \in D : Mere(e) => e.kind = "helper" \/ Rides(e)
    BY DEF Mere, Rides
<1>3. P \subseteq D
    OBVIOUS
<1>4. \A e \in D : ~Mere(e) <=> e \in P
    OBVIOUS
<1> HIDE DEF P
<1> QED
    BY <1>1, <1>2, <1>3, <1>4 DEF Counted, P

(* For any day the collectors can bring: what a session's bookkeeping, the *)
(* owner's helpers and folderless events say adds no minute to any folder  *)
(* and takes none away, whether they hold a whole day, reach into a        *)
(* stretch or end one.                                                     *)
(* (build_blocks_by_project, place_folderless)                             *)
THEOREM RidersOnlyRide == Spec => []RidersAddNoTime
<1>1. ASSUME Known PROVE RidersAddNoTime
    <2> DEFINE day == Tagged(Located(collected))
               rest == {e \in day : ~Mere(e)}
    <2>1. DayRows(collected)
        BY <1>1, BatchesAssumption DEF Known, DayRows, DayRow
    <2>2. DayRows(day)
        BY <2>1, LocatedIs, TaggedIs
    <2>3. RidersAddNoTime = SameMinutes(BuildBlocksByProject(day), BuildBlocksByProject(rest))
        BY DEF RidersAddNoTime
    <2> HIDE DEF day
    <2>4. DayRows(rest)
        <3>1. rest \subseteq day
            OBVIOUS
        <3> HIDE DEF rest
        <3> QED BY <2>2, <3>1, PartOfDay
    <2>5. {e \in Counted(rest) : ~Rides(e)} = {e \in Counted(day) : ~Rides(e)}
        BY <2>2, MereLeaveAlone
    <2> HIDE DEF rest
    <2>6. \A p : Covered(Of(p, BuildBlocksByProject(day))) = Covered(Of(p, BuildBlocksByProject(rest)))
        BY <2>2, <2>4, <2>5, MinutesAre
    <2> QED BY <2>3, <2>6 DEF SameMinutes
<1> QED
    BY <1>1, DaysAreKnown, PTL

-----------------------------------------------------------------------------
(* A folder's minutes, block by block. *)

Has(b, p, m) == ~b.cal /\ p \in DominantFolders(b) /\ m \in b.start .. b.end - 1

HasMinute(bs, p, m) == \E b \in ToSet(bs) : Has(b, p, m)

LEMMA MinutesOf ==
    ASSUME NEW bs, NEW p
    PROVE  \A m : m \in Covered(Of(p, bs)) <=> HasMinute(bs, p, m)
BY DEF Covered, Of, Worked, Has, HasMinute

LEMMA ChainCovers ==
    ASSUME NEW q, NEW L \in Nat, L >= 1,
           \A i \in 1 .. L : q[i].start \in Int /\ q[i].end \in Int /\ q[i].start < q[i].end,
           \A i \in 1 .. L - 1 : q[i].end = q[i + 1].start,
           NEW m
    PROVE  (\E i \in 1 .. L : m \in q[i].start .. q[i].end - 1) <=> m \in q[1].start .. q[L].end - 1
<1> DEFINE s == [i \in 1 .. L |-> q[i].start]
           t == [i \in 1 .. L |-> q[i].end]
<1>1. /\ \A i \in 1 .. L : s[i] = q[i].start /\ t[i] = q[i].end
      /\ \A i \in 1 .. L : s[i] \in Int /\ t[i] \in Int /\ s[i] < t[i]
      /\ \A i \in 1 .. L - 1 : t[i] = s[i + 1]
      /\ 1 \in 1 .. L /\ L \in 1 .. L
    OBVIOUS
<1> HIDE DEF s, t
<1>2. \A i \in 1 .. L : s[1] <= s[i]
    <2> DEFINE P == {k \in 0 .. L - 1 : s[1] <= s[k + 1]}
    <2>1. L - 1 \in Nat /\ 0 \in P
        BY <1>1
    <2>2. \A k \in 1 .. L - 1 : k - 1 \in P => k \in P
        <3> SUFFICES ASSUME NEW k \in 1 .. L - 1, k - 1 \in P PROVE k \in P
            OBVIOUS
        <3>1. k \in 1 .. L /\ k + 1 \in 1 .. L /\ k \in 0 .. L - 1 /\ (k - 1) + 1 = k
            OBVIOUS
        <3>2. s[1] <= s[k]
            BY <3>1
        <3>3. s[1] <= s[k + 1]
            BY <1>1, <3>1, <3>2
        <3> QED BY <3>1, <3>3
    <2> HIDE DEF P
    <2>3. \A k \in 0 .. L - 1 : k \in P
        BY <2>1, <2>2, Climb
    <2>4. \A i \in 1 .. L : i - 1 \in 0 .. L - 1 /\ (i - 1) + 1 = i
        OBVIOUS
    <2> QED BY <2>3, <2>4 DEF P
<1>3. \A i \in 1 .. L : t[i] <= t[L]
    <2> DEFINE P == {k \in 0 .. L - 1 : t[L - k] <= t[L]}
    <2>1. L - 1 \in Nat /\ 0 \in P
        BY <1>1
    <2>2. \A k \in 1 .. L - 1 : k - 1 \in P => k \in P
        <3> SUFFICES ASSUME NEW k \in 1 .. L - 1, k - 1 \in P PROVE k \in P
            OBVIOUS
        <3>1. /\ L - k \in 1 .. L - 1 /\ L - k \in 1 .. L /\ (L - k) + 1 \in 1 .. L
              /\ k \in 0 .. L - 1 /\ L - (k - 1) = (L - k) + 1
            OBVIOUS
        <3>2. t[(L - k) + 1] <= t[L]
            BY <3>1
        <3>3. t[L - k] <= t[L]
            BY <1>1, <3>1, <3>2
        <3> QED BY <3>1, <3>3
    <2> HIDE DEF P
    <2>3. \A k \in 0 .. L - 1 : k \in P
        BY <2>1, <2>2, Climb
    <2>4. \A i \in 1 .. L : L - i \in 0 .. L - 1 /\ L - (L - i) = i
        OBVIOUS
    <2> QED BY <2>3, <2>4 DEF P
<1>4. ASSUME NEW i \in 1 .. L, m \in s[i] .. t[i] - 1 PROVE m \in s[1] .. t[L] - 1
    BY <1>1, <1>2, <1>3, <1>4
<1>5. ASSUME m \in s[1] .. t[L] - 1 PROVE \E i \in 1 .. L : m \in s[i] .. t[i] - 1
    <2> DEFINE S == {i \in 1 .. L : m < t[i]}
    <2>0. m \in Int /\ s[1] <= m /\ m < t[L]
        BY <1>1, <1>5
    <2>1. S \in SUBSET Nat /\ S # {}
        BY <1>1, <2>0
    <2>2. PICK i \in S : \A j \in S : i <= j
        <3> HIDE DEF S
        <3> QED BY <2>1, SmallestNat
    <2>3. s[i] <= m
        <3>1. CASE i = 1
            BY <2>0, <3>1
        <3>2. CASE i # 1
            <4>1. i - 1 \in 1 .. L /\ i - 1 \in 1 .. L - 1 /\ (i - 1) + 1 = i /\ ~(i <= i - 1)
                BY <3>2
            <4>2. ~(m < t[i - 1])
                BY <2>2, <4>1
            <4>3. t[i - 1] = s[i]
                BY <1>1, <4>1
            <4> QED BY <1>1, <2>0, <4>1, <4>2, <4>3
        <3> QED BY <3>1, <3>2
    <2> QED BY <1>1, <2>0, <2>2, <2>3
<1> QED
    BY <1>1, <1>4, <1>5

(* A block that only one folder's events vote in is that folder's.         *)
OnlyOf(b, p) ==
    /\ b.events # {} /\ IsFiniteSet(b.events)
    /\ \A e \in b.events : e.project = p /\ p # Null /\ e.kind # "lifecycle"

LEMMA OnlyOwner ==
    ASSUME NEW b, NEW p, OnlyOf(b, p)
    PROVE  DominantFolders(b) = {p}
<1> DEFINE V == b.events
           votes(q) == Cardinality({e \in V : e.project = q})
<1>1. V = {e \in b.events : e.project # Null /\ e.kind # "lifecycle"} /\ V # {}
    BY DEF OnlyOf
<1>2. DominantFolders(b) = Leading(V)
    BY <1>1, DominantIs
<1>3. {e.project : e \in V} = {p}
    BY <1>1 DEF OnlyOf
<1>4. Leading(V) = {q \in {p} : \A r \in {p} : votes(r) <= votes(q)}
    BY <1>3 DEF Leading
<1>5. votes(p) \in Nat
    <2>1. {e \in V : e.project = p} = V
        BY DEF OnlyOf
    <2>2. Cardinality(V) \in Nat
        BY FS_CardinalityType DEF OnlyOf
    <2> QED BY <2>1, <2>2
<1>6. votes(p) <= votes(p)
    <2> HIDE DEF votes
    <2> QED BY <1>5
<1> HIDE DEF votes
<1> QED
    BY <1>2, <1>4, <1>6

(* Dividing a block of one folder's events leaves its folder its minutes.  *)
LEMMA OneFolderDivided ==
    ASSUME NEW E, Settled(E), NEW b, Good(b, E), NEW q, \A e \in b.events : b.cal \/ e.project = q,
           NEW p, NEW m
    PROVE  HasMinute(DivideBlock(b, E), p, m) <=> Has(b, p, m)
<1>1. CASE b.cal
    <2>1. DivideBlock(b, E) = <<b>>
        BY <1>1, MeetingStays
    <2>2. ToSet(<<b>>) = {b}
        BY OneGood
    <2> QED BY <2>1, <2>2 DEF HasMinute
<1>2. CASE ~b.cal
    <2> DEFINE s == DivideBlock(b, E)
               L == Len(s)
    <2>1. /\ FolderBlock(b, E)
          /\ \A e \in b.events : e \in E /\ e.project # Null /\ e.kind # "lifecycle"
        BY <1>2, GoodIsFolders DEF Good
    <2>2. Dated(E) /\ IsFiniteSet(E)
        BY PartOfDay DEF Settled, DayRows
    <2>3. PICK r : /\ r # Null /\ \E e \in b.events : e.project = r
                   /\ Divides(s, b) /\ Parts(s, b, b.events \cup OfFolder(r, E))
        BY <2>1, <2>2, DivideIs
    <2>4. GoodDay(s, E)
        BY DividedGood
    <2>5. r = q /\ q # Null
        BY <1>2, <2>3
    <2>6. OnlyOf(b, q)
        <3>1. b.events # {} /\ IsFiniteSet(b.events)
            BY <2>2, FS_Subset DEF Good
        <3> QED BY <1>2, <2>1, <3>1 DEF OnlyOf
    <2> HIDE DEF s
    <2>7. ASSUME NEW x \in ToSet(s) PROVE ~x.cal /\ DominantFolders(x) = {q}
        <3>1. CASE x = b
            BY <1>2, <2>6, <3>1, OnlyOwner
        <3>2. CASE PieceOf(x, b.events \cup OfFolder(r, E))
            <4>1. ~x.cal /\ x.events # {} /\ x.events \subseteq E
                BY <2>1, <3>2 DEF PieceOf, OfFolder
            <4>2. \A e \in x.events : e.project = q /\ ~e.cal
                BY <1>2, <2>1, <2>5, <3>2, GoodIsFolders DEF PieceOf, OfFolder
            <4>3. \A e \in x.events : e.kind # "lifecycle"
                BY <4>1, <4>2, LocatedWork
            <4>4. IsFiniteSet(x.events)
                BY <2>2, <4>1, FS_Subset
            <4>5. OnlyOf(x, q)
                BY <2>5, <4>1, <4>2, <4>3, <4>4 DEF OnlyOf
            <4> QED BY <4>1, <4>5, OnlyOwner
        <3> QED BY <2>3, <3>1, <3>2 DEF Parts
    <2>8. DominantFolders(b) = {q}
        BY <2>6, OnlyOwner
    <2>9. L \in Nat /\ L >= 1 /\ DOMAIN s = 1 .. L
        <3>1. s \in Seq(ToSet(s)) /\ s # <<>>
            BY <2>3, <2>4 DEF GoodDay, Divides
        <3> QED BY <3>1
    <2>10. \A i \in 1 .. L : s[i].start \in Int /\ s[i].end \in Int /\ s[i].start < s[i].end
        BY <2>4, <2>9 DEF GoodDay, Good, ToSet
    <2>11. /\ \A i \in 1 .. L - 1 : s[i].end = s[i + 1].start
           /\ s[1].start = b.start /\ s[L].end = b.end
        BY <2>3 DEF Divides
    <2> HIDE DEF L
    <2>12. (\E i \in 1 .. L : m \in s[i].start .. s[i].end - 1) <=> m \in b.start .. b.end - 1
        <3>1. \A i \in 1 .. L - 1 : s[i].end = s[i + 1].start
            BY <2>11
        <3>2. (\E i \in 1 .. L : m \in s[i].start .. s[i].end - 1) <=> m \in s[1].start .. s[L].end - 1
            BY <2>9, <2>10, <3>1, ChainCovers
        <3> QED BY <2>11, <3>2
    <2>13. HasMinute(s, p, m) <=> p = q /\ \E i \in 1 .. L : m \in s[i].start .. s[i].end - 1
        BY <2>7, <2>9 DEF HasMinute, Has, ToSet
    <2>14. Has(b, p, m) <=> p = q /\ m \in b.start .. b.end - 1
        BY <1>2, <2>8 DEF Has
    <2> QED BY <2>12, <2>13, <2>14 DEF s
<1> QED
    BY <1>1, <1>2

-----------------------------------------------------------------------------
(* Two days of events that also agree in what lanes look at, tags aside.   *)

Resembles(g, E, F) ==
    /\ Likeness(g, E, F)
    /\ \A e \in E : g[e].kind = e.kind /\ g[e].session = e.session

LEMMA LikePart ==
    ASSUME NEW E, NEW F, NEW g, Resembles(g, E, F), NEW S, S \subseteq E
    PROVE  Resembles(g, S, ImageBy(g, S))
BY DEF Resembles, Likeness

(* The same holds of the parts that a property they agree in picks out.    *)
LEMMA ImageMembers ==
    ASSUME NEW g, NEW S
    PROVE  \A d : d \in ImageBy(g, S) <=> \E e \in S : d = g[e]
BY DEF ImageBy

LEMMA SameLeaders ==
    ASSUME NEW E, Rows(E), NEW F, NEW g, Likeness(g, E, F), NEW V, V \subseteq E
    PROVE  Leading(ImageBy(g, V)) = Leading(V)
<1> DEFINE W == ImageBy(g, V)
           of(p) == {e \in V : e.project = p}
           its(p) == {d \in W : d.project = p}
<1>1. \A e \in V : g[e] \in W /\ g[e].project = e.project
    BY DEF ImageBy, Likeness
<1>2. \A d \in W : \E e \in V : d = g[e]
    BY DEF ImageBy
<1>3. ASSUME NEW p PROVE Cardinality(its(p)) = Cardinality(of(p))
    <2>1. its(p) = ImageBy(g, of(p))
        <3>1. \A d : d \in its(p) <=> \E e \in of(p) : d = g[e]
            <4> HIDE DEF W
            <4> QED BY <1>1, <1>2
        <3>2. \A d : d \in ImageBy(g, of(p)) <=> \E e \in of(p) : d = g[e]
            BY ImageMembers
        <3> HIDE DEF its, of
        <3> QED BY <3>1, <3>2
    <2>2. of(p) \in SUBSET E
        OBVIOUS
    <2> HIDE DEF its, of
    <2> QED BY <2>1, <2>2, LikeImages
<1>4. {d.project : d \in W} = {e.project : e \in V}
    <2> HIDE DEF W
    <2> QED BY <1>1, <1>2
<1> DEFINE P == {e.project : e \in V}
           Q == {d.project : d \in W}
<1>5. \A p : p \in Leading(V) <=> p \in P /\ \A q \in P : Cardinality(of(q)) <= Cardinality(of(p))
    BY DEF Leading
<1>6. \A p : p \in Leading(W) <=> p \in Q /\ \A q \in Q : Cardinality(its(q)) <= Cardinality(its(p))
    BY DEF Leading
<1>7. Q = P
    BY <1>4
<1> HIDE DEF of, its, P, Q
<1>8. \A p : p \in Leading(W) <=> p \in Leading(V)
    BY <1>3, <1>5, <1>6, <1>7
<1> HIDE DEF W
<1>9. Leading(W) = Leading(V)
    BY <1>8
<1> QED
    BY <1>9 DEF W

LEMMA LikeHas ==
    ASSUME NEW E, Settled(E), NEW F, NEW g, Resembles(g, E, F),
           NEW b, Good(b, E), NEW c, LikeBlock(g, b, c), NEW p, NEW m
    PROVE  Has(c, p, m) <=> Has(b, p, m)
<1>1. c.start = b.start /\ c.end = b.end /\ c.cal = b.cal /\ c.events = ImageBy(g, b.events)
    BY DEF LikeBlock
<1>2. CASE b.cal
    BY <1>1, <1>2 DEF Has
<1>3. CASE ~b.cal
    <2> DEFINE V == b.events
               W == c.events
    <2>1. V \subseteq E /\ V # {} /\ \A e \in V : e.project # Null /\ e.kind # "lifecycle"
        BY <1>3, GoodIsFolders DEF Good
    <2>2. Rows(E) /\ Likeness(g, E, F)
        BY PartOfDay DEF Settled, Resembles
    <2>3. \A e \in V : g[e] \in W /\ g[e].project = e.project /\ g[e].kind = e.kind
        BY <1>1, <2>1 DEF Resembles, Likeness, ImageBy
    <2>4. \A d \in W : \E e \in V : d = g[e]
        BY <1>1 DEF ImageBy
    <2>5. W # {} /\ \A d \in W : d.project # Null /\ d.kind # "lifecycle"
        <3> HIDE DEF V, W
        <3> QED BY <2>1, <2>3, <2>4
    <2>6. V = {e \in b.events : e.project # Null /\ e.kind # "lifecycle"}
        BY <2>1
    <2>7. W = {e \in c.events : e.project # Null /\ e.kind # "lifecycle"}
        BY <2>5
    <2>8. DominantFolders(b) = Leading(V)
        BY <2>1, <2>6, DominantIs
    <2>9. DominantFolders(c) = Leading(W)
        BY <2>5, <2>7, DominantIs
    <2>10. Leading(ImageBy(g, V)) = Leading(V)
        BY <2>1, <2>2, SameLeaders
    <2>11. W = ImageBy(g, V)
        BY <1>1
    <2>12. DominantFolders(c) = DominantFolders(b)
        BY <2>8, <2>9, <2>10, <2>11
    <2> QED BY <1>1, <2>12 DEF Has
<1> QED
    BY <1>2, <1>3

(* What is clustered has the same minutes on both days. *)
LEMMA LikeBuilt ==
    ASSUME NEW E, Settled(E), NEW F, Settled(F), NEW g, Resembles(g, E, F),
           NEW S, S \subseteq E, NEW p, NEW m
    PROVE  HasMinute(BuildBlocks(ImageBy(g, S)), p, m) <=> HasMinute(BuildBlocks(S), p, m)
<1> DEFINE T == ImageBy(g, S)
           bs == BuildBlocks(S)
           cs == BuildBlocks(T)
<1>1. Resembles(g, S, T) /\ Likeness(g, S, T)
    BY LikePart DEF Resembles
<1>2. Rows(S) /\ DayRows(E) /\ DayRows(F)
    BY PartOfDay DEF Settled
<1>3. T \subseteq F
    BY DEF ImageBy, Resembles, Likeness
<1> HIDE DEF T
<1>4. LikeBlocks(g, bs, cs)
    BY <1>1, <1>2, ClusteringSeesTimesAndFolders
<1>5. GoodDay(bs, E) /\ GoodDay(cs, F)
    BY <1>2, <1>3, BuiltGood
<1> HIDE DEF bs, cs
<1>6. DOMAIN bs = 1 .. Len(bs) /\ DOMAIN cs = 1 .. Len(cs)
    <2>1. bs \in Seq(ToSet(bs)) /\ cs \in Seq(ToSet(cs))
        BY <1>5 DEF GoodDay
    <2> QED BY <2>1
<1>7. DOMAIN cs = DOMAIN bs /\ \A i \in DOMAIN bs : LikeBlock(g, bs[i], cs[i])
    BY <1>4, <1>6 DEF LikeBlocks
<1>8. \A i \in DOMAIN bs : Has(cs[i], p, m) <=> Has(bs[i], p, m)
    <2>1. \A i \in DOMAIN bs : Good(bs[i], E)
        BY <1>5 DEF GoodDay, ToSet
    <2> QED BY <1>7, <2>1, LikeHas
<1> QED
    BY <1>7, <1>8 DEF HasMinute, ToSet, T, bs, cs

-----------------------------------------------------------------------------
(* Stretches on both days. *)

Worth(r, S) ==
    /\ ~(Cardinality({e.at : e \in S}) < MIN_EVIDENCE_MINUTES)
    /\ ~({e \in S : e.project # Null} = {} \/ r.last + 1 <= r.first \/ TooThin(r.first, r.last + 1, FALSE))

Spanning(r, S) ==
    [start |-> r.first, end |-> r.last + 1, ticket |-> UniqueTicket(S), cal |-> FALSE, events |-> S]

LEMMA StretchBlockShape ==
    ASSUME NEW r, NEW E
    PROVE  StretchBlock(r, E) = IF Worth(r, InStretch(r, E)) THEN <<Spanning(r, InStretch(r, E))>> ELSE <<>>
<1> DEFINE S == InStretch(r, E)
           located(F) == {e \in F : e.project # Null}
           closer(d, e) == \/ Distance(d.at, r.first) < Distance(e.at, r.first)
                           \/ Distance(d.at, r.first) = Distance(e.at, r.first) /\ Earlier(d, e)
           nearest == {e \in located({}) : \A d \in located({}) \ {e} : closer(e, d)}
           events == IF located(S) = {} THEN S \cup nearest ELSE S
<1>1. StretchBlock(r, E) = IF Cardinality({e.at : e \in S}) < MIN_EVIDENCE_MINUTES THEN <<>>
                           ELSE SpanBlock(S, r.first, r.last + 1, {}, FALSE)
    BY DEF StretchBlock, InStretch
<1>2. SpanBlock(S, r.first, r.last + 1, {}, FALSE)
        = IF located(events) = {} \/ r.last + 1 <= r.first \/ TooThin(r.first, r.last + 1, FALSE) THEN <<>>
          ELSE <<[start |-> r.first, end |-> r.last + 1, ticket |-> UniqueTicket(events),
                  cal |-> FALSE, events |-> events]>>
    BY DEF SpanBlock
<1>3. events = S
    OBVIOUS
<1> HIDE DEF events, S
<1>4. SpanBlock(S, r.first, r.last + 1, {}, FALSE)
        = IF located(S) = {} \/ r.last + 1 <= r.first \/ TooThin(r.first, r.last + 1, FALSE) THEN <<>>
          ELSE <<Spanning(r, S)>>
    BY <1>2, <1>3 DEF Spanning
<1>5. StretchBlock(r, E) = IF Worth(r, S) THEN <<Spanning(r, S)>> ELSE <<>>
    <2>1. CASE Cardinality({e.at : e \in S}) < MIN_EVIDENCE_MINUTES
        BY <1>1, <2>1 DEF Worth
    <2>2. CASE ~(Cardinality({e.at : e \in S}) < MIN_EVIDENCE_MINUTES)
        <3>1. StretchBlock(r, E) = SpanBlock(S, r.first, r.last + 1, {}, FALSE)
            BY <1>1, <2>2
        <3>2. Worth(r, S) <=> ~(located(S) = {} \/ r.last + 1 <= r.first \/ TooThin(r.first, r.last + 1, FALSE))
            BY <2>2 DEF Worth
        <3> HIDE DEF located
        <3> QED BY <1>4, <3>1, <3>2
    <2> QED BY <2>1, <2>2
<1> QED
    BY <1>5 DEF S

LEMMA LikeStretch ==
    ASSUME NEW E, Settled(E), NEW F, NEW g, Resembles(g, E, F),
           NEW K, NEW r \in Run(K), NEW p, NEW m
    PROVE  HasMinute(StretchBlock(r, F), p, m) <=> HasMinute(StretchBlock(r, E), p, m)
<1> DEFINE S == InStretch(r, E)
           T == InStretch(r, F)
           b == Spanning(r, S)
           c == Spanning(r, T)
<1>1. T = ImageBy(g, S)
    <2>1. \A d \in F : \E e \in E : d = g[e]
        BY DEF Resembles, Likeness, ImageBy
    <2>2. \A e \in E : g[e] \in F /\ g[e].cal = e.cal /\ g[e].at = e.at /\ LaneFolder(g[e]) = LaneFolder(e)
        BY DEF Resembles, Likeness, ImageBy, LaneFolder
    <2>3. \A d : d \in T <=> \E e \in S : d = g[e]
        BY <2>1, <2>2 DEF InStretch
    <2>4. \A d : d \in ImageBy(g, S) <=> \E e \in S : d = g[e]
        BY ImageMembers
    <2> HIDE DEF S, T
    <2> QED BY <2>3, <2>4
<1>2. /\ S \subseteq E /\ \A e \in S : g[e] \in T /\ g[e].at = e.at /\ g[e].project = e.project
      /\ \A d \in T : \E e \in S : d = g[e]
    BY <1>1 DEF InStretch, ImageBy, Resembles, Likeness
<1>3. /\ b.start = r.first /\ b.end = r.last + 1 /\ b.cal = FALSE /\ b.events = S
      /\ c.start = r.first /\ c.end = r.last + 1 /\ c.cal = FALSE /\ c.events = T
    BY DEF Spanning
<1>4. /\ StretchBlock(r, E) = IF Worth(r, S) THEN <<b>> ELSE <<>>
      /\ StretchBlock(r, F) = IF Worth(r, T) THEN <<c>> ELSE <<>>
    BY StretchBlockShape
<1>5. ToSet(<<>>) = {} /\ ToSet(<<b>>) = {b} /\ ToSet(<<c>>) = {c}
    BY DEF ToSet
<1>6. \A x \in ToSet(StretchBlock(r, E)) : StretchKept(r, x, E)
    BY StretchBlockIs
<1>7. \A e \in S : ~e.cal
    BY DEF InStretch
<1>8. InStretch(r, E) = S
    OBVIOUS
<1> HIDE DEF S, T, b, c
<1>9. Worth(r, T) <=> Worth(r, S)
    <2>1. {d.at : d \in T} = {e.at : e \in S}
        BY <1>2
    <2>2. {d \in T : d.project # Null} = {} <=> {e \in S : e.project # Null} = {}
        BY <1>2
    <2> QED BY <2>1, <2>2 DEF Worth
<1>10. CASE ~Worth(r, S)
    BY <1>4, <1>5, <1>9, <1>10 DEF HasMinute
<1>11. CASE Worth(r, S)
    <2>1. Good(b, E)
        <3>1. PieceOf(b, S)
            BY <1>4, <1>5, <1>6, <1>8, <1>11 DEF StretchKept
        <3> QED BY <1>2, <1>7, <3>1, PieceGood
    <2>2. LikeBlock(g, b, c)
        BY <1>1, <1>3 DEF LikeBlock
    <2>3. Has(c, p, m) <=> Has(b, p, m)
        BY <2>1, <2>2, LikeHas
    <2>4. ToSet(StretchBlock(r, E)) = {b} /\ ToSet(StretchBlock(r, F)) = {c}
        BY <1>4, <1>5, <1>9, <1>11
    <2> QED BY <2>3, <2>4 DEF HasMinute
<1> QED
    BY <1>10, <1>11

(* The folders' votes are the same on both days. *)
LEMMA SameVotes ==
    ASSUME NEW E, NEW F, NEW g, Resembles(g, E, F)
    PROVE  /\ KeyedByFolder(F) = KeyedByFolder(E)
           /\ {LaneFolder(e) : e \in Voting(F)} = {LaneFolder(e) : e \in Voting(E)}
<1>1. \A e \in E : g[e] \in F /\ g[e].cal = e.cal /\ g[e].project = e.project
    BY DEF Resembles, Likeness, ImageBy
<1>2. \A d \in F : \E e \in E : d = g[e]
    BY DEF Resembles, Likeness, ImageBy
<1>3. ASSUME NEW e \in E
      PROVE  LaneFolder(g[e]) = LaneFolder(e) /\ Vote(g[e], LaneFolder(g[e])) = Vote(e, LaneFolder(e))
    <2>1. /\ g[e].id = e.id /\ g[e].at = e.at /\ g[e].kind = e.kind
          /\ LaneFolder(g[e]) = LaneFolder(e)
        BY DEF Resembles, Likeness, LaneFolder
    <2>2. IsHuman(g[e]) = IsHuman(e) /\ FocusMinutes(g[e]) = FocusMinutes(e)
        BY <2>1 DEF IsHuman, FocusMinutes
    <2> QED BY <2>1, <2>2 DEF Vote
<1>4. \A d \in Voting(F) : \E e \in Voting(E) : d = g[e]
    BY <1>1, <1>2 DEF Voting
<1>5. \A e \in Voting(E) : g[e] \in Voting(F) /\ e \in E
    BY <1>1 DEF Voting
<1>6. \A v : v \in KeyedByFolder(F) <=> v \in KeyedByFolder(E)
    BY <1>3, <1>4, <1>5 DEF KeyedByFolder
<1>7. \A k : k \in {LaneFolder(e) : e \in Voting(F)} <=> k \in {LaneFolder(e) : e \in Voting(E)}
    BY <1>3, <1>4, <1>5
<1>8. KeyedByFolder(F) = KeyedByFolder(E)
    BY <1>6
<1> QED
    BY <1>7, <1>8

(* Fewer than two folders: what votes is of one. *)
LEMMA OneFolder ==
    ASSUME NEW E, IsFiniteSet(E), Cardinality({LaneFolder(e) : e \in Voting(E)}) < 2
    PROVE  \E q : \A e \in Voting(E) : e.project = q
<1> DEFINE P == {LaneFolder(e) : e \in Voting(E)}
<1>1. Voting(E) \subseteq E
    BY DEF Voting
<1>2. IsFiniteSet(P)
    <2> DEFINE W == Voting(E)
               f == [e \in W |-> LaneFolder(e)]
    <2>1. f \in Surjection(W, P)
        BY DEF Surjection
    <2>2. IsFiniteSet(W)
        BY <1>1, FS_Subset
    <2> HIDE DEF f, P, W
    <2> QED BY <2>1, <2>2, FS_Surjection
<1>3. ASSUME NEW d \in Voting(E), NEW e \in Voting(E) PROVE d.project = e.project
    <2> SUFFICES ASSUME d.project # e.project PROVE FALSE
        OBVIOUS
    <2> DEFINE x == LaneFolder(d)
               y == LaneFolder(e)
    <2>1. x # y /\ x \in P /\ y \in P
        BY DEF LaneFolder
    <2> HIDE DEF P, x, y
    <2>2. Cardinality({x, y}) = 2
        <3>1. IsFiniteSet({x}) /\ Cardinality({x}) = 1
            BY FS_Singleton
        <3>2. Cardinality({x} \cup {y}) = Cardinality({x}) + 1
            BY <2>1, <3>1, FS_AddElement
        <3>3. {x} \cup {y} = {x, y}
            OBVIOUS
        <3> QED BY <3>1, <3>2, <3>3
    <2>3. {x, y} \subseteq P
        BY <2>1
    <2>4. Cardinality({x, y}) <= Cardinality(P) /\ Cardinality(P) \in Nat
        BY <1>2, <2>3, FS_Subset, FS_CardinalityType
    <2>5. Cardinality(P) < 2
        BY DEF P
    <2> QED BY <2>2, <2>4, <2>5
<1>4. CASE Voting(E) = {}
    BY <1>4
<1>5. CASE Voting(E) # {}
    <2>1. PICK d : d \in Voting(E)
        BY <1>5
    <2> QED BY <1>3, <2>1
<1> QED
    BY <1>4, <1>5

LEMMA DividedMinutes ==
    ASSUME NEW E, Settled(E), NEW bs, GoodDay(bs, E), NEW p, NEW m
    PROVE  HasMinute(DivideBlocks(bs, E), p, m) <=> \E b \in ToSet(bs) : HasMinute(DivideBlock(b, E), p, m)
<1>1. ToSet(DivideBlocks(bs, E)) = UNION {ToSet(DivideBlock(b, E)) : b \in ToSet(bs)}
    BY DayDivided
<1> QED
    BY <1>1 DEF HasMinute

LEMMA RunMinutes ==
    ASSUME NEW E, Settled(E), NEW K, NEW runs \in Seq(Run(K)), NEW p, NEW m
    PROVE  HasMinute(BlocksOfRuns(runs, E), p, m) <=>
              \/ \E i \in DOMAIN runs : HasMinute(StretchBlock(runs[i], E), p, m)
              \/ HasMinute(BuildBlocks(Unowned(runs, E)), p, m)
<1> DEFINE work == OwnedBlocks(runs, E)
           meet == BuildBlocks({e \in E : e.cal})
           rest == BuildBlocks(Unowned(runs, E))
           day == BlocksOfRuns(runs, E)
<1>1. \A b : b \in ToSet(day) <=> \/ \E k \in ToSet(work) : b \in ToSet(DivideBlock(k, E))
                                  \/ b \in ToSet(meet) \/ b \in ToSet(rest)
    BY RunBlocksAre
<1>2. \A b \in ToSet(meet) : b.cal
    <2> DEFINE M == {e \in E : e.cal}
    <2>1. M \subseteq E /\ \A e \in M : e.cal
        OBVIOUS
    <2> HIDE DEF M
    <2>2. DayRows(M)
        <3>1. IsFiniteSet(M)
            BY <2>1, FS_Subset DEF Settled, DayRows
        <3> QED BY <2>1, <3>1 DEF Settled, DayRows
    <2>3. GoodDay(BuildBlocks(M), M)
        BY <2>2, BuiltGood
    <2>4. \A b \in ToSet(BuildBlocks(M)) : b.cal
        BY <2>1, <2>3 DEF GoodDay, Good, PureBlock
    <2> QED BY <2>4 DEF M
<1>3. ToSet(work) = UNION {ToSet(StretchBlock(runs[i], E)) : i \in DOMAIN runs}
    BY OwnedGood
<1>4. ASSUME NEW i \in DOMAIN runs, NEW k \in ToSet(StretchBlock(runs[i], E))
      PROVE  HasMinute(DivideBlock(k, E), p, m) <=> Has(k, p, m)
    <2>1. StretchKept(runs[i], k, E)
        <3>1. runs[i] \in Run(K)
            OBVIOUS
        <3> QED BY <3>1, StretchBlockIs
    <2> DEFINE S == InStretch(runs[i], E)
    <2>2. PieceOf(k, S)
        BY <2>1 DEF StretchKept
    <2>3. S \subseteq E /\ (\A e \in S : ~e.cal) /\ \A e \in S : LaneFolder(e) = runs[i].owner
        BY DEF InStretch
    <2> HIDE DEF S
    <2>4. Good(k, E)
        BY <2>2, <2>3, PieceGood
    <2>5. \A e \in k.events : e.project = runs[i].owner[1]
        BY <2>2, <2>3 DEF PieceOf, LaneFolder
    <2>6. \A e \in k.events : k.cal \/ e.project = runs[i].owner[1]
        BY <2>5
    <2> QED BY <2>4, <2>6, OneFolderDivided
<1> HIDE DEF work, meet, rest, day
<1>5. HasMinute(day, p, m) <=> \/ \E k \in ToSet(work) : HasMinute(DivideBlock(k, E), p, m)
                               \/ HasMinute(rest, p, m)
    BY <1>1, <1>2 DEF HasMinute, Has
<1>6. (\E k \in ToSet(work) : HasMinute(DivideBlock(k, E), p, m))
         <=> \E i \in DOMAIN runs : HasMinute(StretchBlock(runs[i], E), p, m)
    <2>1. \A k : k \in ToSet(work) <=> \E i \in DOMAIN runs : k \in ToSet(StretchBlock(runs[i], E))
        BY <1>3
    <2>2. \A i \in DOMAIN runs : HasMinute(StretchBlock(runs[i], E), p, m)
             <=> \E k \in ToSet(StretchBlock(runs[i], E)) : Has(k, p, m)
        BY DEF HasMinute
    <2> QED BY <1>4, <2>1, <2>2
<1> QED
    BY <1>5, <1>6 DEF day, rest

LEMMA OneFolderMinutes ==
    ASSUME NEW E, Settled(E), Cardinality({LaneFolder(e) : e \in Voting(E)}) < 2, NEW p, NEW m
    PROVE  HasMinute(ProjectBlocks(E), p, m) <=> HasMinute(BuildBlocks(E), p, m)
<1> DEFINE bs == BuildBlocks(E)
<1>1. ProjectBlocks(E) = DivideBlocks(bs, E)
    BY DEF ProjectBlocks
<1>2. GoodDay(bs, E)
    BY BuiltGood DEF Settled
<1> HIDE DEF bs
<1>3. PICK q : \A e \in Voting(E) : e.project = q
    BY OneFolder DEF Settled, DayRows
<1>4. ASSUME NEW b \in ToSet(bs) PROVE HasMinute(DivideBlock(b, E), p, m) <=> Has(b, p, m)
    <2>1. Good(b, E)
        BY <1>2 DEF GoodDay
    <2>2. \A e \in b.events : b.cal \/ e.project = q
        <3> SUFFICES ASSUME ~b.cal, NEW e \in b.events PROVE e.project = q
            OBVIOUS
        <3>1. e \in E /\ ~e.cal /\ e.project # Null
            BY <2>1, GoodIsFolders DEF Good
        <3> QED BY <1>3, <3>1 DEF Voting
    <2> QED BY <2>1, <2>2, OneFolderDivided
<1>5. HasMinute(DivideBlocks(bs, E), p, m) <=> \E b \in ToSet(bs) : HasMinute(DivideBlock(b, E), p, m)
    BY <1>2, DividedMinutes
<1>6. HasMinute(bs, p, m) <=> \E b \in ToSet(bs) : Has(b, p, m)
    BY DEF HasMinute
<1> QED
    BY <1>1, <1>4, <1>5, <1>6 DEF bs

(* So the folders' minutes do not depend on the tags.                      *)
LEMMA LikeProjects ==
    ASSUME NEW E, Settled(E), NEW F, Settled(F), NEW g, Resembles(g, E, F), NEW p, NEW m
    PROVE  HasMinute(ProjectBlocks(F), p, m) <=> HasMinute(ProjectBlocks(E), p, m)
<1> DEFINE N == Cardinality({LaneFolder(e) : e \in Voting(E)})
           M == Cardinality({LaneFolder(e) : e \in Voting(F)})
           runs == LaneRuns(KeyedByFolder(E))
<1>1. KeyedByFolder(F) = KeyedByFolder(E) /\ M = N
    BY SameVotes
<1>2. F = ImageBy(g, E)
    BY DEF Resembles, Likeness
<1>3. CASE N < 2
    <2>1. HasMinute(ProjectBlocks(E), p, m) <=> HasMinute(BuildBlocks(E), p, m)
        BY <1>3, OneFolderMinutes
    <2>2. HasMinute(ProjectBlocks(F), p, m) <=> HasMinute(BuildBlocks(F), p, m)
        <3>1. M < 2
            BY <1>1, <1>3
        <3> QED BY <3>1, OneFolderMinutes
    <2>3. E \subseteq E
        OBVIOUS
    <2>4. HasMinute(BuildBlocks(F), p, m) <=> HasMinute(BuildBlocks(E), p, m)
        BY <1>2, <2>3, LikeBuilt
    <2> QED BY <2>1, <2>2, <2>4
<1>4. CASE ~(N < 2)
    <2>1. Voting(E) # {}
        <3>1. Voting(E) = {} => N = Cardinality({})
            OBVIOUS
        <3>2. Cardinality({}) = 0
            BY FS_EmptySet
        <3> HIDE DEF N
        <3> QED BY <1>4, <3>1, <3>2
    <2> DEFINE K == Keys(KeyedByFolder(E))
    <2>2. runs \in Seq(Run(K))
        BY <2>1, PartOfDay, FolderVotes, LanesAre DEF Settled
    <2>3. ProjectBlocks(E) = BlocksOfRuns(runs, E)
        BY <1>4 DEF ProjectBlocks
    <2>4. ProjectBlocks(F) = BlocksOfRuns(runs, F)
        BY <1>1, <1>4 DEF ProjectBlocks
    <2> HIDE DEF runs, K, N, M
    <2>5. \A i \in DOMAIN runs : HasMinute(StretchBlock(runs[i], F), p, m)
                                   <=> HasMinute(StretchBlock(runs[i], E), p, m)
        <3>1. \A i \in DOMAIN runs : runs[i] \in Run(K)
            BY <2>2
        <3> QED BY <3>1, LikeStretch
    <2>6. HasMinute(BuildBlocks(Unowned(runs, F)), p, m) <=> HasMinute(BuildBlocks(Unowned(runs, E)), p, m)
        <3> DEFINE S == Unowned(runs, E)
                   T == Unowned(runs, F)
        <3>1. \A e \in E : g[e] \in F /\ g[e].cal = e.cal /\ g[e].at = e.at
            BY DEF Resembles, Likeness, ImageBy
        <3>2. \A d \in F : \E e \in E : d = g[e]
            BY DEF Resembles, Likeness, ImageBy
        <3>3. \A d : d \in T <=> \E e \in S : d = g[e]
            BY <3>1, <3>2 DEF Unowned
        <3>4. \A d : d \in ImageBy(g, S) <=> \E e \in S : d = g[e]
            BY ImageMembers
        <3>5. S \subseteq E
            BY DEF Unowned
        <3> HIDE DEF S, T
        <3>6. T = ImageBy(g, S)
            BY <3>3, <3>4
        <3>7. HasMinute(BuildBlocks(ImageBy(g, S)), p, m) <=> HasMinute(BuildBlocks(S), p, m)
            BY <3>5, LikeBuilt
        <3> QED BY <3>6, <3>7 DEF S, T
    <2>7. HasMinute(BlocksOfRuns(runs, E), p, m) <=>
              \/ \E i \in DOMAIN runs : HasMinute(StretchBlock(runs[i], E), p, m)
              \/ HasMinute(BuildBlocks(Unowned(runs, E)), p, m)
        BY <2>2, RunMinutes
    <2>8. HasMinute(BlocksOfRuns(runs, F), p, m) <=>
              \/ \E i \in DOMAIN runs : HasMinute(StretchBlock(runs[i], F), p, m)
              \/ HasMinute(BuildBlocks(Unowned(runs, F)), p, m)
        BY <2>2, RunMinutes
    <2> QED BY <2>3, <2>4, <2>5, <2>6, <2>7, <2>8
<1> QED
    BY <1>3, <1>4

-----------------------------------------------------------------------------
(* Whole days: who was there, and what is left without riders.             *)

LEMMA SameAttended ==
    ASSUME NEW D, DayRows(D), NEW G, NEW g, Resembles(g, D, G), NEW e \in D
    PROVE  Attended(g[e], G) <=> Attended(e, D)
<1>1. \A d \in D : /\ g[d] \in G /\ g[d].at = d.at /\ g[d].kind = d.kind /\ g[d].session = d.session
                   /\ g[d] = g[e] <=> d = e
    <2>1. \A d \in D : /\ g[d] \in G /\ g[d].at = d.at /\ g[d].kind = d.kind /\ g[d].session = d.session
                       /\ g[d].id = d.id
        BY DEF Resembles, Likeness, ImageBy
    <2>2. \A d \in D : d.id = e.id => d = e
        BY DEF DayRows
    <2> QED BY <2>1, <2>2
<1>2. \A c \in G : \E d \in D : c = g[d]
    BY DEF Resembles, Likeness, ImageBy
<1> DEFINE Mates == {d \in D : d.session = e.session}
           Others == {c \in G : c.session = g[e].session}
<1>3. (\A d \in Mates : g[d] \in Others /\ d \in D) /\ \A c \in Others : \E d \in Mates : c = g[d]
    BY <1>1, <1>2
<1>4. g[e].at = e.at /\ g[e].kind = e.kind /\ g[e].session = e.session
    BY <1>1
<1> DEFINE acts(S, x) == \E d \in S : /\ d.kind \in {"turn", "submit"} /\ d.at <= x.at
                                      /\ x.at - d.at <= HEARTBEAT_RECENT_MINUTES
           dense(S, x) == \E d \in S \ {x} : /\ d.kind = "heartbeat"
                                             /\ Distance(d.at, x.at) <= HEARTBEAT_DENSE_MINUTES
<1>5. Attended(e, D) <=> \/ e.kind \notin {"heartbeat", "hook"} \/ e.session = Null
                         \/ acts(Mates, e) \/ (e.kind = "heartbeat" /\ dense(Mates, e))
    BY DEF Attended
<1>6. Attended(g[e], G) <=> \/ g[e].kind \notin {"heartbeat", "hook"} \/ g[e].session = Null
                            \/ acts(Others, g[e]) \/ (g[e].kind = "heartbeat" /\ dense(Others, g[e]))
    BY DEF Attended
<1> HIDE DEF Mates, Others
<1>7. acts(Others, g[e]) <=> acts(Mates, e)
    <2>1. \A d \in Mates : g[d].at = d.at /\ g[d].kind = d.kind
        BY <1>1, <1>3
    <2> QED BY <1>3, <1>4, <2>1
<1>8. dense(Others, g[e]) <=> dense(Mates, e)
    <2>1. \A d \in Mates : g[d].at = d.at /\ g[d].kind = d.kind /\ (g[d] = g[e] <=> d = e)
        BY <1>1, <1>3
    <2> QED BY <1>3, <1>4, <2>1
<1> HIDE DEF acts, dense
<1> QED
    BY <1>4, <1>5, <1>6, <1>7, <1>8

LEMMA SameCounted ==
    ASSUME NEW D, DayRows(D), NEW G, NEW g, Resembles(g, D, G)
    PROVE  {e \in Counted(G) : ~Rides(e)} = ImageBy(g, {e \in Counted(D) : ~Rides(e)})
<1> DEFINE B == {e \in Counted(D) : ~Rides(e)}
           H == {e \in Counted(G) : ~Rides(e)}
<1>1. \A c \in G : \E d \in D : c = g[d]
    BY DEF Resembles, Likeness, ImageBy
<1>2. \A d \in D : g[d] \in G /\ g[d].kind = d.kind /\ g[d].cal = d.cal /\ g[d].project = d.project
    BY DEF Resembles, Likeness, ImageBy
<1>3. \A d \in D : Attended(g[d], G) <=> Attended(d, D)
    BY SameAttended
<1>4. \A c : c \in H <=> \E d \in B : c = g[d]
    BY <1>1, <1>2, <1>3 DEF Counted, Rides
<1>5. \A c : c \in ImageBy(g, B) <=> \E d \in B : c = g[d]
    BY ImageMembers
<1> HIDE DEF B, H
<1>6. H = ImageBy(g, B)
    BY <1>4, <1>5
<1> QED
    BY <1>6 DEF B, H

(* Two days that resemble each other give every folder the same minutes.   *)
LEMMA LikeDays ==
    ASSUME NEW D, DayRows(D), NEW G, DayRows(G), NEW g, Resembles(g, D, G), NEW p
    PROVE  Covered(Of(p, BuildBlocksByProject(G))) = Covered(Of(p, BuildBlocksByProject(D)))
<1> DEFINE B == {e \in Counted(D) : ~Rides(e)}
           H == {e \in Counted(G) : ~Rides(e)}
<1>1. Settled(B) /\ Settled(H) /\ B \subseteq D
    BY CountedRows DEF Counted
<1>2. H = ImageBy(g, B)
    BY SameCounted
<1>3. Covered(Of(p, BuildBlocksByProject(D))) = IF Folderless(B) THEN {} ELSE Covered(Of(p, ProjectBlocks(B)))
    BY MinutesAre
<1>4. Covered(Of(p, BuildBlocksByProject(G))) = IF Folderless(H) THEN {} ELSE Covered(Of(p, ProjectBlocks(H)))
    BY MinutesAre
<1> HIDE DEF B, H
<1>5. Resembles(g, B, H)
    BY <1>1, <1>2, LikePart
<1>6. Folderless(H) <=> Folderless(B)
    BY <1>5 DEF Folderless, Resembles, Likeness, ImageBy
<1>7. \A m : m \in Covered(Of(p, ProjectBlocks(H))) <=> m \in Covered(Of(p, ProjectBlocks(B)))
    <2> TAKE m
    <2>1. HasMinute(ProjectBlocks(H), p, m) <=> HasMinute(ProjectBlocks(B), p, m)
        BY <1>1, <1>5, LikeProjects
    <2> QED BY <2>1, MinutesOf
<1>8. Covered(Of(p, ProjectBlocks(H))) = Covered(Of(p, ProjectBlocks(B)))
    BY <1>7
<1> QED
    BY <1>3, <1>4, <1>6, <1>8

-----------------------------------------------------------------------------
(* Without customers the day is the same but for customers and tags.       *)

Bare(e) == [e EXCEPT !.customer = 0, !.tag = 0]

LEMMA AnonymousIs ==
    ASSUME NEW e, DOMAIN e = Fields
    PROVE  /\ DOMAIN Anonymous(e) = Fields /\ Anonymous(e).customer = 0
           /\ Anonymous(e).id = e.id /\ Anonymous(e).at = e.at /\ Anonymous(e).until = e.until
           /\ Anonymous(e).cal = e.cal /\ Anonymous(e).project = e.project
           /\ Anonymous(e).kind = e.kind /\ Anonymous(e).session = e.session
           /\ Anonymous(e).tag = e.tag
BY DEF Anonymous, Fields

(* Latest comes after all others, First before them. *)
LEMMA LatestEnds ==
    ASSUME NEW E, IsFiniteSet(E), E # {}, \A e \in E : e.id \in Int /\ e.at \in Int,
           \A d, e \in E : d.id = e.id => d = e
    PROVE  /\ \A d \in E \ {Latest(E)} : Earlier(d, Latest(E))
           /\ \A d \in E \ {First(E)} : Earlier(First(E), d)
BY TimeHasEnds DEF Latest, First

(* The ends of the day's order are what they were.                         *)
LEMMA SameEnds ==
    ASSUME NEW S, IsFiniteSet(S), S # {}, \A e \in S : DOMAIN e = Fields /\ e.id \in Int /\ e.at \in Int,
           \A d, e \in S : d.id = e.id => d = e
    PROVE  /\ Latest({Anonymous(e) : e \in S}).project = Latest(S).project
           /\ First({Anonymous(e) : e \in S}).project = First(S).project
<1> DEFINE a(e) == Anonymous(e)
           T == {a(e) : e \in S}
<1>1. \A e \in S : a(e).id = e.id /\ a(e).at = e.at /\ a(e).project = e.project
    BY AnonymousIs
<1>2. IsFiniteSet(T)
    <2> DEFINE f == [e \in S |-> a(e)]
    <2>1. f \in Surjection(S, T)
        BY DEF Surjection
    <2> HIDE DEF f, T
    <2> QED BY <2>1, FS_Surjection
<1>3. (\A e \in S : a(e) \in T) /\ (\A d \in T : \E e \in S : d = a(e)) /\ T # {}
    OBVIOUS
<1> HIDE DEF T, a
<1>4. (\A d \in T : d.id \in Int /\ d.at \in Int) /\ \A c, d \in T : c.id = d.id => c = d
    BY <1>1, <1>3
<1>5. Latest(S) \in S /\ First(S) \in S /\ Latest(T) \in T /\ First(T) \in T
    BY <1>2, <1>3, <1>4, LatestIs
<1>6. \A d, e \in S : d # e => (Earlier(d, e) <=> ~Earlier(e, d))
    BY DEF Earlier
<1>7. \A d, e \in S : Earlier(a(d), a(e)) <=> Earlier(d, e)
    BY <1>1 DEF Earlier
<1>8. /\ \A d \in S \ {Latest(S)} : Earlier(d, Latest(S))
      /\ \A d \in S \ {First(S)} : Earlier(First(S), d)
    BY LatestEnds
<1>9. /\ \A d \in T \ {Latest(T)} : Earlier(d, Latest(T))
      /\ \A d \in T \ {First(T)} : Earlier(First(T), d)
    BY <1>2, <1>3, <1>4, LatestEnds
<1>10. PICK l \in S : Latest(T) = a(l)
    BY <1>3, <1>5
<1>11. PICK f \in S : First(T) = a(f)
    BY <1>3, <1>5
<1>12. l = Latest(S)
    <2> SUFFICES ASSUME l # Latest(S) PROVE FALSE
        OBVIOUS
    <2>1. Earlier(l, Latest(S))
        BY <1>8
    <2>2. a(Latest(S)) # a(l)
        BY <1>1, <1>5
    <2>3. Earlier(a(Latest(S)), a(l))
        BY <1>3, <1>5, <1>9, <1>10, <2>2
    <2> QED BY <1>5, <1>6, <1>7, <2>1, <2>3
<1>13. f = First(S)
    <2> SUFFICES ASSUME f # First(S) PROVE FALSE
        OBVIOUS
    <2>1. Earlier(First(S), f)
        BY <1>8
    <2>2. a(First(S)) # a(f)
        BY <1>1, <1>5
    <2>3. Earlier(a(f), a(First(S)))
        BY <1>3, <1>5, <1>9, <1>11, <2>2
    <2> QED BY <1>5, <1>6, <1>7, <2>1, <2>3
<1> QED
    BY <1>1, <1>10, <1>11, <1>12, <1>13 DEF T, a

LEMMA AnonymousRows ==
    ASSUME NEW E, DayRows(E)
    PROVE  DayRows({Anonymous(e) : e \in E})
<1> DEFINE h == [e \in E |-> Anonymous(e)]
<1>1. ASSUME NEW e \in E PROVE DayRow(h[e]) /\ h[e].id = e.id
    <2>1. DayRow(e)
        BY DEF DayRows
    <2>2. h[e] = Anonymous(e)
        OBVIOUS
    <2> HIDE DEF h
    <2> QED BY <2>1, <2>2, AnonymousIs DEF DayRow
<1>2. {Anonymous(e) : e \in E} = {h[e] : e \in E}
    OBVIOUS
<1> HIDE DEF h
<1>3. \A e \in E : DayRow(h[e]) /\ h[e].id = e.id
    BY <1>1
<1>4. DayRows({h[e] : e \in E})
    BY <1>3, MappedRows
<1> QED
    BY <1>2, <1>4

SessionMates(e, E) == {d \in E : d.session = e.session /\ d.project # Null}

Sooner(e, E) == {d \in SessionMates(e, E) : Earlier(d, e)}

FolderFor(e, E) ==
    IF e.project # Null \/ e.session = Null \/ SessionMates(e, E) = {} THEN e.project
    ELSE IF Sooner(e, E) # {} THEN Latest(Sooner(e, E)).project
    ELSE First(SessionMates(e, E)).project

LEMMA LocatedBy ==
    ASSUME NEW E
    PROVE  Located(E) = {[e EXCEPT !.project = FolderFor(e, E)] : e \in E}
BY DEF Located, FolderFor, Sooner, SessionMates

LEMMA SameFolderFor ==
    ASSUME NEW E, DayRows(E), NEW e \in E
    PROVE  FolderFor(Anonymous(e), {Anonymous(d) : d \in E}) = FolderFor(e, E)
<1> DEFINE G == {Anonymous(d) : d \in E}
           S == SessionMates(e, E)
           T == SessionMates(Anonymous(e), G)
           R == Sooner(e, E)
           Q == Sooner(Anonymous(e), G)
<1>1. \A d \in E : /\ Anonymous(d) \in G /\ Anonymous(d).session = d.session
                   /\ Anonymous(d).project = d.project
                   /\ Anonymous(d).at = d.at /\ Anonymous(d).id = d.id
    BY AnonymousIs DEF DayRows, DayRow
<1>2. \A c \in G : \E d \in E : c = Anonymous(d)
    OBVIOUS
<1> HIDE DEF G
<1>3. \A d \in E : Earlier(Anonymous(d), Anonymous(e)) <=> Earlier(d, e)
    BY <1>1 DEF Earlier
<1>4. \A c : c \in T <=> c \in {Anonymous(d) : d \in S}
    BY <1>1, <1>2 DEF SessionMates
<1>5. \A c : c \in Q <=> c \in {Anonymous(d) : d \in R}
    BY <1>1, <1>2, <1>3 DEF Sooner, SessionMates
<1>6. T = {Anonymous(d) : d \in S} /\ Q = {Anonymous(d) : d \in R}
    <2>1. T = {Anonymous(d) : d \in S}
        BY <1>4
    <2>2. Q = {Anonymous(d) : d \in R}
        BY <1>5
    <2> QED BY <2>1, <2>2
<1>7. R \subseteq S /\ S \subseteq E
    BY DEF Sooner, SessionMates
<1>8. ASSUME NEW X, X \subseteq E, X # {}
      PROVE  /\ Latest({Anonymous(d) : d \in X}).project = Latest(X).project
             /\ First({Anonymous(d) : d \in X}).project = First(X).project
    <2>1. IsFiniteSet(X)
        BY <1>8, FS_Subset DEF DayRows
    <2>2. \A d \in X : DOMAIN d = Fields /\ d.id \in Int /\ d.at \in Int
        BY <1>8 DEF DayRows, DayRow
    <2>3. \A c, d \in X : c.id = d.id => c = d
        BY <1>8 DEF DayRows
    <2> QED BY <1>8, <2>1, <2>2, <2>3, SameEnds
<1> HIDE DEF S, T, R, Q
<1>9. (T = {} <=> S = {}) /\ (Q = {} <=> R = {})
    BY <1>6
<1>10. S # {} => First(T).project = First(S).project
    BY <1>6, <1>7, <1>8
<1>11. R # {} => Latest(Q).project = Latest(R).project
    <2>1. R \subseteq E
        BY <1>7
    <2> QED BY <1>6, <1>8, <2>1
<1>12. FolderFor(e, E) = IF e.project # Null \/ e.session = Null \/ S = {} THEN e.project
                         ELSE IF R # {} THEN Latest(R).project ELSE First(S).project
    BY DEF FolderFor, S, R
<1>13. FolderFor(Anonymous(e), G)
          = IF Anonymous(e).project # Null \/ Anonymous(e).session = Null \/ T = {} THEN Anonymous(e).project
            ELSE IF Q # {} THEN Latest(Q).project ELSE First(T).project
    BY DEF FolderFor, T, Q
<1>14. FolderFor(Anonymous(e), G) = FolderFor(e, E)
    BY <1>1, <1>9, <1>10, <1>11, <1>12, <1>13
<1> QED
    BY <1>14 DEF G

LEMMA SameLocated ==
    ASSUME NEW E, DayRows(E)
    PROVE  Located({Anonymous(e) : e \in E}) = {Anonymous(x) : x \in Located(E)}
<1> DEFINE G == {Anonymous(e) : e \in E}
           p(e) == FolderFor(e, E)
<1>1. ASSUME NEW e \in E
      PROVE  [Anonymous(e) EXCEPT !.project = p(e)] = Anonymous([e EXCEPT !.project = p(e)])
    <2>1. DOMAIN e = Fields
        BY DEF DayRows, DayRow
    <2> HIDE DEF p
    <2> QED BY <2>1 DEF Anonymous, Fields
<1>2. \A e \in E : FolderFor(Anonymous(e), G) = p(e)
    BY SameFolderFor
<1>3. Located(G) = {[c EXCEPT !.project = FolderFor(c, G)] : c \in G}
    BY LocatedBy
<1>4. Located(E) = {[e EXCEPT !.project = p(e)] : e \in E}
    BY LocatedBy
<1>5. (\A e \in E : Anonymous(e) \in G) /\ \A c \in G : \E e \in E : c = Anonymous(e)
    OBVIOUS
<1> HIDE DEF G, p
<1> DEFINE located(c) == [c EXCEPT !.project = FolderFor(c, G)]
           moved(e) == [e EXCEPT !.project = p(e)]
<1>6. \A e \in E : located(Anonymous(e)) = Anonymous(moved(e))
    BY <1>1, <1>2
<1>7. Located(G) = {located(c) : c \in G} /\ Located(E) = {moved(e) : e \in E}
    BY <1>3, <1>4
<1> HIDE DEF located, moved
<1>8. \A x : x \in Located(G) <=> \E e \in E : x = Anonymous(moved(e))
    BY <1>5, <1>6, <1>7
<1>9. \A x : x \in {Anonymous(y) : y \in Located(E)} <=> \E e \in E : x = Anonymous(moved(e))
    BY <1>7
<1>10. Located(G) = {Anonymous(y) : y \in Located(E)}
    BY <1>8, <1>9
<1> QED
    BY <1>10 DEF G

(* Where no session names a customer nothing is tagged. *)
LEMMA NobodysTags ==
    ASSUME NEW E, \A e \in E : e.customer = 0
    PROVE  Tagged(E) = E
<1> DEFINE customers(e) == {d.customer : d \in {c \in E : c.project = e.project /\ c.session # Null}} \ {0}
<1>1. \A e \in E : customers(e) = {}
    OBVIOUS
<1>2. Cardinality({}) = 0
    BY FS_EmptySet
<1>3. \A e \in E : ~(e.session # Null /\ Cardinality(customers(e)) >= 2)
    <2> HIDE DEF customers
    <2> QED BY <1>1, <1>2
<1>4. Tagged(E) = {IF e.session # Null /\ Cardinality(customers(e)) >= 2
                   THEN [e EXCEPT !.tag = e.customer] ELSE e : e \in E}
    BY DEF Tagged
<1> HIDE DEF customers
<1> QED
    BY <1>3, <1>4

Untagged(E) == \A e \in E : e.tag = 0

LEMMA LocatedUntagged ==
    ASSUME NEW E, DayRows(E), Untagged(E)
    PROVE  Untagged(Located(E))
<1>1. Located(E) = {[e EXCEPT !.project = FolderFor(e, E)] : e \in E}
    BY LocatedBy
<1>2. \A e \in E : [e EXCEPT !.project = FolderFor(e, E)].tag = e.tag
    BY DEF DayRows, DayRow, Fields
<1> QED
    BY <1>1, <1>2 DEF Untagged

(* Taking away customer and tag makes the day the nameless one. *)
LEMMA BareDay ==
    ASSUME NEW L, DayRows(L), Untagged(L)
    PROVE  \E g : Resembles(g, Tagged(L), {Anonymous(x) : x \in L})
<1> DEFINE D == Tagged(L)
           G == {Anonymous(x) : x \in L}
           g == [d \in D |-> Bare(d)]
           customers(e) == {d.customer : d \in {c \in L : c.project = e.project /\ c.session # Null}} \ {0}
           tag(e) == IF e.session # Null /\ Cardinality(customers(e)) >= 2
                     THEN [e EXCEPT !.tag = e.customer] ELSE e
<1>1. D = {tag(e) : e \in L}
    BY DEF Tagged
<1>2. ASSUME NEW e \in L PROVE Bare(tag(e)) = Anonymous(e)
    <2>1. DOMAIN e = Fields /\ e.tag = 0
        BY DEF DayRows, DayRow, Untagged
    <2>2. tag(e) = [e EXCEPT !.tag = e.customer] \/ tag(e) = e
        OBVIOUS
    <2> HIDE DEF tag
    <2> QED BY <2>1, <2>2 DEF Bare, Anonymous, Fields
<1>3. ASSUME NEW d \in D
      PROVE  /\ Bare(d).id = d.id /\ Bare(d).at = d.at /\ Bare(d).until = d.until /\ Bare(d).cal = d.cal
             /\ Bare(d).project = d.project /\ Bare(d).kind = d.kind /\ Bare(d).session = d.session
    <2>1. DOMAIN d = Fields
        BY TaggedIs DEF DayRows, DayRow
    <2> QED BY <2>1 DEF Bare, Fields
<1>4. \A d \in D : g[d] = Bare(d)
    OBVIOUS
<1> HIDE DEF D, g, tag
<1>5. \A x : x \in ImageBy(g, D) <=> \E d \in D : x = g[d]
    BY ImageMembers
<1>6. \A x : x \in G <=> \E d \in D : x = g[d]
    BY <1>1, <1>2, <1>4
<1> HIDE DEF G
<1>7. G = ImageBy(g, D)
    BY <1>5, <1>6
<1>8. Resembles(g, D, G)
    BY <1>3, <1>4, <1>7 DEF Resembles, Likeness
<1> QED
    BY <1>8 DEF D, G

(* Without windows a day is its blocks. *)
LEMMA NoWindows ==
    ASSUME NEW E
    PROVE  BuildDay(E, {}) = BuildBlocksByProject(Tagged(Located(E)))
BY DEF BuildDay, ApplySplits

(* For any day the collectors can bring, the customers of its sessions     *)
(* decide nothing about its folders: every folder has the minutes it would *)
(* have if no session named a customer, however the customers' turns fall  *)
(* and whatever becomes of their short and unproven pieces.                *)
(* (divide_blocks, tag_sessions)                                           *)
THEOREM CustomersOnlyDivide == Spec => []TagsOnlyDivide
<1>1. ASSUME Known PROVE TagsOnlyDivide
    <2> DEFINE C == collected
               A == {Anonymous(e) : e \in C}
               L == Located(C)
               D == Tagged(L)
               G == {Anonymous(x) : x \in L}
    <2>1. DayRows(C) /\ Untagged(C)
        BY <1>1, BatchesAssumption DEF Known, DayRows, DayRow, Untagged
    <2>2. DayRows(L) /\ Untagged(L)
        BY <2>1, LocatedIs, LocatedUntagged
    <2>3. DayRows(D)
        BY <2>2, TaggedIs
    <2>4. DayRows(G)
        BY <2>2, AnonymousRows
    <2>5. Located(A) = G
        BY <2>1, SameLocated
    <2>6. Tagged(G) = G
        <3>1. \A x \in L : Anonymous(x).customer = 0
            BY <2>2, AnonymousIs DEF DayRows, DayRow
        <3>2. \A x \in G : x.customer = 0
            BY <3>1
        <3> QED BY <3>2, NobodysTags
    <2>7. PICK g : Resembles(g, D, G)
        BY <2>2, BareDay
    <2>8. /\ BuildDay(C, {}) = BuildBlocksByProject(D)
          /\ BuildDay(A, {}) = BuildBlocksByProject(G)
        <3>1. BuildDay(A, {}) = BuildBlocksByProject(Tagged(Located(A)))
            BY NoWindows
        <3> HIDE DEF A, G
        <3> QED BY <2>5, <2>6, <3>1, NoWindows
    <2>9. TagsOnlyDivide = SameMinutes(BuildDay(C, {}), BuildDay(A, {}))
        BY DEF TagsOnlyDivide
    <2> HIDE DEF D, G, A
    <2>10. \A p : Covered(Of(p, BuildBlocksByProject(G))) = Covered(Of(p, BuildBlocksByProject(D)))
        BY <2>3, <2>4, <2>7, LikeDays
    <2> QED BY <2>8, <2>9, <2>10 DEF SameMinutes
<1> QED
    BY <1>1, DaysAreKnown, PTL

-----------------------------------------------------------------------------
(* Windows: what an enumeration, a sum and a deal come to.                 *)

LEMMA AscendingIs ==
    ASSUME NEW S, S \subseteq Int, IsFiniteSet(S)
    PROVE  /\ Ascending(S) \in [1 .. Cardinality(S) -> S] /\ Cardinality(S) \in Nat
           /\ \A x \in S : \E k \in 1 .. Cardinality(S) : Ascending(S)[k] = x
<1> DEFINE R == {p \in S \X S : p[1] < p[2]}
<1>1. Orders(R, S)
    <2>1. \A j, k \in S : <<j, k>> \in R <=> j < k
        OBVIOUS
    <2> HIDE DEF R
    <2> QED BY <2>1 DEF Orders
<1>2. Ascending(S) = Sorted(S, R)
    <2>1. \A m \in S : {k \in S : <<k, m>> \in R} = {k \in S : k < m}
        OBVIOUS
    <2>2. \A m \in S : Rank(S, R, m) = Cardinality({k \in S : k < m})
        BY <2>1 DEF Rank
    <2> HIDE DEF R
    <2> DEFINE nth(r) == CHOOSE m \in S : Cardinality({k \in S : k < m}) = r - 1
               ranked(r) == CHOOSE m \in S : Rank(S, R, m) = r - 1
    <2>3. \A r : nth(r) = ranked(r)
        BY <2>2
    <2>4. Ascending(S) = [r \in 1 .. Cardinality(S) |-> nth(r)]
        BY DEF Ascending
    <2>5. Sorted(S, R) = [r \in 1 .. Cardinality(S) |-> ranked(r)]
        BY DEF Sorted
    <2> HIDE DEF nth, ranked
    <2> QED BY <2>3, <2>4, <2>5
<1> HIDE DEF R
<1>3. Cardinality(S) \in Nat
    BY FS_CardinalityType
<1>4. /\ Sorted(S, R) \in [1 .. Cardinality(S) -> S]
      /\ \A x \in S : \E k \in 1 .. Cardinality(S) : Sorted(S, R)[k] = x
    BY <1>1, SortedIs
<1> QED
    BY <1>2, <1>3, <1>4

Summing(f, s) ==
    f = [S \in SUBSET DOMAIN s |-> IF S = {} THEN 0 ELSE f[S \ {Max(S)}] + s[Max(S)]]

LEMMA SumFold ==
    ASSUME NEW s
    PROVE  SumOf(s) = (CHOOSE f : Summing(f, s))[DOMAIN s]
<1>1. SumOf(s) = MapThenFoldSet(LAMBDA x, y : y + x, 0, LAMBDA i : s[i], LAMBDA S : Max(S), DOMAIN s)
    BY DEF SumOf, FoldLeft
<1>2. @ = (CHOOSE f : Summing(f, s))[DOMAIN s]
    BY DEF MapThenFoldSet, Summing
<1> QED
    BY <1>1, <1>2

LEMMA SumBy ==
    ASSUME NEW s \in Seq(Nat)
    PROVE  \E f : Summing(f, s) /\ f \in [SUBSET (1 .. Len(s)) -> Nat]
<1> DEFINE F == [x \in Nat \X Nat |-> x[1] + x[2]]
           D == SUBSET (1 .. Len(s))
<1>1. F \in [Nat \X Nat -> Nat] /\ 0 \in Nat /\ \A a, c \in Nat : F[<<a, c>>] = a + c
    OBVIOUS
<1> HIDE DEF F
<1>2. PICK f : LeftFold(f, Nat, F, 0, s)
    BY <1>1, LeftExists
<1>3. DOMAIN s = 1 .. Len(s) /\ Len(s) \in Nat /\ \A k \in 1 .. Len(s) : s[k] \in Nat
    OBVIOUS
<1>4. f \in [D -> Nat] /\ \A S \in D : f[S] = Left(f, F, 0, s, S)
    BY <1>2 DEF LeftFold
<1>5. ASSUME NEW S \in D PROVE f[S] = IF S = {} THEN 0 ELSE f[S \ {Max(S)}] + s[Max(S)]
    <2>1. CASE S = {}
        <3> HIDE DEF D
        <3> QED BY <1>4, <2>1 DEF Left
    <2>2. CASE S # {}
        <3>1. Max(S) \in 1 .. Len(s) /\ S \ {Max(S)} \in D
            <4>1. Max(S) \in S
                BY <1>3, <2>2, LargestNat
            <4> QED BY <4>1
        <3> HIDE DEF D
        <3>2. f[S \ {Max(S)}] \in Nat /\ s[Max(S)] \in Nat
            BY <1>3, <1>4, <3>1
        <3> QED BY <1>1, <1>4, <2>2, <3>2 DEF Left
    <2> QED BY <2>1, <2>2
<1>6. Summing(f, s)
    <2>1. f = [S \in D |-> f[S]]
        <3> HIDE DEF D
        <3> QED BY <1>4
    <2> QED BY <1>3, <1>5, <2>1 DEF Summing
<1> QED
    BY <1>4, <1>6

(* The sums of a row's beginnings. *)
Sums(h, n, x) ==
    /\ h \in [0 .. n -> Nat] /\ h[0] = 0
    /\ \A j \in 1 .. n : h[j] = h[j - 1] + x[j]
    /\ \A j \in 0 .. n : h[j] = SumOf([k \in 1 .. j |-> x[k]])

LEMMA SumsAre ==
    ASSUME NEW n \in Nat, NEW x, \A k \in 1 .. n : x[k] \in Nat
    PROVE  \E h : Sums(h, n, x)
<1> DEFINE s == [k \in 1 .. n |-> x[k]]
<1>1. s \in Seq(Nat) /\ Len(s) = n /\ DOMAIN s = 1 .. n /\ \A k \in 1 .. n : s[k] = x[k]
    <2>1. s \in [1 .. n -> Nat]
        OBVIOUS
    <2> QED BY <2>1, FunctionIsSeq
<1> HIDE DEF s
<1>2. PICK f : Summing(f, s) /\ f \in [SUBSET (1 .. n) -> Nat]
    BY <1>1, SumBy
<1>3. \A S \in SUBSET (1 .. n) : f[S] = IF S = {} THEN 0 ELSE f[S \ {Max(S)}] + x[Max(S)]
    <2> TAKE S \in SUBSET (1 .. n)
    <2>1. f[S] = IF S = {} THEN 0 ELSE f[S \ {Max(S)}] + s[Max(S)]
        BY <1>1, <1>2 DEF Summing
    <2>2. S # {} => Max(S) \in 1 .. n
        BY LargestNat
    <2> QED BY <1>1, <2>1, <2>2
<1>4. ASSUME NEW j \in 0 .. n PROVE f[1 .. j] = SumOf([k \in 1 .. j |-> x[k]])
    <2> DEFINE p == [k \in 1 .. j |-> x[k]]
               g == CHOOSE g : Summing(g, p)
    <2>1. j \in Nat /\ 1 .. j \subseteq 1 .. n
        OBVIOUS
    <2>2. p \in Seq(Nat) /\ Len(p) = j /\ DOMAIN p = 1 .. j /\ \A k \in 1 .. j : p[k] = x[k]
        <3>1. p \in [1 .. j -> Nat]
            BY <2>1
        <3> QED BY <2>1, <3>1, FunctionIsSeq
    <2> HIDE DEF p
    <2>3. Summing(g, p)
        BY <2>2, SumBy
    <2>4. SumOf(p) = g[1 .. j]
        BY <2>2, SumFold
    <2> HIDE DEF g
    <2>5. \A S \in SUBSET (1 .. j) : g[S] = IF S = {} THEN 0 ELSE g[S \ {Max(S)}] + x[Max(S)]
        <3> TAKE S \in SUBSET (1 .. j)
        <3>1. g[S] = IF S = {} THEN 0 ELSE g[S \ {Max(S)}] + p[Max(S)]
            BY <2>2, <2>3 DEF Summing
        <3>2. S # {} => Max(S) \in 1 .. j
            BY <2>1, LargestNat
        <3> QED BY <2>2, <3>1, <3>2
    <2>6. \A S \in SUBSET (1 .. j) : f[S] = IF S = {} THEN 0 ELSE f[S \ {Max(S)}] + x[Max(S)]
        BY <1>3, <2>1
    <2>7. Alike(f, g, j)
        BY <2>5, <2>6 DEF Alike
    <2>8. f[1 .. j] = g[1 .. j]
        BY <2>1, <2>7, SameFold
    <2> QED BY <2>4, <2>8 DEF p
<1> DEFINE h == [j \in 0 .. n |-> f[1 .. j]]
<1>5. h \in [0 .. n -> Nat]
    <2>1. \A j \in 0 .. n : 1 .. j \in SUBSET (1 .. n)
        OBVIOUS
    <2> QED BY <1>2, <2>1
<1>6. h[0] = 0
    <2>1. 1 .. 0 = {} /\ 0 \in 0 .. n
        OBVIOUS
    <2> QED BY <1>3, <2>1
<1>7. ASSUME NEW j \in 1 .. n PROVE h[j] = h[j - 1] + x[j]
    <2> DEFINE S == 1 .. j
    <2>1. S \in SUBSET (1 .. n) /\ S # {} /\ S \ {j} = 1 .. j - 1 /\ j \in 0 .. n /\ j - 1 \in 0 .. n
        OBVIOUS
    <2>2. Max(S) = j
        <3>1. Max(S) \in S /\ \A k \in S : k <= Max(S)
            BY <2>1, LargestNat
        <3>2. j \in S
            OBVIOUS
        <3> QED BY <3>1, <3>2
    <2> HIDE DEF S
    <2>3. f[S] = f[S \ {j}] + x[j]
        BY <1>3, <2>1, <2>2
    <2> QED BY <2>1, <2>3 DEF S
<1> HIDE DEF h
<1>8. \A j \in 0 .. n : h[j] = SumOf([k \in 1 .. j |-> x[k]])
    BY <1>4 DEF h
<1> QED
    BY <1>5, <1>6, <1>7, <1>8 DEF Sums

LEMMA SumsRise ==
    ASSUME NEW n \in Nat, NEW x, \A k \in 1 .. n : x[k] \in Nat, NEW h, Sums(h, n, x),
           NEW j \in 0 .. n
    PROVE  h[j] <= h[n]
<1> DEFINE Bad == {d \in 0 .. n : ~(h[n - d] <= h[n])}
<1>1. /\ h \in [0 .. n -> Nat] /\ \A k \in 1 .. n : h[k] = h[k - 1] + x[k]
    BY DEF Sums
<1>2. Bad = {}
    <2> SUFFICES ASSUME Bad # {} PROVE FALSE
        OBVIOUS
    <2>1. PICK d \in Bad : \A c \in Bad : d <= c
        <3>1. Bad \in SUBSET Nat
            OBVIOUS
        <3> HIDE DEF Bad
        <3> QED BY <3>1, SmallestNat
    <2>2. h[n] \in Nat /\ n - 0 = n
        BY <1>1
    <2>3. d # 0
        BY <2>1, <2>2
    <2>4. d - 1 \in 0 .. n /\ n - d + 1 \in 1 .. n /\ n - (d - 1) = n - d + 1 /\ ~(d <= d - 1)
          /\ (n - d + 1) - 1 = n - d /\ n - d \in 0 .. n /\ n - d + 1 \in 0 .. n
        BY <2>1, <2>3
    <2>5. h[n - d + 1] <= h[n]
        BY <2>1, <2>4
    <2>6. h[n - d + 1] = h[n - d] + x[n - d + 1]
        BY <1>1, <2>4
    <2>7. h[n - d] \in Nat /\ h[n - d + 1] \in Nat /\ x[n - d + 1] \in Nat
        BY <1>1, <2>4
    <2>8. h[n - d] <= h[n]
        BY <2>2, <2>5, <2>6, <2>7
    <2> QED BY <2>1, <2>8
<1>3. n - j \in 0 .. n /\ n - (n - j) = j
    OBVIOUS
<1> QED
    BY <1>2, <1>3

(* What one folder gets of one interval: the time from lo to hi, of that   *)
(* which the interval has from off to until.                               *)
Dealt(p, r, lo, hi, off, until) ==
    LET a == Max({lo, off})
        b == Min({hi, until})
    IN  IF a >= b THEN <<>>
        ELSE <<[folder |-> p, start |-> r.start + a - off, end |-> r.start + b - off]>>

Within(m, r) == m \in r.start .. r.end - 1

Minutes(s, m) == \E d \in ToSet(s) : Within(m, d)

Portion(P) == {d \in [folder : P, start : Int, end : Int] : d.start < d.end}

LEMMA DealtIs ==
    ASSUME NEW P, NEW p \in P, NEW r, r.start \in Int, r.end \in Int,
           NEW lo \in Int, NEW hi \in Int, NEW off \in Int, NEW until \in Int,
           until = off + (r.end - r.start)
    PROVE  /\ Dealt(p, r, lo, hi, off, until) \in Seq(Portion(P))
           /\ \A m \in Int : Minutes(Dealt(p, r, lo, hi, off, until), m) <=>
                  LET x == m - r.start + off IN Within(m, r) /\ lo <= x /\ x < hi
<1> DEFINE a == Max({lo, off})
           b == Min({hi, until})
           d == [folder |-> p, start |-> r.start + a - off, end |-> r.start + b - off]
           q == Dealt(p, r, lo, hi, off, until)
<1>1. a \in Int /\ a \in {lo, off} /\ lo <= a /\ off <= a
    <2> DEFINE c == Max({lo, off})
    <2>1. c \in {lo, off} /\ lo <= c /\ off <= c
        BY MaxOfTwo
    <2> QED BY <2>1
<1>2. b \in Int /\ b \in {hi, until} /\ b <= hi /\ b <= until
    BY MinOfTwo
<1>3. q = IF a >= b THEN <<>> ELSE <<d>>
    BY DEF Dealt
<1> HIDE DEF a, b, q
<1>4. /\ d.folder = p /\ d.start = r.start + a - off /\ d.end = r.start + b - off
      /\ d \in [folder : P, start : Int, end : Int]
    BY <1>1, <1>2
<1> HIDE DEF d
<1>5. q \in Seq(Portion(P))
    <2>1. ~(a >= b) => d \in Portion(P)
        BY <1>1, <1>2, <1>4 DEF Portion
    <2> QED BY <1>3, <2>1
<1>6. ASSUME NEW m \in Int
      PROVE  Minutes(q, m) <=> LET x == m - r.start + off IN Within(m, r) /\ lo <= x /\ x < hi
    <2>1. Minutes(q, m) <=> ~(a >= b) /\ Within(m, d)
        <3>1. CASE a >= b
            <4>1. ToSet(q) = {}
                BY <1>3, <3>1 DEF ToSet
            <4> QED BY <3>1, <4>1 DEF Minutes
        <3>2. CASE ~(a >= b)
            <4>1. ToSet(q) = {d}
                BY <1>3, <3>2 DEF ToSet
            <4> QED BY <3>2, <4>1 DEF Minutes
        <3> QED BY <3>1, <3>2
    <2>2. ~(a >= b) /\ Within(m, d) <=> r.start + a - off <= m /\ m < r.start + b - off
        BY <1>1, <1>2, <1>4 DEF Within
    <2>3. Within(m, r) <=> r.start <= m /\ m < r.end
        BY DEF Within
    <2> QED BY <1>1, <1>2, <2>1, <2>2, <2>3
<1> QED
    BY <1>5, <1>6 DEF q

(* Of the bounds of the folders' parts, from nothing to all, one is the    *)
(* first beyond x.                                                         *)
LEMMA FirstBeyond ==
    ASSUME NEW n \in Nat, NEW up, up[0] = 0, \A i \in 0 .. n : up[i] \in Int,
           NEW x \in Nat, x < up[n]
    PROVE  \E i \in 1 .. n : up[i - 1] <= x /\ x < up[i]
<1> DEFINE S == {i \in 0 .. n : x < up[i]}
<1>1. PICK i \in S : \A j \in S : i <= j
    <2>1. S \in SUBSET Nat /\ n \in S
        OBVIOUS
    <2> HIDE DEF S
    <2> QED BY <2>1, SmallestNat
<1>2. i # 0
    BY <1>1
<1>3. i \in 1 .. n /\ i - 1 \in 0 .. n /\ ~(i <= i - 1)
    BY <1>1, <1>2
<1>4. ~(x < up[i - 1])
    BY <1>1, <1>3
<1>5. up[i - 1] \in Int /\ x < up[i]
    BY <1>1, <1>3
<1> QED
    BY <1>3, <1>4, <1>5

Shares(shares) ==
    /\ IsFiniteSet(DOMAIN shares) /\ DOMAIN shares # {}
    /\ \A p \in DOMAIN shares : p \in Int /\ p # Null /\ shares[p] \in Nat \ {0}

Span == {r \in [start : Int, end : Int] : r.start < r.end}

Bounds(up, share, n, total) ==
    up = [i \in 0 .. n |-> IF i = n THEN total ELSE (2 * share[i] * total + Whole) \div (2 * Whole)]

LEMMA BoundsAre ==
    ASSUME NEW n \in Nat, n # 0, NEW total \in Nat, NEW share \in [0 .. n -> Nat], share[0] = 0,
           NEW up, Bounds(up, share, n, total)
    PROVE  up[0] = 0 /\ up[n] = total /\ \A i \in 0 .. n : up[i] \in Int
<1>1. ASSUME NEW i \in 0 .. n, i # n PROVE up[i] \in Int
    <2> DEFINE y == share[i] * total
    <2>1. share[i] \in Nat
        OBVIOUS
    <2>2. y \in Int
        BY <2>1
    <2>3. up[i] = (2 * share[i] * total + Whole) \div (2 * Whole)
        BY <1>1 DEF Bounds
    <2>4. 2 * share[i] * total = 2 * y
        BY <2>1
    <2> HIDE DEF y
    <2>5. up[i] = (2 * y + 10) \div 20
        BY <2>3, <2>4 DEF Whole
    <2> QED BY <2>2, <2>5
<1>2. up[n] = total
    BY DEF Bounds
<1>3. up[0] = 0
    <2>1. up[0] = (2 * 0 * total + Whole) \div (2 * Whole)
        BY DEF Bounds
    <2>2. 2 * 0 * total = 0
        OBVIOUS
    <2>3. up[0] = (0 + 10) \div 20
        BY <2>1, <2>2 DEF Whole
    <2> QED BY <2>3
<1> QED
    BY <1>1, <1>2, <1>3

OffsetOf(iv, j) == SumOf([k \in 1 .. j - 1 |-> iv[k].end - iv[k].start])

ShareTo(shares, folders, i) == SumOf([k \in 1 .. i |-> shares[folders[k]]])

UpTo(iv, shares, folders, i) ==
    IF i = Len(folders) THEN OffsetOf(iv, Len(iv) + 1)
    ELSE (2 * ShareTo(shares, folders, i) * OffsetOf(iv, Len(iv) + 1) + Whole) \div (2 * Whole)

ByTime(intervals) == Ranked(intervals, [j \in DOMAIN intervals |-> <<intervals[j].start, intervals[j].end>>])

Deals(iv, shares, folders) ==
    FlattenSeq([i \in DOMAIN folders |-> FlattenSeq([j \in DOMAIN iv |->
        Dealt(folders[i], iv[j], UpTo(iv, shares, folders, i - 1), UpTo(iv, shares, folders, i),
              OffsetOf(iv, j), OffsetOf(iv, j + 1))])])

LEMMA SplitShape ==
    ASSUME NEW intervals, NEW shares
    PROVE  SplitIntervals(intervals, shares) = Deals(ByTime(intervals), shares, Ascending(DOMAIN shares))
BY DEF SplitIntervals, Dealt, UpTo, OffsetOf, ShareTo, ByTime, Deals

(* Dealing out time loses no minute of it and makes none. *)
LEMMA SplitIs ==
    ASSUME NEW intervals \in Seq(Span), NEW shares, Shares(shares)
    PROVE  /\ SplitIntervals(intervals, shares) \in Seq(Portion(DOMAIN shares))
           /\ \A m \in Int : Minutes(SplitIntervals(intervals, shares), m) <=> Minutes(intervals, m)
<1> DEFINE iv == ByTime(intervals)
           folders == Ascending(DOMAIN shares)
           P == DOMAIN shares
           n == Len(folders)
           l == Len(iv)
<1>1. iv \in Seq(Span) /\ ToSet(iv) = ToSet(intervals) /\ l \in Nat /\ DOMAIN iv = 1 .. l
    <2> DEFINE key == [j \in DOMAIN intervals |-> <<intervals[j].start, intervals[j].end>>]
    <2>1. \A j \in DOMAIN intervals : key[j] \in Int \X Int
        BY DEF Span
    <2>2. iv = Ranked(intervals, key)
        BY DEF ByTime
    <2> HIDE DEF key, iv
    <2>3. iv \in Seq(Span) /\ ToSet(iv) = ToSet(intervals)
        BY <2>1, <2>2, RankedIs
    <2> QED BY <2>3
<1>2. folders \in [1 .. n -> P] /\ n \in Nat /\ n # 0 /\ DOMAIN folders = 1 .. n
    <2>1. P \subseteq Int /\ IsFiniteSet(P) /\ P # {}
        BY DEF Shares
    <2> HIDE DEF P
    <2>2. /\ Ascending(P) \in [1 .. Cardinality(P) -> P] /\ Cardinality(P) \in Nat
          /\ Cardinality(P) # 0
        BY <2>1, AscendingIs, FS_EmptySet
    <2>3. Ascending(P) \in Seq(P) /\ Len(Ascending(P)) = Cardinality(P)
        BY <2>2, FunctionIsSeq
    <2> QED BY <2>2, <2>3 DEF P
<1> DEFINE whole == FlattenSeq([i \in DOMAIN folders |-> FlattenSeq([j \in DOMAIN iv |->
                   Dealt(folders[i], iv[j], UpTo(iv, shares, folders, i - 1), UpTo(iv, shares, folders, i),
                         OffsetOf(iv, j), OffsetOf(iv, j + 1))])])
<1>3. SplitIntervals(intervals, shares) = whole
    BY SplitShape DEF Deals
<1> HIDE DEF iv, folders, n, l
<1> DEFINE len == [k \in 1 .. l |-> iv[k].end - iv[k].start]
           part == [k \in 1 .. n |-> shares[folders[k]]]
<1>4. \A k \in 1 .. l : /\ len[k] \in Nat /\ len[k] = iv[k].end - iv[k].start /\ iv[k] \in Span
                        /\ iv[k].start \in Int /\ iv[k].end \in Int
    BY <1>1 DEF Span
<1>5. \A k \in 1 .. n : part[k] \in Nat /\ part[k] = shares[folders[k]] /\ folders[k] \in P
    BY <1>2 DEF Shares
<1> HIDE DEF len, part
<1>6. PICK off : Sums(off, l, len)
    BY <1>1, <1>4, SumsAre
<1>7. PICK share : Sums(share, n, part)
    BY <1>2, <1>5, SumsAre
<1>8. \A j \in 0 .. l : OffsetOf(iv, j + 1) = off[j]
    <2> TAKE j \in 0 .. l
    <2>1. off[j] = SumOf([k \in 1 .. j |-> len[k]])
        BY <1>6 DEF Sums
    <2>2. (j + 1) - 1 = j /\ 1 .. j \subseteq 1 .. l
        BY <1>1
    <2>3. [k \in 1 .. j |-> len[k]] = [k \in 1 .. j |-> iv[k].end - iv[k].start]
        BY <1>4, <2>2
    <2> QED BY <2>1, <2>2, <2>3 DEF OffsetOf
<1>9. \A i \in 0 .. n : ShareTo(shares, folders, i) = share[i]
    <2> TAKE i \in 0 .. n
    <2>1. share[i] = SumOf([k \in 1 .. i |-> part[k]])
        BY <1>7 DEF Sums
    <2>2. 1 .. i \subseteq 1 .. n
        BY <1>2
    <2>3. [k \in 1 .. i |-> part[k]] = [k \in 1 .. i |-> shares[folders[k]]]
        BY <1>5, <2>2
    <2> QED BY <2>1, <2>3 DEF ShareTo
<1> DEFINE total == off[l]
           up == [i \in 0 .. n |-> IF i = n THEN total ELSE (2 * share[i] * total + Whole) \div (2 * Whole)]
<1>10. \A i \in 0 .. n : UpTo(iv, shares, folders, i) = up[i]
    <2>1. OffsetOf(iv, l + 1) = total
        BY <1>1, <1>8
    <2>2. Len(folders) = n /\ Len(iv) = l
        BY DEF n, l
    <2> HIDE DEF total
    <2> QED BY <1>9, <2>1, <2>2 DEF UpTo
<1>11. off \in [0 .. l -> Nat] /\ off[0] = 0 /\ \A j \in 1 .. l : off[j] = off[j - 1] + len[j]
    BY <1>6 DEF Sums
<1>12. up[0] = 0 /\ up[n] = total /\ \A i \in 0 .. n : up[i] \in Int
    <2>1. total \in Nat
        BY <1>1, <1>11
    <2>2. share \in [0 .. n -> Nat] /\ share[0] = 0
        BY <1>7 DEF Sums
    <2>3. Bounds(up, share, n, total)
        BY DEF Bounds
    <2> HIDE DEF up, total
    <2> QED BY <1>2, <2>1, <2>2, <2>3, BoundsAre
<1> HIDE DEF up
<1> DEFINE piece(i, j) == Dealt(folders[i], iv[j], up[i - 1], up[i], off[j - 1], off[j])
           T == Portion(P)
           row == [i \in 1 .. n |-> [j \in 1 .. l |-> piece(i, j)]]
           flat == [i \in 1 .. n |-> FlattenSeq(row[i])]
<1>13. whole = FlattenSeq(flat)
    <2>1. ASSUME NEW i \in 1 .. n, NEW j \in 1 .. l
          PROVE  Dealt(folders[i], iv[j], UpTo(iv, shares, folders, i - 1), UpTo(iv, shares, folders, i),
                       OffsetOf(iv, j), OffsetOf(iv, j + 1)) = piece(i, j)
        <3>1. i - 1 \in 0 .. n /\ i \in 0 .. n /\ j - 1 \in 0 .. l /\ j \in 0 .. l /\ (j - 1) + 1 = j
            BY <1>1, <1>2
        <3>2. /\ UpTo(iv, shares, folders, i - 1) = up[i - 1] /\ UpTo(iv, shares, folders, i) = up[i]
              /\ OffsetOf(iv, j) = off[j - 1] /\ OffsetOf(iv, j + 1) = off[j]
            BY <1>8, <1>10, <3>1
        <3> QED BY <3>2
    <2> HIDE DEF piece
    <2>2. \A i \in 1 .. n : [j \in DOMAIN iv |->
                   Dealt(folders[i], iv[j], UpTo(iv, shares, folders, i - 1), UpTo(iv, shares, folders, i),
                         OffsetOf(iv, j), OffsetOf(iv, j + 1))] = row[i]
        BY <1>1, <2>1
    <2> HIDE DEF row
    <2> QED BY <1>2, <2>2
<1>14. ASSUME NEW i \in 1 .. n, NEW j \in 1 .. l
       PROVE  /\ piece(i, j) \in Seq(T)
              /\ \A m \in Int : Minutes(piece(i, j), m) <=>
                     LET x == m - iv[j].start + off[j - 1]
                     IN  Within(m, iv[j]) /\ up[i - 1] <= x /\ x < up[i]
    <2>1. i - 1 \in 0 .. n /\ i \in 0 .. n /\ j - 1 \in 0 .. l /\ j \in 0 .. l
        BY <1>1, <1>2
    <2>2. /\ up[i - 1] \in Int /\ up[i] \in Int /\ off[j - 1] \in Int /\ off[j] \in Int
          /\ iv[j].start \in Int /\ iv[j].end \in Int /\ folders[i] \in P
        BY <1>4, <1>5, <1>11, <1>12, <2>1
    <2>3. off[j] = off[j - 1] + (iv[j].end - iv[j].start)
        BY <1>4, <1>11
    <2> HIDE DEF P
    <2> QED BY <2>2, <2>3, DealtIs
<1> HIDE DEF piece, T
<1>15. \A i \in 1 .. n : /\ flat[i] \in Seq(T)
                         /\ ToSet(flat[i]) = UNION {ToSet(piece(i, j)) : j \in 1 .. l}
    <2> TAKE i \in 1 .. n
    <2>1. row[i] \in [1 .. l -> Seq(T)] /\ \A j \in 1 .. l : row[i][j] = piece(i, j)
        BY <1>14
    <2>2. row[i] \in Seq(Seq(T)) /\ DOMAIN row[i] = 1 .. l
        BY <1>1, <2>1, FunctionIsSeq
    <2> HIDE DEF row
    <2>3. FlattenSeq(row[i]) \in Seq(T) /\ ToSet(FlattenSeq(row[i])) = UNION {ToSet(row[i][j]) : j \in DOMAIN row[i]}
        BY <2>2, FlatIs
    <2>4. flat[i] = FlattenSeq(row[i])
        OBVIOUS
    <2> QED BY <2>1, <2>2, <2>3, <2>4
<1>16. flat \in Seq(Seq(T)) /\ DOMAIN flat = 1 .. n
    <2>1. flat \in [1 .. n -> Seq(T)]
        <3>1. DOMAIN flat = 1 .. n /\ flat = [i \in 1 .. n |-> flat[i]]
            OBVIOUS
        <3> HIDE DEF flat
        <3> QED BY <1>15, <3>1
    <2> HIDE DEF flat
    <2> QED BY <1>2, <2>1, FunctionIsSeq
<1> HIDE DEF row, flat, whole
<1>17. whole \in Seq(T) /\ ToSet(whole) = UNION {ToSet(flat[i]) : i \in 1 .. n}
    BY <1>13, <1>16, FlatIs
<1>18. ASSUME NEW m \in Int
       PROVE  Minutes(whole, m) <=> \E i \in 1 .. n, j \in 1 .. l : Minutes(piece(i, j), m)
    <2>1. \A d : d \in ToSet(whole) <=> \E i \in 1 .. n, j \in 1 .. l : d \in ToSet(piece(i, j))
        <3>1. \A d : d \in ToSet(whole) <=> \E i \in 1 .. n : d \in ToSet(flat[i])
            BY <1>17
        <3>2. \A i \in 1 .. n : \A d : d \in ToSet(flat[i]) <=> \E j \in 1 .. l : d \in ToSet(piece(i, j))
            <4> TAKE i \in 1 .. n
            <4>1. ToSet(flat[i]) = UNION {ToSet(piece(i, j)) : j \in 1 .. l}
                BY <1>15
            <4> QED BY <4>1
        <3> QED BY <3>1, <3>2
    <2> QED BY <2>1 DEF Minutes
<1>19. ASSUME NEW m \in Int
       PROVE  Minutes(intervals, m) <=> \E j \in 1 .. l : Within(m, iv[j])
    BY <1>1 DEF Minutes, ToSet
<1>20. ASSUME NEW m \in Int, NEW j \in 1 .. l, Within(m, iv[j])
       PROVE  \E i \in 1 .. n : Minutes(piece(i, j), m)
    <2> DEFINE x == m - iv[j].start + off[j - 1]
    <2>1. j - 1 \in 0 .. l /\ j \in 0 .. l
        BY <1>1
    <2>2. off[j - 1] \in Nat /\ off[j] \in Nat /\ off[l] \in Nat /\ off[j] = off[j - 1] + (iv[j].end - iv[j].start)
        BY <1>1, <1>4, <1>11, <2>1
    <2>3. iv[j].start \in Int /\ iv[j].end \in Int /\ iv[j].start <= m /\ m < iv[j].end
        BY <1>4, <1>20 DEF Within
    <2>4. off[j] <= off[l]
        BY <1>1, <1>4, <1>6, <2>1, SumsRise
    <2>5. x \in Nat /\ x < off[l]
        <3> DEFINE s == iv[j].start
                   e == iv[j].end
                   o == off[j - 1]
                   u == off[j]
                   t == off[l]
        <3>1. /\ s \in Int /\ e \in Int /\ o \in Nat /\ u \in Nat /\ t \in Nat
              /\ s <= m /\ m < e /\ u = o + (e - s) /\ u <= t
            BY <2>2, <2>3, <2>4
        <3>2. x = m - s + o
            OBVIOUS
        <3> HIDE DEF s, e, o, u, x
        <3> QED BY <3>1, <3>2
    <2>6. x < up[n]
        BY <1>12, <2>5
    <2> HIDE DEF x
    <2>7. PICK i \in 1 .. n : up[i - 1] <= x /\ x < up[i]
        BY <1>2, <1>12, <2>5, <2>6, FirstBeyond
    <2> QED BY <1>14, <1>20, <2>7 DEF x
<1>21. ASSUME NEW m \in Int
       PROVE  Minutes(whole, m) <=> Minutes(intervals, m)
    BY <1>14, <1>18, <1>19, <1>20
<1> QED
    BY <1>3, <1>17, <1>21 DEF T

-----------------------------------------------------------------------------
(* A day's blocks once windows have been cut into it. *)

Slot(b, day) ==
    /\ DOMAIN b = {"start", "end", "ticket", "cal", "events"}
    /\ b.start \in Int /\ b.end \in Int /\ b.start < b.end /\ b.cal \in BOOLEAN
    /\ b.events \subseteq day /\ (b.cal => \A e \in b.events : e.project = Null)

Slots(bs, day) == bs \in Seq(ToSet(bs)) /\ \A b \in ToSet(bs) : Slot(b, day)

(* Somebody worked in minute m. *)
At(bs, m) == \E b \in ToSet(bs) : ~b.cal /\ Within(m, b)

(* span_block, given what it may borrow. *)
Borrowing(E, start, end, lent) ==
    LET located(F)   == {e \in F : e.project # Null}
        closer(d, e) == \/ Distance(d.at, start) < Distance(e.at, start)
                        \/ Distance(d.at, start) = Distance(e.at, start) /\ Earlier(d, e)
        nearest      == {e \in lent : \A d \in lent \ {e} : closer(e, d)}
        events       == IF located(E) = {} THEN E \cup nearest ELSE E
    IN  IF \/ located(events) = {}
           \/ end <= start
           \/ TooThin(start, end, TRUE)
        THEN <<>>
        ELSE <<[start |-> start, end |-> end, ticket |-> UniqueTicket(events),
                cal |-> FALSE, events |-> events]>>

LEMMA SpanBorrows ==
    ASSUME NEW S, NEW start, NEW end, NEW F
    PROVE  SpanBlock(S, start, end, F, TRUE) = Borrowing(S, start, end, {e \in F : e.project # Null})
BY DEF SpanBlock, Borrowing

(* A span with a folder's event to borrow is worked from end to end. *)
LEMMA SpanAt ==
    ASSUME NEW E, Dated(E), NEW S, S \subseteq E, NEW F, F \subseteq E, \E e \in F : e.project # Null,
           NEW start \in Int, NEW end \in Int
    PROVE  /\ Slots(SpanBlock(S, start, end, F, TRUE), E)
           /\ \A m \in Int : At(SpanBlock(S, start, end, F, TRUE), m) <=> start <= m /\ m < end
<1> DEFINE own == {e \in F : e.project # Null}
           q == SpanBlock(S, start, end, F, TRUE)
<1>1. CASE end <= start
    <2>1. q = <<>>
        BY <1>1 DEF SpanBlock
    <2>2. ToSet(q) = {} /\ q \in Seq(ToSet(q))
        <3>1. ToSet(<<>>) = {} /\ <<>> \in Seq({})
            BY DEF ToSet
        <3> HIDE DEF q
        <3> QED BY <2>1, <3>1
    <2>3. \A m \in Int : ~(start <= m /\ m < end)
        BY <1>1
    <2> QED BY <2>2, <2>3 DEF Slots, At
<1>2. CASE start < end
    <2>1. q = SpanBlock(S, start, end, own, TRUE)
        <3>1. {e \in own : e.project # Null} = own
            OBVIOUS
        <3> HIDE DEF q
        <3>2. SpanBlock(S, start, end, F, TRUE) = SpanBlock(S, start, end, own, TRUE)
            BY <3>1, SpanBorrows
        <3> QED BY <3>2 DEF q
    <2>2. Lends(own, E)
        BY DEF Lends
    <2> HIDE DEF q, own
    <2>3. OneBlock(q, start, end, S \cup own)
        BY <1>2, <2>1, <2>2, SpanIsOne
    <2>4. PICK b : q = <<b>> /\ b.start = start /\ b.end = end /\ PieceOf(b, S \cup own)
        BY <2>3 DEF OneBlock
    <2>5. ToSet(q) = {b} /\ q \in Seq(ToSet(q))
        BY <2>4 DEF ToSet
    <2>6. Slot(b, E)
        BY <2>2, <2>4 DEF PieceOf, Slot, Lends
    <2>7. ~b.cal
        BY <2>4 DEF PieceOf
    <2>8. \A m \in Int : Within(m, b) <=> start <= m /\ m < end
        BY <2>4 DEF Within
    <2>9. \A m : At(q, m) <=> Within(m, b)
        BY <2>5, <2>7 DEF At
    <2>10. Slots(q, E)
        BY <2>5, <2>6 DEF Slots
    <2> QED BY <2>8, <2>9, <2>10 DEF q
<1>3. end <= start \/ start < end
    OBVIOUS
<1> HIDE DEF q
<1> QED
    BY <1>1, <1>2, <1>3, Zenon

LEMMA JoinedSlots ==
    ASSUME NEW E, NEW a, NEW c, Slots(a, E), Slots(c, E)
    PROVE  /\ Slots(Joined(a, c), E)
           /\ \A m : At(Joined(a, c), m) <=> At(a, m) \/ At(c, m)
<1> DEFINE q == Joined(a, c)
<1>1. q \in Seq(ToSet(q)) /\ \A b : b \in ToSet(q) <=> b \in ToSet(a) \/ b \in ToSet(c)
    BY JoinedRows DEF Slots
<1> HIDE DEF q
<1>2. Slots(q, E)
    BY <1>1 DEF Slots
<1>3. \A m : At(q, m) <=> At(a, m) \/ At(c, m)
    BY <1>1 DEF At
<1> QED
    BY <1>2, <1>3 DEF q

LEMMA FlatSlots ==
    ASSUME NEW E, NEW n \in Nat, NEW ss, DOMAIN ss = 1 .. n, ss = [i \in 1 .. n |-> ss[i]],
           \A i \in 1 .. n : Slots(ss[i], E)
    PROVE  /\ Slots(FlattenSeq(ss), E)
           /\ \A m : At(FlattenSeq(ss), m) <=> \E i \in 1 .. n : At(ss[i], m)
<1> DEFINE q == FlattenSeq(ss)
<1>1. q \in Seq(ToSet(q)) /\ \A b : b \in ToSet(q) <=> \E i \in 1 .. n : b \in ToSet(ss[i])
    <2>1. \A i \in 1 .. n : ss[i] \in Seq(ToSet(ss[i]))
        BY DEF Slots
    <2> QED BY <2>1, FlatRows
<1> HIDE DEF q
<1>2. Slots(q, E)
    BY <1>1 DEF Slots
<1>3. \A m : At(q, m) <=> \E i \in 1 .. n : At(ss[i], m)
    BY <1>1 DEF At
<1> QED
    BY <1>2, <1>3 DEF q

-----------------------------------------------------------------------------
(* One window. *)

ReachedBy(w, b) == IsWorkBlock(b) /\ b.end > w.start /\ b.start < w.end

Remainders(w, b) ==
    Joined(SpanBlock(Between(b.events, b.start, w.start), b.start, w.start, b.events, TRUE),
           SpanBlock(Between(b.events, w.end, b.end), w.end, b.end, b.events, TRUE))

Outside(w, b) == IF ~ReachedBy(w, b) THEN <<b>> ELSE Remainders(w, b)

LEMMA WorkIsLocated ==
    ASSUME NEW b, IsWorkBlock(b)
    PROVE  \E e \in b.events : e.project # Null
<1>1. PICK p : p \in DominantFolders(b)
    BY DEF IsWorkBlock
<1> QED
    BY <1>1 DEF DominantFolders

LEMMA OutsideIs ==
    ASSUME NEW E, Dated(E), NEW b, Slot(b, E), NEW w, w.start \in Int, w.end \in Int, w.start < w.end
    PROVE  /\ Slots(Outside(w, b), E)
           /\ \A m \in Int : At(Outside(w, b), m) <=>
                  ~b.cal /\ Within(m, b) /\ ~(ReachedBy(w, b) /\ Within(m, w))
<1>0. b.start \in Int /\ b.end \in Int /\ b.events \subseteq E
    BY DEF Slot
<1>1. CASE ~ReachedBy(w, b)
    <2>1. Outside(w, b) = <<b>>
        BY <1>1 DEF Outside
    <2>2. ToSet(<<b>>) = {b} /\ <<b>> \in Seq(ToSet(<<b>>))
        BY DEF ToSet
    <2>3. \A x \in {b} : Slot(x, E)
        OBVIOUS
    <2>4. Slots(<<b>>, E)
        BY <2>2, <2>3 DEF Slots
    <2>5. \A m : At(<<b>>, m) <=> ~b.cal /\ Within(m, b)
        BY <2>2 DEF At
    <2> QED BY <1>1, <2>1, <2>4, <2>5
<1>2. CASE ReachedBy(w, b)
    <2> DEFINE x == SpanBlock(Between(b.events, b.start, w.start), b.start, w.start, b.events, TRUE)
               y == SpanBlock(Between(b.events, w.end, b.end), w.end, b.end, b.events, TRUE)
    <2>1. \E e \in b.events : e.project # Null
        BY <1>2, WorkIsLocated DEF ReachedBy
    <2>2. ~b.cal
        BY <2>1 DEF Slot
    <2>3. Between(b.events, b.start, w.start) \subseteq E /\ Between(b.events, w.end, b.end) \subseteq E
        BY <1>0 DEF Between
    <2>4. Slots(x, E) /\ \A m \in Int : At(x, m) <=> b.start <= m /\ m < w.start
        BY <1>0, <2>1, <2>3, SpanAt
    <2>5. Slots(y, E) /\ \A m \in Int : At(y, m) <=> w.end <= m /\ m < b.end
        BY <1>0, <2>1, <2>3, SpanAt
    <2>6. Outside(w, b) = Joined(x, y)
        BY <1>2 DEF Outside, Remainders
    <2> HIDE DEF x, y
    <2>7. Slots(Joined(x, y), E) /\ \A m : At(Joined(x, y), m) <=> At(x, m) \/ At(y, m)
        BY <2>4, <2>5, JoinedSlots
    <2>8. ASSUME NEW m \in Int
          PROVE  At(Joined(x, y), m) <=> Within(m, b) /\ ~Within(m, w)
        <3>1. b.start < w.end /\ w.start < b.end
            BY <1>0, <1>2 DEF ReachedBy
        <3>2. At(Joined(x, y), m) <=> (b.start <= m /\ m < w.start) \/ (w.end <= m /\ m < b.end)
            BY <2>4, <2>5, <2>7
        <3>3. (Within(m, b) <=> b.start <= m /\ m < b.end) /\ (Within(m, w) <=> w.start <= m /\ m < w.end)
            BY <1>0 DEF Within
        <3> QED BY <1>0, <3>1, <3>2, <3>3
    <2> QED BY <1>2, <2>2, <2>6, <2>7, <2>8
<1> QED
    BY <1>1, <1>2

ReachedBlocks(w, blocks) ==
    LET reached == Ascending({i \in DOMAIN blocks : ReachedBy(w, blocks[i])})
    IN  [n \in DOMAIN reached |-> blocks[reached[n]]]

Insides(w, cuts) ==
    [i \in DOMAIN cuts |-> [start |-> Max({cuts[i].start, w.start}),
                            end   |-> Min({cuts[i].end, w.end})]]

Loose(w, cuts) ==
    {e \in UNION {Between(cuts[i].events, w.start, w.end) : i \in DOMAIN cuts} : e.project = Null}

OwnOf(p, day) == {e \in day : e.project = p}

PieceFor(d, loose, day) ==
    SpanBlock(Between(OwnOf(d.folder, day) \cup loose, d.start, d.end), d.start, d.end,
              OwnOf(d.folder, day), TRUE)

Outsides(w, blocks) == FlattenSeq([i \in DOMAIN blocks |-> Outside(w, blocks[i])])

PiecesFor(dealt, loose, day) == FlattenSeq([i \in DOMAIN dealt |-> PieceFor(dealt[i], loose, day)])

LEMMA WindowShape ==
    ASSUME NEW blocks, NEW w, NEW day
    PROVE  SplitWindow(blocks, w, day) =
               Joined(Outsides(w, blocks),
                      PiecesFor(SplitIntervals(Insides(w, ReachedBlocks(w, blocks)), w.shares),
                                Loose(w, ReachedBlocks(w, blocks)), day))
BY DEF SplitWindow, Joined, Outsides, PiecesFor, PieceFor, Insides, ReachedBlocks, Loose, OwnOf, Outside,
       Remainders, ReachedBy

LEMMA ReachedAre ==
    ASSUME NEW E, NEW bs, Slots(bs, E), NEW w
    PROVE  /\ Len(ReachedBlocks(w, bs)) \in Nat /\ DOMAIN ReachedBlocks(w, bs) = 1 .. Len(ReachedBlocks(w, bs))
           /\ \A b : b \in ToSet(ReachedBlocks(w, bs)) <=> b \in ToSet(bs) /\ ReachedBy(w, b)
<1> DEFINE S == {i \in DOMAIN bs : ReachedBy(w, bs[i])}
           k == Cardinality(S)
           reached == Ascending(S)
           q == ReachedBlocks(w, bs)
<1>1. bs \in Seq(ToSet(bs)) /\ DOMAIN bs = 1 .. Len(bs) /\ Len(bs) \in Nat
    BY DEF Slots
<1>2. S \subseteq 1 .. Len(bs) /\ S \subseteq Int
    BY <1>1
<1>3. IsFiniteSet(S)
    BY <1>1, <1>2, IndicesFinite
<1>4. /\ reached \in [1 .. k -> S] /\ k \in Nat
      /\ \A x \in S : \E n \in 1 .. k : reached[n] = x
    <2> HIDE DEF S
    <2> QED BY <1>2, <1>3, AscendingIs
<1>5. q = [n \in DOMAIN reached |-> bs[reached[n]]]
    BY DEF ReachedBlocks
<1> HIDE DEF reached, k, q
<1>6. DOMAIN q = 1 .. k /\ \A n \in 1 .. k : q[n] = bs[reached[n]] /\ reached[n] \in S
    BY <1>4, <1>5
<1>7. q \in [1 .. k -> ToSet(bs)]
    <2>1. \A n \in 1 .. k : q[n] \in ToSet(bs)
        BY <1>6 DEF ToSet
    <2>2. q = [n \in 1 .. k |-> q[n]]
        BY <1>5, <1>6
    <2> QED BY <1>6, <2>1, <2>2
<1>8. Len(q) = k
    BY <1>4, <1>7, FunctionIsSeq
<1>9. ASSUME NEW b PROVE b \in ToSet(q) <=> b \in ToSet(bs) /\ ReachedBy(w, b)
    <2>1. b \in ToSet(q) <=> \E n \in 1 .. k : b = q[n]
        BY <1>6 DEF ToSet
    <2>2. b \in ToSet(bs) <=> \E i \in DOMAIN bs : b = bs[i]
        BY DEF ToSet
    <2> QED BY <1>4, <1>6, <2>1, <2>2
<1> QED
    BY <1>4, <1>6, <1>8, <1>9 DEF q

LEMMA InsidesAre ==
    ASSUME NEW E, NEW bs, Slots(bs, E), NEW w, w.start \in Int, w.end \in Int, w.start < w.end
    PROVE  /\ Insides(w, ReachedBlocks(w, bs)) \in Seq(Span)
           /\ \A m \in Int : Minutes(Insides(w, ReachedBlocks(w, bs)), m) <=>
                  Within(m, w) /\ \E b \in ToSet(bs) : ReachedBy(w, b) /\ Within(m, b)
<1> DEFINE cuts == ReachedBlocks(w, bs)
           q == Insides(w, cuts)
           k == Len(cuts)
           r(b) == [start |-> Max({b.start, w.start}), end |-> Min({b.end, w.end})]
<1>1. /\ k \in Nat /\ DOMAIN cuts = 1 .. k
      /\ \A b : b \in ToSet(cuts) <=> b \in ToSet(bs) /\ ReachedBy(w, b)
    BY ReachedAre
<1>2. q = [i \in DOMAIN cuts |-> r(cuts[i])]
    BY DEF Insides
<1> HIDE DEF cuts, q, k
<1>3. ASSUME NEW b, b \in ToSet(bs), ReachedBy(w, b)
      PROVE  r(b) \in Span /\ \A m \in Int : Within(m, r(b)) <=> Within(m, b) /\ Within(m, w)
    <2> DEFINE s == Max({b.start, w.start})
               e == Min({b.end, w.end})
    <2>1. b.start \in Int /\ b.end \in Int /\ b.start < b.end
        BY <1>3 DEF Slots, Slot
    <2>2. b.end > w.start /\ b.start < w.end
        BY <1>3 DEF ReachedBy
    <2>3. s \in {b.start, w.start} /\ b.start <= s /\ w.start <= s
        BY <2>1, MaxOfTwo
    <2>4. e \in {b.end, w.end} /\ e <= b.end /\ e <= w.end
        BY <2>1, MinOfTwo
    <2>5. r(b).start = s /\ r(b).end = e /\ r(b) = [start |-> s, end |-> e]
        OBVIOUS
    <2> HIDE DEF s, e, r
    <2>6. s \in Int /\ e \in Int /\ s < e
        BY <2>1, <2>2, <2>3, <2>4
    <2>7. r(b) \in Span
        BY <2>5, <2>6 DEF Span
    <2>8. ASSUME NEW m \in Int PROVE Within(m, r(b)) <=> Within(m, b) /\ Within(m, w)
        <3>1. Within(m, r(b)) <=> s <= m /\ m < e
            BY <2>5, <2>6 DEF Within
        <3>2. (Within(m, b) <=> b.start <= m /\ m < b.end) /\ (Within(m, w) <=> w.start <= m /\ m < w.end)
            BY <2>1 DEF Within
        <3> QED BY <2>1, <2>3, <2>4, <3>1, <3>2
    <2> QED BY <2>7, <2>8
<1>4. \A i \in 1 .. k : cuts[i] \in ToSet(cuts)
    BY <1>1 DEF ToSet
<1> HIDE DEF r
<1>5. q \in Seq(Span)
    <2>1. q \in [1 .. k -> Span]
        BY <1>1, <1>2, <1>3, <1>4
    <2> QED BY <1>1, <2>1, FunctionIsSeq
<1>6. ASSUME NEW m \in Int
      PROVE  Minutes(q, m) <=> Within(m, w) /\ \E b \in ToSet(bs) : ReachedBy(w, b) /\ Within(m, b)
    <2>1. Minutes(q, m) <=> \E i \in 1 .. k : Within(m, r(cuts[i]))
        BY <1>1, <1>2 DEF Minutes, ToSet
    <2>2. \A b : b \in ToSet(cuts) <=> \E i \in 1 .. k : b = cuts[i]
        BY <1>1 DEF ToSet
    <2> QED BY <1>1, <1>3, <1>4, <2>1, <2>2
<1> QED
    BY <1>5, <1>6 DEF q, cuts

LEMMA GivenAre ==
    ASSUME NEW E, Dated(E), NEW P, \A p \in P : p # Null /\ \E e \in E : e.project = p,
           NEW dealt \in Seq(Portion(P)), NEW loose, loose \subseteq E
    PROVE  /\ Slots(PiecesFor(dealt, loose, E), E)
           /\ \A m \in Int : At(PiecesFor(dealt, loose, E), m) <=> Minutes(dealt, m)
<1> DEFINE n == Len(dealt)
           ss == [i \in 1 .. n |-> PieceFor(dealt[i], loose, E)]
           q == FlattenSeq(ss)
<1>1. n \in Nat /\ DOMAIN dealt = 1 .. n /\ \A i \in 1 .. n : dealt[i] \in Portion(P)
    OBVIOUS
<1>2. PiecesFor(dealt, loose, E) = q
    BY <1>1 DEF PiecesFor
<1> HIDE DEF n
<1>3. ASSUME NEW i \in 1 .. n
      PROVE  Slots(ss[i], E) /\ \A m \in Int : At(ss[i], m) <=> Within(m, dealt[i])
    <2> DEFINE d == dealt[i]
               F == OwnOf(d.folder, E)
               S == Between(F \cup loose, d.start, d.end)
    <2>1. d.folder \in P /\ d.start \in Int /\ d.end \in Int
        BY <1>1 DEF Portion
    <2>2. F \subseteq E /\ \E e \in F : e.project # Null
        BY <2>1 DEF OwnOf
    <2>3. S \subseteq E
        BY <2>2 DEF Between
    <2>4. ss[i] = SpanBlock(S, d.start, d.end, F, TRUE)
        BY DEF PieceFor
    <2> HIDE DEF F, S, ss, d
    <2> DEFINE s == d.start
               e == d.end
    <2>5. /\ Slots(ss[i], E)
          /\ \A m \in Int : At(ss[i], m) <=> s <= m /\ m < e
        <3>1. s \in Int /\ e \in Int /\ ss[i] = SpanBlock(S, s, e, F, TRUE)
            BY <2>1, <2>4
        <3> HIDE DEF s, e
        <3>2. /\ Slots(SpanBlock(S, s, e, F, TRUE), E)
              /\ \A m \in Int : At(SpanBlock(S, s, e, F, TRUE), m) <=> s <= m /\ m < e
            BY <2>2, <2>3, <3>1, SpanAt
        <3> QED BY <3>1, <3>2
    <2>6. \A m \in Int : Within(m, d) <=> d.start <= m /\ m < d.end
        BY <2>1 DEF Within
    <2> QED BY <2>5, <2>6 DEF d
<1>4. DOMAIN ss = 1 .. n /\ ss = [i \in 1 .. n |-> ss[i]]
    OBVIOUS
<1> HIDE DEF ss
<1>5. Slots(q, E) /\ \A m : At(q, m) <=> \E i \in 1 .. n : At(ss[i], m)
    BY <1>1, <1>3, <1>4, FlatSlots
<1> HIDE DEF q
<1>6. \A m : Minutes(dealt, m) <=> \E i \in 1 .. n : Within(m, dealt[i])
    BY <1>1 DEF Minutes, ToSet
<1> QED
    BY <1>2, <1>3, <1>5, <1>6

Windowed(w, E) ==
    /\ w.start \in Int /\ w.end \in Int /\ w.start < w.end /\ Shares(w.shares)
    /\ \A p \in DOMAIN w.shares : p \in Work /\ \E e \in E : e.project = p

FoldersIn(b) == {e.project : e \in b.events} \ {Null}

(* What span_block makes is work and of the events it was given.           *)
LEMMA SpanPart ==
    ASSUME NEW S, NEW start, NEW end, NEW F, NEW x \in ToSet(SpanBlock(S, start, end, F, TRUE))
    PROVE  /\ ~x.cal /\ x.events \subseteq S \cup {e \in F : e.project # Null}
           /\ \E e \in x.events : e.project # Null
<1> DEFINE lent == {e \in F : e.project # Null}
           located(G) == {e \in G : e.project # Null}
           closer(d, e) == \/ Distance(d.at, start) < Distance(e.at, start)
                           \/ Distance(d.at, start) = Distance(e.at, start) /\ Earlier(d, e)
           nearest == {e \in lent : \A d \in lent \ {e} : closer(e, d)}
           events == IF located(S) = {} THEN S \cup nearest ELSE S
           b == [start |-> start, end |-> end, ticket |-> UniqueTicket(events),
                 cal |-> FALSE, events |-> events]
<1>1. SpanBlock(S, start, end, F, TRUE)
        = IF located(events) = {} \/ end <= start \/ TooThin(start, end, TRUE) THEN <<>> ELSE <<b>>
    <2>1. SpanBlock(S, start, end, F, TRUE) = Borrowing(S, start, end, lent)
        BY SpanBorrows
    <2>2. Borrowing(S, start, end, lent)
            = IF located(events) = {} \/ end <= start \/ TooThin(start, end, TRUE) THEN <<>> ELSE <<b>>
        BY DEF Borrowing
    <2> QED BY <2>1, <2>2
<1>2. events \subseteq S \cup lent
    OBVIOUS
<1>3. b.cal = FALSE /\ b.events = events
    OBVIOUS
<1> HIDE DEF events, b
<1>4. ToSet(<<>>) = {} /\ ToSet(<<b>>) = {b}
    BY DEF ToSet
<1>5. located(events) # {} /\ x = b
    BY <1>1, <1>4
<1> QED
    BY <1>2, <1>3, <1>5

LEMMA SpanIsSeq ==
    ASSUME NEW S, NEW start, NEW end, NEW F
    PROVE  SpanBlock(S, start, end, F, TRUE) \in Seq(ToSet(SpanBlock(S, start, end, F, TRUE)))
<1>1. \A c : <<c>> \in Seq(ToSet(<<c>>)) /\ <<>> \in Seq(ToSet(<<>>))
    BY DEF ToSet
<1> QED
    BY <1>1 DEF SpanBlock

LEMMA OutsidePart ==
    ASSUME NEW w, NEW b, NEW x \in ToSet(Outside(w, b))
    PROVE  IF ReachedBy(w, b) THEN ~x.cal /\ x.events \subseteq b.events /\ FoldersIn(x) # {} ELSE x = b
<1>1. CASE ~ReachedBy(w, b)
    <2>1. ToSet(<<b>>) = {b}
        BY DEF ToSet
    <2> QED BY <1>1, <2>1 DEF Outside
<1>2. CASE ReachedBy(w, b)
    <2> DEFINE y == SpanBlock(Between(b.events, b.start, w.start), b.start, w.start, b.events, TRUE)
               z == SpanBlock(Between(b.events, w.end, b.end), w.end, b.end, b.events, TRUE)
    <2>1. Outside(w, b) = Joined(y, z)
        BY <1>2 DEF Outside, Remainders
    <2>2. Between(b.events, b.start, w.start) \subseteq b.events
          /\ Between(b.events, w.end, b.end) \subseteq b.events
        BY DEF Between
    <2>3. y \in Seq(ToSet(y)) /\ z \in Seq(ToSet(z))
        BY SpanIsSeq
    <2>4. ASSUME x \in ToSet(y) \/ x \in ToSet(z)
          PROVE  ~x.cal /\ x.events \subseteq b.events /\ \E e \in x.events : e.project # Null
        <3>1. CASE x \in ToSet(y)
            BY <2>2, <3>1, SpanPart
        <3>2. CASE x \in ToSet(z)
            BY <2>2, <3>2, SpanPart
        <3> QED BY <2>4, <3>1, <3>2
    <2> HIDE DEF y, z
    <2>5. x \in ToSet(y) \/ x \in ToSet(z)
        BY <2>1, <2>3, JoinedRows
    <2> QED BY <1>2, <2>4, <2>5 DEF FoldersIn
<1> QED
    BY <1>1, <1>2

(* A piece is of its folder.                                               *)
GivenTo(p, x) ==
    /\ ~x.cal /\ \E e \in x.events : e.project = p
    /\ \A e \in x.events : e.project \in {p, Null}

LEMMA GivenPart ==
    ASSUME NEW E, Dated(E), NEW P, \A p \in P : p # Null /\ \E e \in E : e.project = p,
           NEW dealt \in Seq(Portion(P)), NEW loose, loose \subseteq E, \A e \in loose : e.project = Null,
           NEW x \in ToSet(PiecesFor(dealt, loose, E))
    PROVE  \E p \in P : GivenTo(p, x)
<1> DEFINE n == Len(dealt)
           ss == [i \in 1 .. n |-> PieceFor(dealt[i], loose, E)]
<1>1. n \in Nat /\ DOMAIN dealt = 1 .. n /\ \A i \in 1 .. n : dealt[i] \in Portion(P)
    OBVIOUS
<1>2. PiecesFor(dealt, loose, E) = FlattenSeq(ss)
    BY <1>1 DEF PiecesFor
<1> HIDE DEF n
<1>3. DOMAIN ss = 1 .. n /\ ss = [i \in 1 .. n |-> ss[i]]
      /\ \A i \in 1 .. n : ss[i] = PieceFor(dealt[i], loose, E)
    OBVIOUS
<1> HIDE DEF ss
<1>4. \A i \in 1 .. n : ss[i] \in Seq(ToSet(ss[i]))
    <2> TAKE i \in 1 .. n
    <2> DEFINE q == PieceFor(dealt[i], loose, E)
    <2>1. q \in Seq(ToSet(q))
        BY SpanIsSeq DEF PieceFor
    <2>2. ss[i] = q
        BY <1>3
    <2> HIDE DEF q
    <2> QED BY <2>1, <2>2
<1>5. PICK i \in 1 .. n : x \in ToSet(ss[i])
    BY <1>1, <1>2, <1>3, <1>4, FlatRows
<1> DEFINE d == dealt[i]
           F == OwnOf(d.folder, E)
           S == Between(F \cup loose, d.start, d.end)
<1>6. d.folder \in P
    BY <1>1 DEF Portion
<1>7. ss[i] = SpanBlock(S, d.start, d.end, F, TRUE)
    BY <1>3 DEF PieceFor
<1>8. \A e \in S \cup F : e.project \in {d.folder, Null}
    BY DEF OwnOf, Between
<1> HIDE DEF S, F, d
<1>9. ~x.cal /\ x.events \subseteq S \cup F /\ \E e \in x.events : e.project # Null
    <2> DEFINE start == d.start
               end == d.end
    <2>1. x \in ToSet(SpanBlock(S, start, end, F, TRUE))
        BY <1>5, <1>7
    <2> HIDE DEF start, end
    <2>2. ~x.cal /\ x.events \subseteq S \cup {e \in F : e.project # Null}
          /\ \E e \in x.events : e.project # Null
        BY <2>1, SpanPart
    <2> QED BY <2>2
<1>10. GivenTo(d.folder, x)
    BY <1>8, <1>9 DEF GivenTo
<1> QED
    BY <1>6, <1>10

(* A window deals out the time it reaches, in pieces of its folders, and   *)
(* leaves of each block what lies outside.                                 *)
LEMMA WindowParts ==
    ASSUME NEW E, Dated(E), NEW bs, Slots(bs, E), NEW w, Windowed(w, E)
    PROVE  \E in :
              /\ Slots(in, E) /\ Slots(SplitWindow(bs, w, E), E)
              /\ \A m \in Int : At(in, m) <=>
                     Within(m, w) /\ \E b \in ToSet(bs) : ReachedBy(w, b) /\ Within(m, b)
              /\ \A x \in ToSet(in) : \E p \in DOMAIN w.shares : GivenTo(p, x)
              /\ \A x : x \in ToSet(SplitWindow(bs, w, E)) <=>
                     x \in ToSet(in) \/ \E b \in ToSet(bs) : x \in ToSet(Outside(w, b))
<1> DEFINE cuts == ReachedBlocks(w, bs)
           inside == Insides(w, cuts)
           dealt == SplitIntervals(inside, w.shares)
           loose == Loose(w, cuts)
           P == DOMAIN w.shares
           out == Outsides(w, bs)
           in == PiecesFor(dealt, loose, E)
<1>1. /\ w.start \in Int /\ w.end \in Int /\ w.start < w.end /\ Shares(w.shares)
      /\ \A p \in P : p # Null /\ \E e \in E : e.project = p
    BY DEF Windowed, Shares
<1>2. SplitWindow(bs, w, E) = Joined(out, in)
    BY WindowShape
<1>3. /\ inside \in Seq(Span)
      /\ \A m \in Int : Minutes(inside, m) <=>
             Within(m, w) /\ \E b \in ToSet(bs) : ReachedBy(w, b) /\ Within(m, b)
    BY <1>1, InsidesAre
<1>4. dealt \in Seq(Portion(P)) /\ \A m \in Int : Minutes(dealt, m) <=> Minutes(inside, m)
    <2> HIDE DEF inside
    <2> QED BY <1>1, <1>3, SplitIs
<1>5. loose \subseteq E /\ \A e \in loose : e.project = Null
    <2>1. /\ Len(cuts) \in Nat /\ DOMAIN cuts = 1 .. Len(cuts)
          /\ \A b : b \in ToSet(cuts) <=> b \in ToSet(bs) /\ ReachedBy(w, b)
        BY ReachedAre
    <2> HIDE DEF cuts
    <2>2. \A i \in DOMAIN cuts : cuts[i].events \subseteq E
        <3> TAKE i \in DOMAIN cuts
        <3>1. cuts[i] \in ToSet(bs)
            BY <2>1 DEF ToSet
        <3> QED BY <3>1 DEF Slots, Slot
    <2> QED BY <2>2 DEF Loose, Between
<1> HIDE DEF dealt, loose, inside
<1>6. /\ Slots(in, E) /\ \A m \in Int : At(in, m) <=> Minutes(dealt, m)
      /\ \A x \in ToSet(in) : \E p \in P : GivenTo(p, x)
    <2> HIDE DEF P
    <2>1. Slots(in, E) /\ \A m \in Int : At(in, m) <=> Minutes(dealt, m)
        BY <1>1, <1>4, <1>5, GivenAre
    <2>2. \A x \in ToSet(in) : \E p \in P : GivenTo(p, x)
        BY <1>1, <1>4, <1>5, GivenPart
    <2> QED BY <2>1, <2>2
<1>7. Slots(out, E) /\ \A x : x \in ToSet(out) <=> \E b \in ToSet(bs) : x \in ToSet(Outside(w, b))
    <2> DEFINE n == Len(bs)
               ss == [i \in 1 .. n |-> Outside(w, bs[i])]
    <2>1. n \in Nat /\ DOMAIN bs = 1 .. n
        BY DEF Slots
    <2>2. out = FlattenSeq(ss)
        BY <2>1 DEF Outsides
    <2>3. DOMAIN ss = 1 .. n /\ ss = [i \in 1 .. n |-> ss[i]] /\ \A i \in 1 .. n : ss[i] = Outside(w, bs[i])
        OBVIOUS
    <2> HIDE DEF n, ss, out
    <2>4. \A i \in 1 .. n : bs[i] \in ToSet(bs) /\ Slot(bs[i], E)
        BY <2>1 DEF Slots, ToSet
    <2>5. \A i \in 1 .. n : Slots(ss[i], E)
        BY <1>1, <2>3, <2>4, OutsideIs
    <2>6. Slots(out, E)
        BY <2>1, <2>2, <2>3, <2>5, FlatSlots
    <2>7. \A x : x \in ToSet(out) <=> \E i \in 1 .. n : x \in ToSet(ss[i])
        <3>1. \A i \in 1 .. n : ss[i] \in Seq(ToSet(ss[i]))
            BY <2>5 DEF Slots
        <3> QED BY <2>1, <2>2, <2>3, <3>1, FlatRows
    <2>8. \A b : b \in ToSet(bs) <=> \E i \in 1 .. n : b = bs[i]
        BY <2>1 DEF ToSet
    <2> QED BY <2>3, <2>6, <2>7, <2>8
<1> HIDE DEF out, in, cuts
<1>8. Slots(Joined(out, in), E)
    BY <1>6, <1>7, JoinedSlots
<1>9. \A x : x \in ToSet(Joined(out, in)) <=> x \in ToSet(out) \/ x \in ToSet(in)
    <2>1. out \in Seq(ToSet(out)) /\ in \in Seq(ToSet(in))
        BY <1>6, <1>7 DEF Slots
    <2> QED BY <2>1, JoinedRows
<1>10. /\ Slots(in, E) /\ Slots(SplitWindow(bs, w, E), E)
       /\ \A m \in Int : At(in, m) <=>
              Within(m, w) /\ \E b \in ToSet(bs) : ReachedBy(w, b) /\ Within(m, b)
       /\ \A x \in ToSet(in) : \E p \in DOMAIN w.shares : GivenTo(p, x)
       /\ \A x : x \in ToSet(SplitWindow(bs, w, E)) <=>
              x \in ToSet(in) \/ \E b \in ToSet(bs) : x \in ToSet(Outside(w, b))
    BY <1>2, <1>3, <1>4, <1>6, <1>7, <1>8, <1>9
<1> QED
    BY <1>10

(* Where folders of P, or no folder, led in minute m. *)
LedAt(bs, P, m) == \E b \in ToSet(bs) : ~b.cal /\ FoldersIn(b) \cap P # {} /\ Within(m, b)

Singles(bs) == \A b \in ToSet(bs) : OfOneFolder(b)

Nobodys(bs) == \A b \in ToSet(bs) : FoldersIn(b) = {}

(* A day c cut from the blocks bs inside the minutes D. *)
Keeps(bs, c, D, E) ==
    /\ Slots(c, E)
    /\ \A m \in Int : At(c, m) <=> At(bs, m)
    /\ Meetings(c) = Meetings(bs)
    /\ \A x \in ToSet(bs) : ~IsWorkBlock(x) => x \in ToSet(c)
    /\ \A x \in ToSet(c) : FoldersIn(x) = {} => x \in ToSet(bs)
    /\ Nobodys(bs) => Nobodys(c)
    /\ Singles(bs) => Singles(c)
    /\ Singles(bs) => \A P : \A m \in Int :
           (m \notin D \/ P \cap Work = {} \/ Work \subseteq P) => (LedAt(c, P, m) <=> LedAt(bs, P, m))

LEMMA LedBySingle ==
    ASSUME NEW E, Dated(E), NEW b, b.events \subseteq E, OfOneFolder(b)
    PROVE  DominantFolders(b) = FoldersIn(b)
<1> DEFINE located == {e \in b.events : e.project # Null}
           real == {e \in b.events : e.project # Null /\ e.kind # "lifecycle"}
           voters == IF real = {} THEN located ELSE real
           votes(p) == Cardinality({e \in voters : e.project = p})
           folders == {e.project : e \in voters}
<1>1. DominantFolders(b) = {p \in folders : \A q \in folders : votes(q) <= votes(p)}
    BY DEF DominantFolders
<1>2. voters \subseteq located /\ (voters = {} <=> located = {})
    OBVIOUS
<1>3. \A p : votes(p) \in Nat
    <2> TAKE p
    <2>1. IsFiniteSet({e \in voters : e.project = p})
        <3>1. {e \in voters : e.project = p} \subseteq E
            BY <1>2
        <3> HIDE DEF voters
        <3> QED BY <3>1, FS_Subset DEF Dated
    <2> QED BY <2>1, FS_CardinalityType
<1> HIDE DEF voters, votes
<1>4. \A d, e \in located : d.project = e.project
    BY DEF OfOneFolder
<1>5. \A p : p \in FoldersIn(b) <=> \E e \in located : p = e.project
    BY DEF FoldersIn
<1>6. \A p : p \in folders <=> p \in FoldersIn(b)
    BY <1>2, <1>4, <1>5
<1>7. \A p, q \in folders : p = q
    BY <1>4, <1>5, <1>6
<1>8. \A p, q \in folders : votes(q) <= votes(p)
    <2> TAKE p, q \in folders
    <2>1. p = q /\ votes(p) \in Nat
        BY <1>3, <1>7
    <2> HIDE DEF folders
    <2> QED BY <2>1
<1> HIDE DEF folders
<1> QED
    BY <1>1, <1>6, <1>8

LEMMA WindowKeeps ==
    ASSUME NEW E, Dated(E), NEW bs, Slots(bs, E), NEW w, Windowed(w, E),
           NEW D, \A m \in Int : Within(m, w) => m \in D
    PROVE  Keeps(bs, SplitWindow(bs, w, E), D, E)
<1> DEFINE c == SplitWindow(bs, w, E)
           P_ == DOMAIN w.shares
<1>1. PICK in :
          /\ Slots(in, E) /\ Slots(c, E)
          /\ \A m \in Int : At(in, m) <=>
                 Within(m, w) /\ \E b \in ToSet(bs) : ReachedBy(w, b) /\ Within(m, b)
          /\ \A x \in ToSet(in) : \E p \in P_ : GivenTo(p, x)
          /\ \A x : x \in ToSet(c) <=> x \in ToSet(in) \/ \E b \in ToSet(bs) : x \in ToSet(Outside(w, b))
    BY WindowParts
<1> HIDE DEF c
<1>2. /\ w.start \in Int /\ w.end \in Int /\ w.start < w.end
      /\ \A p \in P_ : p \in Work /\ p # Null
    BY DEF Windowed, Shares
<1> HIDE DEF P_
<1>3. \A b \in ToSet(bs) : Slot(b, E) /\ b.events \subseteq E
    BY DEF Slots, Slot
<1>4. ASSUME NEW b \in ToSet(bs)
      PROVE  /\ Slots(Outside(w, b), E)
             /\ \A m \in Int : At(Outside(w, b), m) <=>
                    ~b.cal /\ Within(m, b) /\ ~(ReachedBy(w, b) /\ Within(m, w))
    BY <1>2, <1>3, OutsideIs
<1>5. ASSUME NEW b \in ToSet(bs), ReachedBy(w, b)
      PROVE  ~b.cal /\ IsWorkBlock(b) /\ FoldersIn(b) # {}
    <2>1. IsWorkBlock(b)
        BY <1>5 DEF ReachedBy
    <2>2. \E e \in b.events : e.project # Null
        BY <2>1, WorkIsLocated
    <2>3. Slot(b, E)
        BY <1>3
    <2> QED BY <2>1, <2>2, <2>3 DEF Slot, FoldersIn
<1>6. ASSUME NEW b \in ToSet(bs), ~ReachedBy(w, b)
      PROVE  \A x : x \in ToSet(Outside(w, b)) <=> x = b
    <2>1. ToSet(<<b>>) = {b}
        BY DEF ToSet
    <2>2. Outside(w, b) = <<b>>
        BY <1>6 DEF Outside
    <2> QED BY <2>1, <2>2
<1>7. ASSUME NEW b \in ToSet(bs), ReachedBy(w, b), NEW x \in ToSet(Outside(w, b))
      PROVE  ~x.cal /\ x.events \subseteq b.events /\ FoldersIn(x) # {} /\ FoldersIn(x) \subseteq FoldersIn(b)
    <2>1. ~x.cal /\ x.events \subseteq b.events /\ FoldersIn(x) # {}
        BY <1>7, OutsidePart
    <2> QED BY <2>1 DEF FoldersIn
<1>8. \A x \in ToSet(in) : ~x.cal /\ (\E p \in Work : FoldersIn(x) = {p}) /\ OfOneFolder(x)
    BY <1>1, <1>2 DEF GivenTo, FoldersIn, OfOneFolder
<1>9. \A m : At(c, m) <=> At(in, m) \/ \E b \in ToSet(bs) : At(Outside(w, b), m)
    BY <1>1 DEF At
<1>10. \A m \in Int : At(c, m) <=> At(bs, m)
    <2> TAKE m \in Int
    <2>1. At(bs, m) <=> \E b \in ToSet(bs) : ~b.cal /\ Within(m, b)
        BY DEF At
    <2> QED BY <1>1, <1>4, <1>5, <1>9, <2>1
<1>11. Meetings(c) = Meetings(bs)
    <2>1. \A x : x \in Meetings(c) <=> x \in ToSet(c) /\ x.cal
        BY DEF Meetings
    <2>2. \A x : x \in Meetings(bs) <=> x \in ToSet(bs) /\ x.cal
        BY DEF Meetings
    <2>3. \A x : x \in Meetings(c) <=> x \in Meetings(bs)
        BY <1>1, <1>5, <1>6, <1>7, <1>8, <2>1, <2>2
    <2> QED BY <2>3
<1>12. \A x \in ToSet(bs) : ~IsWorkBlock(x) => x \in ToSet(c)
    BY <1>1, <1>5, <1>6
<1>13. \A x \in ToSet(c) : FoldersIn(x) = {} => x \in ToSet(bs)
    BY <1>1, <1>6, <1>7, <1>8
<1>14. ASSUME Nobodys(bs) PROVE Nobodys(c)
    <2>1. \A b \in ToSet(bs) : ~ReachedBy(w, b)
        BY <1>5, <1>14 DEF Nobodys
    <2>2. \A m \in Int : ~At(in, m)
        BY <1>1, <2>1
    <2>3. ToSet(in) = {}
        <3> SUFFICES ASSUME NEW x \in ToSet(in) PROVE FALSE
            OBVIOUS
        <3>1. Slot(x, E) /\ ~x.cal
            BY <1>1, <1>8 DEF Slots
        <3>2. x.start \in Int /\ Within(x.start, x)
            BY <3>1 DEF Slot, Within
        <3> QED BY <2>2, <3>1, <3>2 DEF At
    <2> QED BY <1>1, <1>6, <1>14, <2>1, <2>3 DEF Nobodys
<1>15. ASSUME Singles(bs) PROVE Singles(c)
    <2>1. ASSUME NEW b \in ToSet(bs), NEW x \in ToSet(Outside(w, b)) PROVE OfOneFolder(x)
        <3>1. OfOneFolder(b)
            BY <1>15 DEF Singles
        <3> QED BY <1>6, <1>7, <3>1 DEF OfOneFolder
    <2> QED BY <1>1, <1>8, <2>1 DEF Singles
<1>16. ASSUME Singles(bs), NEW P, NEW m \in Int, m \notin D \/ P \cap Work = {} \/ Work \subseteq P
       PROVE  LedAt(c, P, m) <=> LedAt(bs, P, m)
    <2>1. ASSUME NEW b \in ToSet(bs) PROVE \A p, q \in FoldersIn(b) : p = q
        BY <1>16 DEF Singles, OfOneFolder, FoldersIn
    <2>2. ASSUME NEW b \in ToSet(bs), ReachedBy(w, b) PROVE FoldersIn(b) \subseteq Work
        <3>1. DominantFolders(b) = FoldersIn(b)
            BY <1>3, <1>16, LedBySingle DEF Singles
        <3>2. FoldersIn(b) \cap Work # {}
            BY <1>5, <2>2, <3>1 DEF IsWorkBlock
        <3> QED BY <2>1, <3>2
    <2>3. ASSUME LedAt(c, P, m) PROVE LedAt(bs, P, m)
        <3>1. PICK x \in ToSet(c) : ~x.cal /\ FoldersIn(x) \cap P # {} /\ Within(m, x)
            BY <2>3 DEF LedAt
        <3>2. CASE x \in ToSet(in)
            <4>1. At(in, m)
                BY <3>1, <3>2 DEF At
            <4>2. PICK b \in ToSet(bs) : ReachedBy(w, b) /\ Within(m, b)
                BY <1>1, <4>1
            <4>3. m \in D /\ P \cap Work # {}
                BY <1>1, <1>8, <3>1, <3>2, <4>1
            <4>4. FoldersIn(b) \cap P # {}
                BY <1>5, <1>16, <2>2, <4>2, <4>3
            <4> QED BY <1>5, <4>2, <4>4 DEF LedAt
        <3>3. CASE \E b \in ToSet(bs) : x \in ToSet(Outside(w, b))
            <4>1. PICK b \in ToSet(bs) : x \in ToSet(Outside(w, b))
                BY <3>3
            <4>2. At(Outside(w, b), m)
                BY <3>1, <4>1 DEF At
            <4>3. ~b.cal /\ Within(m, b)
                BY <1>4, <4>2
            <4>4. FoldersIn(b) \cap P # {}
                BY <1>6, <1>7, <3>1, <4>1
            <4> QED BY <4>3, <4>4 DEF LedAt
        <3> QED BY <1>1, <3>2, <3>3
    <2>4. ASSUME LedAt(bs, P, m) PROVE LedAt(c, P, m)
        <3>1. PICK b \in ToSet(bs) : ~b.cal /\ FoldersIn(b) \cap P # {} /\ Within(m, b)
            BY <2>4 DEF LedAt
        <3>2. CASE ReachedBy(w, b) /\ Within(m, w)
            <4>1. At(in, m)
                BY <1>1, <3>1, <3>2
            <4>2. PICK x \in ToSet(in) : ~x.cal /\ Within(m, x)
                BY <4>1 DEF At
            <4>3. m \in D /\ P \cap Work # {}
                BY <2>2, <3>1, <3>2
            <4>4. FoldersIn(x) \cap P # {}
                BY <1>8, <1>16, <4>2, <4>3
            <4> QED BY <1>1, <4>2, <4>4 DEF LedAt
        <3>3. CASE ~(ReachedBy(w, b) /\ Within(m, w))
            <4>1. At(Outside(w, b), m)
                BY <1>4, <3>1, <3>3
            <4>2. PICK x \in ToSet(Outside(w, b)) : ~x.cal /\ Within(m, x)
                BY <4>1 DEF At
            <4>3. FoldersIn(x) \cap P # {}
                BY <1>6, <1>7, <2>1, <3>1, <4>2
            <4> QED BY <1>1, <4>2, <4>3 DEF LedAt
        <3> QED BY <3>2, <3>3
    <2> QED BY <2>3, <2>4
<1>17. /\ Slots(c, E) /\ \A m \in Int : At(c, m) <=> At(bs, m)
       /\ Meetings(c) = Meetings(bs)
    BY <1>1, <1>10, <1>11
<1>18. Keeps(bs, c, D, E)
    BY <1>12, <1>13, <1>14, <1>15, <1>16, <1>17 DEF Keeps
<1> QED
    BY <1>18 DEF c

LEMMA KeepsItself ==
    ASSUME NEW E, NEW bs, Slots(bs, E), NEW D
    PROVE  Keeps(bs, bs, D, E)
BY DEF Keeps

LEMMA KeepsOn ==
    ASSUME NEW E, NEW a, NEW b, NEW c, NEW D, Keeps(a, b, D, E), Keeps(b, c, D, E)
    PROVE  Keeps(a, c, D, E)
<1>1. /\ Slots(c, E) /\ \A m \in Int : At(c, m) <=> At(a, m)
      /\ Meetings(c) = Meetings(a)
      /\ \A x \in ToSet(a) : ~IsWorkBlock(x) => x \in ToSet(c)
      /\ \A x \in ToSet(c) : FoldersIn(x) = {} => x \in ToSet(a)
      /\ Nobodys(a) => Nobodys(c)
      /\ Singles(a) => Singles(b) /\ Singles(c)
    BY DEF Keeps
<1>2. ASSUME Singles(a), NEW P, NEW m \in Int, m \notin D \/ P \cap Work = {} \/ Work \subseteq P
      PROVE  LedAt(c, P, m) <=> LedAt(a, P, m)
    <2>1. LedAt(c, P, m) <=> LedAt(b, P, m)
        BY <1>1, <1>2 DEF Keeps
    <2>2. LedAt(b, P, m) <=> LedAt(a, P, m)
        BY <1>2 DEF Keeps
    <2> QED BY <2>1, <2>2
<1> QED
    BY <1>1, <1>2 DEF Keeps

-----------------------------------------------------------------------------
(* All windows, one after the other. *)

WindowsCut(f, bs, s, day) ==
    f = [S \in SUBSET DOMAIN s |->
            IF S = {} THEN bs ELSE SplitWindow(f[S \ {Max(S)}], s[Max(S)], day)]

LEMMA CuttingExists ==
    ASSUME NEW n \in Nat, NEW s, DOMAIN s = 1 .. n, NEW bs, NEW day
    PROVE  \E f : WindowsCut(f, bs, s, day)
<1> DEFINE D == 1 .. n
           Upto(k) == {S \in SUBSET D : Cardinality(S) <= k}
           next(g, S) == IF S = {} THEN bs ELSE SplitWindow(g[S \ {Max(S)}], s[Max(S)], day)
           Part(g, k) == g = [S \in Upto(k) |-> next(g, S)]
           Bad == {k \in Nat : ~\E g : Part(g, k)}
<1>1. \A S \in SUBSET D : IsFiniteSet(S) /\ Cardinality(S) \in Nat
    BY IndicesFinite
<1>2. Bad = {}
    <2> SUFFICES ASSUME Bad # {} PROVE FALSE
        OBVIOUS
    <2>1. PICK m \in Bad : \A k \in Bad : m <= k
        BY SmallestNat
    <2>2. m # 0
        <3>1. \A S \in Upto(0) : S = {}
            BY <1>1, FS_EmptySet
        <3>2. Part([S \in Upto(0) |-> bs], 0)
            BY <3>1
        <3> QED BY <3>2
    <2>3. PICK g : Part(g, m - 1)
        <3> HIDE DEF Part
        <3>1. m - 1 \in Nat /\ ~(m <= m - 1)
            BY <2>1, <2>2
        <3> QED BY <2>1, <3>1
    <2> DEFINE h == [S \in Upto(m) |-> next(g, S)]
    <2>4. ASSUME NEW S \in Upto(m), S # {} PROVE S \ {Max(S)} \in Upto(m - 1)
        <3> DEFINE rest == S \ {Max(S)}
        <3>1. Cardinality(rest) < Cardinality(S) /\ Cardinality(S) \in Nat /\ Cardinality(S) <= m
            BY <2>4, LargestNat
        <3>2. rest \in SUBSET D
            OBVIOUS
        <3> HIDE DEF rest
        <3>3. Cardinality(rest) \in Nat
            BY <1>1, <3>2
        <3>4. Cardinality(rest) <= m - 1
            BY <2>1, <3>1, <3>3
        <3> QED BY <3>2, <3>4 DEF rest
    <2>5. \A S \in Upto(m - 1) : S \in Upto(m) /\ h[S] = g[S]
        <3>1. \A S \in Upto(m - 1) : S \in Upto(m)
            <4> TAKE S \in Upto(m - 1)
            <4>1. S \in SUBSET D /\ Cardinality(S) \in Nat /\ Cardinality(S) <= m - 1
                BY <1>1
            <4>2. Cardinality(S) <= m
                BY <2>1, <4>1
            <4> QED BY <4>1, <4>2
        <3> HIDE DEF next, Upto
        <3>2. \A S \in Upto(m - 1) : g[S] = next(g, S)
            BY <2>3
        <3> QED BY <3>1, <3>2
    <2>6. \A S \in Upto(m) : next(g, S) = next(h, S)
        BY <2>4, <2>5
    <2>7. Part(h, m)
        BY <2>6
    <2> QED BY <2>1, <2>7
<1>3. PICK f : Part(f, n)
    BY <1>2
<1>4. Upto(n) = SUBSET D
    <2>1. IsFiniteSet(D) /\ Cardinality(D) = n
        BY FS_Interval
    <2>2. \A S \in SUBSET D : Cardinality(S) <= n
        BY <2>1, FS_Subset
    <2> QED BY <2>2
<1> QED
    BY <1>3, <1>4 DEF WindowsCut

LEMMA PrefixIs ==
    ASSUME NEW n \in Nat, NEW k \in 1 .. n
    PROVE  1 .. k \in SUBSET (1 .. n) /\ 1 .. k # {} /\ (1 .. k) \ {k} = 1 .. k - 1
OBVIOUS

LEMMA CutInTurn ==
    ASSUME NEW E, Dated(E), NEW bs, Slots(bs, E), NEW n \in Nat, NEW s, DOMAIN s = 1 .. n,
           NEW D, \A i \in 1 .. n : Windowed(s[i], E) /\ \A m \in Int : Within(m, s[i]) => m \in D,
           NEW f, WindowsCut(f, bs, s, E)
    PROVE  Keeps(bs, f[1 .. n], D, E)
<1> DEFINE Kept(k) == Keeps(bs, f[1 .. k], D, E)
           Bad == {k \in 0 .. n : ~Kept(k)}
<1>1. \A S \in SUBSET (1 .. n) : f[S] = IF S = {} THEN bs ELSE SplitWindow(f[S \ {Max(S)}], s[Max(S)], E)
    BY DEF WindowsCut
<1>2. Kept(0)
    <2>1. 1 .. 0 = {} /\ {} \in SUBSET (1 .. n)
        OBVIOUS
    <2>2. f[1 .. 0] = bs
        BY <1>1, <2>1
    <2> QED BY <2>2, KeepsItself
<1>3. ASSUME NEW k \in 1 .. n, Kept(k - 1) PROVE Kept(k)
    <2> DEFINE S == 1 .. k
    <2>1. S \in SUBSET (1 .. n) /\ S # {} /\ S \ {k} = 1 .. k - 1
        BY PrefixIs
    <2>2. Max(S) = k
        <3>1. Max(S) \in S /\ \A j \in S : j <= Max(S)
            BY <2>1, LargestNat
        <3>2. k \in S
            OBVIOUS
        <3> QED BY <3>1, <3>2
    <2> HIDE DEF S
    <2> DEFINE c == f[1 .. k - 1]
               w == s[k]
    <2>3. f[S] = SplitWindow(c, w, E)
        BY <1>1, <2>1, <2>2
    <2>4. Keeps(bs, c, D, E) /\ Windowed(w, E) /\ \A m \in Int : Within(m, w) => m \in D
        BY <1>3
    <2> HIDE DEF c, w
    <2>5. Keeps(c, SplitWindow(c, w, E), D, E)
        BY <2>4, WindowKeeps DEF Keeps
    <2>6. Keeps(bs, f[S], D, E)
        BY <2>3, <2>4, <2>5, KeepsOn
    <2> QED BY <2>6 DEF S
<1> HIDE DEF Kept
<1>4. Bad = {}
    <2> SUFFICES ASSUME Bad # {} PROVE FALSE
        OBVIOUS
    <2>1. PICK k \in Bad : \A j \in Bad : k <= j
        <3>1. Bad \in SUBSET Nat
            OBVIOUS
        <3> HIDE DEF Bad
        <3> QED BY <3>1, SmallestNat
    <2>2. k # 0
        BY <1>2, <2>1
    <2>3. k \in 1 .. n /\ k - 1 \in 0 .. n /\ ~(k <= k - 1)
        BY <2>1, <2>2
    <2>4. Kept(k - 1)
        BY <2>1, <2>3
    <2> QED BY <1>3, <2>1, <2>3, <2>4
<1>5. n \in 0 .. n
    OBVIOUS
<1>6. Kept(n)
    BY <1>4, <1>5
<1> QED
    BY <1>6 DEF Kept

-----------------------------------------------------------------------------
(* merge_touching_same_project *)

JoinsOn(b, c) ==
    /\ ~b.cal /\ ~c.cal /\ b.end = c.start /\ b.ticket = c.ticket
    /\ LanesOf(b) = LanesOf(c) /\ Cardinality(LanesOf(b)) <= 1

JoinNext(out, b) ==
    IF out # <<>> /\ JoinsOn(Last(out), b)
    THEN Append(Front(out), [Last(out) EXCEPT !.end = b.end, !.events = @ \cup b.events])
    ELSE Append(out, b)

Joining(f, s) ==
    f = [S \in SUBSET DOMAIN s |->
            IF S = {} THEN <<>> ELSE JoinNext(f[S \ {Max(S)}], s[Max(S)])]

LEMMA JoinFold ==
    ASSUME NEW bs
    PROVE  MergeTouchingSameProject(bs) = (CHOOSE f : Joining(f, ByStart(bs)))[DOMAIN ByStart(bs)]
<1>1. MergeTouchingSameProject(bs)
        = MapThenFoldSet(LAMBDA x, y : JoinNext(y, x), <<>>, LAMBDA i : ByStart(bs)[i],
                         LAMBDA S : Max(S), DOMAIN ByStart(bs))
    BY DEF MergeTouchingSameProject, FoldLeft, JoinNext, JoinsOn
<1>2. @ = (CHOOSE f : Joining(f, ByStart(bs)))[DOMAIN ByStart(bs)]
    BY DEF MapThenFoldSet, Joining
<1> QED
    BY <1>1, <1>2

LEMMA AppendedSet ==
    ASSUME NEW R, NEW s \in Seq(R), NEW x \in R
    PROVE  /\ ToSet(Append(s, x)) = ToSet(s) \cup {x}
           /\ s # <<>> => ToSet(s) = ToSet(Front(s)) \cup {Last(s)}
<1>1. ToSet(Append(s, x)) = ToSet(s) \cup {x}
    <2> DEFINE q == Append(s, x)
    <2>1. /\ DOMAIN q = 1 .. Len(s) + 1 /\ DOMAIN s = 1 .. Len(s) /\ Len(s) \in Nat
          /\ q[Len(s) + 1] = x /\ \A i \in 1 .. Len(s) : q[i] = s[i]
        OBVIOUS
    <2>2. \A i : i \in 1 .. Len(s) + 1 <=> i \in 1 .. Len(s) \/ i = Len(s) + 1
        BY <2>1
    <2> HIDE DEF q
    <2>3. \A y : y \in ToSet(q) <=> y \in ToSet(s) \/ y = x
        BY <2>1, <2>2 DEF ToSet
    <2> QED BY <2>3 DEF q
<1>2. ASSUME s # <<>> PROVE ToSet(s) = ToSet(Front(s)) \cup {Last(s)}
    <2> DEFINE q == Front(s)
               k == Len(s) - 1
    <2>1. /\ Len(s) \in Nat /\ Len(s) >= 1 /\ Last(s) = s[Len(s)] /\ q \in Seq(R) /\ Len(q) = k
          /\ \A i \in 1 .. k : q[i] = s[i]
        BY <1>2, LastAndFront
    <2>2. DOMAIN q = 1 .. k /\ DOMAIN s = 1 .. Len(s)
        BY <2>1
    <2>3. \A i : i \in 1 .. Len(s) <=> i \in 1 .. k \/ i = Len(s)
        BY <2>1
    <2> HIDE DEF q, k
    <2>4. \A y : y \in ToSet(s) <=> y \in ToSet(q) \/ y = Last(s)
        BY <2>1, <2>2, <2>3 DEF ToSet
    <2> QED BY <2>4 DEF q
<1> QED
    BY <1>1, <1>2

(* A block may go on in another: a meeting as it is, work in a longer one  *)
(* of its lanes.                                                           *)
GoesOnIn(b, x) ==
    /\ x.cal = b.cal /\ (b.cal => x = b) /\ LanesOf(x) = LanesOf(b)
    /\ x = b \/ Cardinality(LanesOf(b)) <= 1

(* The blocks of a day: those of T, run together. *)
RunTogether(a, T) ==
    /\ \A b \in T : \E x \in a : GoesOnIn(b, x) /\ \A m \in Int : Within(m, b) => Within(m, x)
    /\ \A x \in a : \A m \in Int : Within(m, x) => \E b \in T : GoesOnIn(b, x) /\ Within(m, b)
    /\ \A x \in a : \A e \in x.events : \E b \in T : e \in b.events

LEMMA JoinedLanes ==
    ASSUME NEW x, NEW l, NEW b, x.events = l.events \cup b.events, LanesOf(l) = LanesOf(b)
    PROVE  LanesOf(x) = LanesOf(b)
<1>1. \A k : k \in LanesOf(x) <=> k \in LanesOf(l) \/ k \in LanesOf(b)
    BY DEF LanesOf
<1> QED
    BY <1>1

(* One block more, in place of or beside the last. *)
LEMMA RunOn ==
    ASSUME NEW R, NEW T, RunTogether(R, T), NEW b, b.start \in Int, b.end \in Int, b.start < b.end,
           b.cal = FALSE, NEW l \in R, l.cal = FALSE, l.start \in Int, l.end \in Int, l.start < l.end, JoinsOn(l, b),
           NEW x, x.start = l.start, x.end = b.end, x.cal = l.cal, x.events = l.events \cup b.events,
           NEW Q, R = Q \cup {l}
    PROVE  RunTogether(Q \cup {x}, T \cup {b})
<1>0. \A m \in Int : Within(m, l) => \E c \in T : GoesOnIn(c, l) /\ Within(m, c)
    BY Zenon DEF RunTogether
<1>1. /\ ~l.cal /\ ~b.cal /\ l.end = b.start /\ LanesOf(l) = LanesOf(b)
      /\ Cardinality(LanesOf(b)) <= 1
    BY DEF JoinsOn
<1>2. LanesOf(x) = LanesOf(b)
    BY <1>1, JoinedLanes
<1>3. \A m \in Int : Within(m, x) <=> Within(m, l) \/ Within(m, b)
    BY <1>1 DEF Within
<1>4. GoesOnIn(b, x)
    BY <1>1, <1>2 DEF GoesOnIn
<1>5. \A c : GoesOnIn(c, l) => GoesOnIn(c, x)
    <2> SUFFICES ASSUME NEW c, GoesOnIn(c, l) PROVE GoesOnIn(c, x)
        OBVIOUS
    <2> QED BY <1>1, <1>2 DEF GoesOnIn
<1>6. ASSUME NEW c \in T \cup {b}
      PROVE  \E y \in Q \cup {x} : GoesOnIn(c, y) /\ \A m \in Int : Within(m, c) => Within(m, y)
    <2>1. CASE c = b
        BY <1>3, <1>4, <2>1
    <2>2. CASE c \in T
        <3>1. PICK y \in R : GoesOnIn(c, y) /\ \A m \in Int : Within(m, c) => Within(m, y)
            BY <2>2 DEF RunTogether
        <3> QED BY <1>3, <1>5, <3>1
    <2> QED BY <2>1, <2>2
<1>7. ASSUME NEW y \in Q \cup {x}, NEW m \in Int, Within(m, y)
      PROVE  \E c \in T \cup {b} : GoesOnIn(c, y) /\ Within(m, c)
    <2>1. CASE y \in Q
        <3>1. \E c \in T : GoesOnIn(c, y) /\ Within(m, c)
            BY <1>7, <2>1 DEF RunTogether
        <3> QED BY <3>1
    <2>2. CASE y = x
        BY <1>0, <1>3, <1>4, <1>5, <1>7, <2>2
    <2> QED BY <2>1, <2>2
<1>8. \A y \in Q \cup {x} : \A e \in y.events : \E c \in T \cup {b} : e \in c.events
    BY DEF RunTogether
<1> QED
    BY <1>6, <1>7, <1>8 DEF RunTogether

LEMMA RunBeside ==
    ASSUME NEW R, NEW T, RunTogether(R, T), NEW b
    PROVE  RunTogether(R \cup {b}, T \cup {b})
<1>1. GoesOnIn(b, b)
    BY DEF GoesOnIn
<1>2. ASSUME NEW c \in T \cup {b}
      PROVE  \E y \in R \cup {b} : GoesOnIn(c, y) /\ \A m \in Int : Within(m, c) => Within(m, y)
    BY <1>1 DEF RunTogether
<1>3. ASSUME NEW y \in R \cup {b}, NEW m \in Int, Within(m, y)
      PROVE  \E c \in T \cup {b} : GoesOnIn(c, y) /\ Within(m, c)
    BY <1>1, <1>3 DEF RunTogether
<1>4. \A y \in R \cup {b} : \A e \in y.events : \E c \in T \cup {b} : e \in c.events
    BY DEF RunTogether
<1> QED
    BY <1>2, <1>3, <1>4 DEF RunTogether

(* The blocks that merging makes of those of bs. *)
Merged(bs, E) ==
    {b \in ToSet(bs) \cup [start : Int, end : Int, ticket : {c.ticket : c \in ToSet(bs)},
                           cal : BOOLEAN, events : SUBSET E] :
        Slot(b, E) /\ b.ticket \in {c.ticket : c \in ToSet(bs)}}

LEMMA JoinNextIs ==
    ASSUME NEW bs, NEW E, NEW out \in Seq(Merged(bs, E)), NEW b \in Merged(bs, E)
    PROVE  /\ JoinNext(out, b) \in Seq(Merged(bs, E))
           /\ \A T : RunTogether(ToSet(out), T) => RunTogether(ToSet(JoinNext(out, b)), T \cup {b})
<1> DEFINE R == Merged(bs, E)
<1>1. Slot(b, E) /\ b.ticket \in {c.ticket : c \in ToSet(bs)}
    BY DEF Merged
<1>2. CASE out # <<>> /\ JoinsOn(Last(out), b)
    <2> DEFINE l == Last(out)
               x == [l EXCEPT !.end = b.end, !.events = @ \cup b.events]
               f == Front(out)
    <2>1. l \in R /\ f \in Seq(R)
        BY <1>2, LastAndFront
    <2>2. JoinNext(out, b) = Append(f, x)
        BY <1>2 DEF JoinNext
    <2>3. ~l.cal /\ ~b.cal /\ l.end = b.start
        BY <1>2 DEF JoinsOn
    <2>4. Slot(l, E) /\ l.ticket \in {c.ticket : c \in ToSet(bs)}
        BY <2>1 DEF Merged
    <2>5. ToSet(out) = ToSet(f) \cup {l}
        BY <1>2, AppendedSet
    <2> HIDE DEF l, f
    <2>6. /\ DOMAIN x = {"start", "end", "ticket", "cal", "events"}
          /\ x.start = l.start /\ x.end = b.end /\ x.ticket = l.ticket /\ x.cal = l.cal
          /\ x.events = l.events \cup b.events
          /\ x = [i \in {"start", "end", "ticket", "cal", "events"} |-> x[i]]
        BY <2>4 DEF Slot
    <2> HIDE DEF x
    <2>7. /\ l.start \in Int /\ l.end \in Int /\ b.start \in Int /\ b.end \in Int /\ l.cal \in BOOLEAN
          /\ l.start < l.end /\ b.start < b.end /\ l.events \subseteq E /\ b.events \subseteq E
        BY <1>1, <2>4 DEF Slot
    <2>8. Slot(x, E)
        BY <2>3, <2>6, <2>7 DEF Slot
    <2>9. x \in [start : Int, end : Int, ticket : {c.ticket : c \in ToSet(bs)},
                 cal : BOOLEAN, events : SUBSET E]
        <3>1. x = [start |-> x.start, end |-> x.end, ticket |-> x.ticket, cal |-> x.cal, events |-> x.events]
            BY <2>6
        <3>2. x.start \in Int /\ x.end \in Int /\ x.cal \in BOOLEAN /\ x.events \in SUBSET E
              /\ x.ticket \in {c.ticket : c \in ToSet(bs)}
            BY <2>4, <2>6, <2>7
        <3> QED BY <3>1, <3>2
    <2>10. x \in R
        BY <2>4, <2>6, <2>8, <2>9 DEF Merged
    <2>11. Append(f, x) \in Seq(R) /\ ToSet(Append(f, x)) = ToSet(f) \cup {x}
        <3> HIDE DEF R
        <3>1. ToSet(Append(f, x)) = ToSet(f) \cup {x}
            BY <2>1, <2>10, AppendedSet
        <3>2. Append(f, x) \in Seq(R)
            BY <2>1, <2>10
        <3> QED BY <3>1, <3>2
    <2>12. l.cal = FALSE /\ b.cal = FALSE /\ JoinsOn(l, b)
        BY <1>1, <1>2, <2>3, <2>4 DEF l, Slot
    <2>13. ASSUME NEW T, RunTogether(ToSet(out), T)
           PROVE  RunTogether(ToSet(f) \cup {x}, T \cup {b})
        BY <2>5, <2>6, <2>7, <2>12, <2>13, RunOn
    <2> QED BY <2>2, <2>11, <2>13
<1>3. CASE ~(out # <<>> /\ JoinsOn(Last(out), b))
    <2>1. JoinNext(out, b) = Append(out, b)
        BY <1>3 DEF JoinNext
    <2> HIDE DEF R
    <2>2. ToSet(Append(out, b)) = ToSet(out) \cup {b}
        BY AppendedSet
    <2>3. Append(out, b) \in Seq(Merged(bs, E))
        OBVIOUS
    <2>4. \A T : RunTogether(ToSet(out), T) => RunTogether(ToSet(out) \cup {b}, T \cup {b})
        BY RunBeside
    <2> QED BY <2>1, <2>2, <2>3, <2>4
<1> QED
    BY <1>2, <1>3

LEMMA MergeRuns ==
    ASSUME NEW E, NEW bs, Slots(bs, E)
    PROVE  /\ Slots(MergeTouchingSameProject(bs), E)
           /\ RunTogether(ToSet(MergeTouchingSameProject(bs)), ToSet(bs))
<1> DEFINE R == Merged(bs, E)
           A == Seq(R)
           s == ByStart(bs)
           F == [x \in A \X R |-> JoinNext(x[1], x[2])]
           D == SUBSET (1 .. Len(s))
<1>1. bs \in Seq(R) /\ \A b \in ToSet(bs) : b \in R /\ b.start \in Int
    <2>1. \A b \in ToSet(bs) : b \in R /\ b.start \in Int
        BY DEF Merged, Slots, Slot
    <2>2. bs \in Seq(ToSet(bs)) /\ ToSet(bs) \subseteq R
        BY <2>1 DEF Slots
    <2> HIDE DEF R
    <2>3. bs \in Seq(R)
        BY <2>2
    <2> QED BY <2>1, <2>3
<1>2. s \in Seq(R) /\ ToSet(s) = ToSet(bs)
    <2> HIDE DEF R
    <2> QED BY <1>1, ByStartIs
<1>3. F \in [A \X R -> A] /\ <<>> \in A
    BY JoinNextIs
<1>4. \A out \in A, b \in R : F[<<out, b>>] = JoinNext(out, b)
    OBVIOUS
<1> HIDE DEF A, F, s, R
<1>5. PICK f : LeftFold(f, A, F, <<>>, s)
    BY <1>2, <1>3, LeftExists
<1>6. DOMAIN s = 1 .. Len(s) /\ Len(s) \in Nat
    BY <1>2
<1>7. ASSUME NEW S \in D, S # {}
      PROVE  S \ {Max(S)} \in D /\ s[Max(S)] \in R
    <2>1. Max(S) \in 1 .. Len(s)
        BY <1>6, <1>7, LargestNat
    <2>2. S \ {Max(S)} \in D
        OBVIOUS
    <2> HIDE DEF D
    <2>3. s[Max(S)] \in R
        BY <1>2, <2>1
    <2> QED BY <2>2, <2>3
<1>8. Joining(f, s)
    <2>1. f \in [D -> A] /\ \A S \in D : f[S] = Left(f, F, <<>>, s, S)
        BY <1>5 DEF LeftFold
    <2>2. ASSUME NEW S \in D
          PROVE  f[S] = IF S = {} THEN <<>> ELSE JoinNext(f[S \ {Max(S)}], s[Max(S)])
        <3> HIDE DEF D
        <3> QED BY <1>4, <1>7, <2>1 DEF Left
    <2> QED BY <1>6, <2>1, <2>2 DEF Joining
<1> DEFINE g == CHOOSE p : Joining(p, s)
<1>9. Joining(g, s)
    BY <1>8
<1>10. MergeTouchingSameProject(bs) = g[1 .. Len(s)]
    BY <1>6, JoinFold DEF s
<1> HIDE DEF g
<1>11. Alike(f, g, Len(s))
    BY <1>6, <1>8, <1>9 DEF Joining, Alike
<1> DEFINE Upto(k) == {s[i] : i \in 1 .. k}
           P == {x \in Nat \X A : RunTogether(ToSet(x[2]), Upto(x[1]))}
<1>12. Keeping(P, A, F, <<>>, s)
    <2>1. <<0, <<>>>> \in P
        <3>1. ToSet(<<>>) = {} /\ Upto(0) = {}
            BY DEF ToSet
        <3>2. RunTogether(ToSet(<<>>), Upto(0))
            BY <3>1 DEF RunTogether
        <3> HIDE DEF Upto
        <3> QED BY <1>3, <3>2
    <2>2. ASSUME NEW k \in 1 .. Len(s), NEW a \in A, <<k - 1, a>> \in P
          PROVE  <<k, F[<<a, s[k]>>]>> \in P
        <3>1. s[k] \in R /\ k \in Nat
            BY <1>2, <1>6
        <3>2. F[<<a, s[k]>>] \in A /\ F[<<a, s[k]>>] = JoinNext(a, s[k])
            BY <1>3, <1>4, <3>1
        <3>3. \A T : RunTogether(ToSet(a), T) => RunTogether(ToSet(JoinNext(a, s[k])), T \cup {s[k]})
            BY <3>1, JoinNextIs DEF A, R
        <3>4. RunTogether(ToSet(a), Upto(k - 1))
            <4> HIDE DEF Upto
            <4> QED BY <2>2
        <3>5. \A i : i \in 1 .. k <=> i \in 1 .. k - 1 \/ i = k
            BY <3>1
        <3>6. Upto(k) = Upto(k - 1) \cup {s[k]}
            BY <3>5
        <3> HIDE DEF Upto
        <3>7. RunTogether(ToSet(F[<<a, s[k]>>]), Upto(k))
            BY <3>2, <3>3, <3>4, <3>6
        <3> QED BY <3>1, <3>2, <3>7
    <2> HIDE DEF P
    <2> QED BY <2>1, <2>2 DEF Keeping
<1>13. g[1 .. Len(s)] \in A /\ <<Len(s), g[1 .. Len(s)]>> \in P
    <2> HIDE DEF P
    <2> QED BY <1>2, <1>3, <1>5, <1>11, <1>12, FoldKeeps
<1> DEFINE q == g[1 .. Len(s)]
<1>14. RunTogether(ToSet(q), Upto(Len(s)))
    <2> HIDE DEF Upto, q
    <2> QED BY <1>13 DEF q
<1>15. Slots(q, E)
    <2>1. q \in Seq(R)
        BY <1>13 DEF A
    <2> HIDE DEF q
    <2>2. DOMAIN q = 1 .. Len(q) /\ Len(q) \in Nat /\ q = [i \in 1 .. Len(q) |-> q[i]] /\ \A i \in 1 .. Len(q) : q[i] \in R
        BY <2>1
    <2>3. q \in [1 .. Len(q) -> ToSet(q)]
        BY <2>2 DEF ToSet
    <2>4. q \in Seq(ToSet(q))
        BY <2>2, <2>3, FunctionIsSeq
    <2>5. \A b \in ToSet(q) : Slot(b, E)
        BY <2>2 DEF ToSet, R, Merged
    <2> QED BY <2>4, <2>5 DEF Slots
<1>16. Upto(Len(s)) = ToSet(bs)
    BY <1>2, <1>6 DEF ToSet
<1> HIDE DEF q, Upto
<1> QED
    BY <1>10, <1>14, <1>15, <1>16 DEF q

(* Run together, the blocks of a day keep their minutes, the meetings, and *)
(* who leads them.                                                         *)
UnledAt(bs, m) == \E b \in ToSet(bs) : ~b.cal /\ FoldersIn(b) = {} /\ Within(m, b)

OwnAt(bs, m) == \E b \in ToSet(bs) : ~b.cal /\ ~IsWorkBlock(b) /\ Within(m, b)

AllLed(bs) == \A b \in ToSet(bs) : ~b.cal => LanesOf(b) # {}

LEMMA StartsWithin ==
    ASSUME NEW E, NEW b, Slot(b, E)
    PROVE  b.start \in Int /\ Within(b.start, b)
BY DEF Slot, Within

LEMMA RunMeetings ==
    ASSUME NEW E, NEW c, Slots(c, E), NEW q, Slots(q, E), RunTogether(ToSet(q), ToSet(c))
    PROVE  Meetings(q) = Meetings(c) /\ \A m \in Int : At(q, m) <=> At(c, m)
<1>1. ASSUME NEW x \in ToSet(q)
      PROVE  \E b \in ToSet(c) : GoesOnIn(b, x)
    <2>1. x.start \in Int /\ Within(x.start, x)
        BY StartsWithin DEF Slots
    <2> QED BY <2>1 DEF RunTogether
<1>2. \A x \in ToSet(q) : x.cal => x \in ToSet(c)
    BY <1>1 DEF GoesOnIn
<1>3. \A b \in ToSet(c) : b.cal => b \in ToSet(q)
    BY DEF RunTogether, GoesOnIn
<1>4. Meetings(q) = Meetings(c)
    BY <1>2, <1>3 DEF Meetings
<1>5. ASSUME NEW m \in Int, At(q, m) PROVE At(c, m)
    <2>1. PICK x \in ToSet(q) : ~x.cal /\ Within(m, x)
        BY <1>5 DEF At
    <2>2. PICK b \in ToSet(c) : GoesOnIn(b, x) /\ Within(m, b)
        BY <2>1 DEF RunTogether
    <2> QED BY <2>1, <2>2 DEF GoesOnIn, At
<1>6. ASSUME NEW m \in Int, At(c, m) PROVE At(q, m)
    <2>1. PICK b \in ToSet(c) : ~b.cal /\ Within(m, b)
        BY <1>6 DEF At
    <2>2. PICK x \in ToSet(q) : GoesOnIn(b, x) /\ Within(m, x)
        BY <2>1 DEF RunTogether
    <2> QED BY <2>1, <2>2 DEF GoesOnIn, At
<1> QED
    BY <1>4, <1>5, <1>6

LEMMA LedByLane ==
    ASSUME NEW E, Dated(E), NEW b, b.events \subseteq E, LanesOf(b) # {}, Cardinality(LanesOf(b)) <= 1
    PROVE  DominantFolders(b) = {k[1] : k \in LanesOf(b)}
<1> DEFINE real == {e \in b.events : e.project # Null /\ e.kind # "lifecycle"}
           votes(p) == Cardinality({e \in real : e.project = p})
           folders == {e.project : e \in real}
<1>1. LanesOf(b) = {LaneKey(e) : e \in real}
    BY DEF LanesOf
<1>2. IsFiniteSet(real)
    <2>1. real \subseteq E
        OBVIOUS
    <2> HIDE DEF real
    <2> QED BY <2>1, FS_Subset DEF Dated
<1>3. real # {}
    BY <1>1
<1>4. DominantFolders(b) = {p \in folders : \A q \in folders : votes(q) <= votes(p)}
    BY <1>3 DEF DominantFolders
<1> HIDE DEF real
<1>5. IsFiniteSet(LanesOf(b))
    <2> DEFINE f == [e \in real |-> LaneKey(e)]
    <2>1. f \in Surjection(real, LanesOf(b))
        BY <1>1 DEF Surjection
    <2> HIDE DEF f
    <2> QED BY <1>2, <2>1, FS_Surjection
<1>6. PICK k : LanesOf(b) = {k}
    <2>1. Cardinality(LanesOf(b)) \in Nat /\ Cardinality(LanesOf(b)) # 0
        BY <1>5, FS_CardinalityType, FS_EmptySet
    <2>2. Cardinality(LanesOf(b)) = 1
        BY <2>1
    <2> QED BY <1>5, <2>2, FS_Singleton
<1>7. \A e \in real : e.project = k[1]
    <2> TAKE e \in real
    <2>1. LaneKey(e) \in LanesOf(b)
        BY <1>1
    <2>2. LaneKey(e) = k
        BY <1>6, <2>1
    <2> QED BY <2>2 DEF LaneKey
<1>8. \A p : votes(p) \in Nat
    <2> TAKE p
    <2>1. {e \in real : e.project = p} \subseteq real
        OBVIOUS
    <2> QED BY <1>2, <2>1, FS_Subset, FS_CardinalityType
<1>9. folders = {k[1]}
    BY <1>3, <1>7
<1> HIDE DEF votes, folders
<1>10. votes(k[1]) <= votes(k[1])
    BY <1>8
<1> QED
    BY <1>4, <1>6, <1>9, <1>10

LEMMA OwnRunsOn ==
    ASSUME NEW E, Dated(E), NEW b, Slot(b, E), NEW x, Slot(x, E), GoesOnIn(b, x),
           ~IsWorkBlock(b), LanesOf(b) # {}
    PROVE  ~IsWorkBlock(x)
<1>1. CASE x = b
    BY <1>1
<1>2. CASE Cardinality(LanesOf(b)) <= 1
    <2>1. LanesOf(x) = LanesOf(b) /\ b.events \subseteq E /\ x.events \subseteq E
        BY DEF GoesOnIn, Slot
    <2>2. DominantFolders(b) = DominantFolders(x)
        BY <1>2, <2>1, LedByLane
    <2> QED BY <2>2 DEF IsWorkBlock
<1> QED
    BY <1>1, <1>2 DEF GoesOnIn

LEMMA RunOwn ==
    ASSUME NEW E, Dated(E), NEW bs, Slots(bs, E), NEW D, NEW c, Keeps(bs, c, D, E),
           NEW q, Slots(q, E), RunTogether(ToSet(q), ToSet(c)),
           Nobodys(bs) \/ AllLed(bs), NEW m \in Int, OwnAt(bs, m)
    PROVE  OwnAt(q, m)
<1>1. PICK b \in ToSet(bs) : ~b.cal /\ ~IsWorkBlock(b) /\ Within(m, b)
    BY DEF OwnAt
<1>2. b \in ToSet(c)
    BY <1>1 DEF Keeps
<1>3. PICK x \in ToSet(q) : GoesOnIn(b, x) /\ Within(m, x)
    BY <1>1, <1>2 DEF RunTogether
<1>4. CASE Nobodys(bs)
    <2>1. Nobodys(c)
        BY <1>4 DEF Keeps
    <2>2. FoldersIn(x) = {}
        BY <2>1 DEF RunTogether, Nobodys, FoldersIn
    <2>3. ~IsWorkBlock(x)
        BY <2>2, WorkIsLocated DEF FoldersIn
    <2> QED BY <1>1, <1>3, <2>3 DEF GoesOnIn, OwnAt
<1>5. CASE AllLed(bs)
    <2>1. LanesOf(b) # {} /\ Slot(b, E) /\ Slot(x, E)
        BY <1>1, <1>5 DEF AllLed, Slots
    <2>2. ~IsWorkBlock(x)
        BY <1>1, <1>3, <2>1, OwnRunsOn
    <2> QED BY <1>1, <1>3, <2>2 DEF GoesOnIn, OwnAt
<1> QED
    BY <1>4, <1>5

(* Without bookkeeping the lanes of a block name its folders.              *)
LEMMA FoldersByLanes ==
    ASSUME NEW b, \A e \in b.events : e.kind # "lifecycle"
    PROVE  FoldersIn(b) = {k[1] : k \in LanesOf(b)}
<1>1. \A k : k \in LanesOf(b) <=> \E e \in b.events : e.project # Null /\ k = LaneKey(e)
    BY DEF LanesOf
<1>2. \A e : LaneKey(e)[1] = e.project
    BY DEF LaneKey
<1>3. \A p : p \in FoldersIn(b) <=> \E e \in b.events : e.project # Null /\ p = e.project
    BY DEF FoldersIn
<1>4. \A p : p \in FoldersIn(b) <=> p \in {k[1] : k \in LanesOf(b)}
    BY <1>1, <1>2, <1>3
<1> QED
    BY <1>4

LEMMA RunFolders ==
    ASSUME NEW E, \A e \in E : e.kind # "lifecycle", NEW c, Slots(c, E), Singles(c),
           NEW q, Slots(q, E), RunTogether(ToSet(q), ToSet(c))
    PROVE  /\ Singles(q)
           /\ \A P : \A m \in Int : LedAt(q, P, m) <=> LedAt(c, P, m)
           /\ \A m \in Int : UnledAt(q, m) <=> UnledAt(c, m)
<1>1. \A b : b \in ToSet(c) \/ b \in ToSet(q) => FoldersIn(b) = {k[1] : k \in LanesOf(b)}
    BY FoldersByLanes DEF Slots, Slot
<1>2. \A b \in ToSet(c), x \in ToSet(q) : GoesOnIn(b, x) => FoldersIn(x) = FoldersIn(b) /\ x.cal = b.cal
    BY <1>1 DEF GoesOnIn
<1>3. ASSUME NEW x \in ToSet(q) PROVE OfOneFolder(x)
    <2>1. x.start \in Int /\ Within(x.start, x)
        BY StartsWithin DEF Slots
    <2>2. PICK b \in ToSet(c) : GoesOnIn(b, x)
        BY <2>1 DEF RunTogether
    <2>3. FoldersIn(x) = FoldersIn(b) /\ OfOneFolder(b)
        BY <1>2, <2>2 DEF Singles
    <2>4. \A p, r \in FoldersIn(b) : p = r
        BY <2>3 DEF OfOneFolder, FoldersIn
    <2>5. \A p, r \in FoldersIn(x) : p = r
        BY <2>3, <2>4
    <2>6. \A e \in x.events : e.project # Null => e.project \in FoldersIn(x)
        BY DEF FoldersIn
    <2> QED BY <2>5, <2>6 DEF OfOneFolder
<1>4. ASSUME NEW x \in ToSet(q), NEW m \in Int, Within(m, x)
      PROVE  \E b \in ToSet(c) : FoldersIn(b) = FoldersIn(x) /\ b.cal = x.cal /\ Within(m, b)
    BY <1>2, <1>4 DEF RunTogether
<1>5. ASSUME NEW b \in ToSet(c), NEW m \in Int, Within(m, b)
      PROVE  \E x \in ToSet(q) : FoldersIn(x) = FoldersIn(b) /\ x.cal = b.cal /\ Within(m, x)
    BY <1>2, <1>5 DEF RunTogether
<1>6. \A P : \A m \in Int : LedAt(q, P, m) <=> LedAt(c, P, m)
    BY <1>4, <1>5 DEF LedAt
<1>7. \A m \in Int : UnledAt(q, m) <=> UnledAt(c, m)
    BY <1>4, <1>5 DEF UnledAt
<1> QED
    BY <1>3, <1>6, <1>7 DEF Singles

-----------------------------------------------------------------------------
(* The blocks a day begins with. *)

LEMMA GoodIsSlot ==
    ASSUME NEW D, DayRows(D), NEW B, B \subseteq D, NEW b, Good(b, B)
    PROVE  Slot(b, D)
<1>1. b.cal => \A e \in b.events : e.project = Null
    BY DEF Good, PureBlock, DayRows, DayRow
<1> QED
    BY <1>1 DEF Good, Slot

LEMMA GoodDaySlots ==
    ASSUME NEW D, DayRows(D), NEW B, B \subseteq D, NEW bs, GoodDay(bs, B)
    PROVE  Slots(bs, D)
BY GoodIsSlot DEF GoodDay, Slots

LEMMA PlacedSlots ==
    ASSUME NEW D, NEW bs, Slots(bs, D), NEW R, R \subseteq D
    PROVE  Slots(PlaceFolderless(bs, R), D)
<1> DEFINE around(e) == {i \in DOMAIN bs : ~bs[i].cal /\ bs[i].start <= e.at /\ e.at < bs[i].end}
           placed(i) == {e \in R : around(e) # {} /\ i = Min(around(e))}
           with(b, S) == IF S = {} THEN b
                         ELSE [b EXCEPT !.events = @ \cup S, !.ticket = UniqueTicket(b.events \cup S)]
           n == Len(bs)
           q == PlaceFolderless(bs, R)
<1>1. q = [i \in DOMAIN bs |-> with(bs[i], placed(i))]
    BY DEF PlaceFolderless
<1>2. DOMAIN bs = 1 .. n /\ n \in Nat /\ \A i \in 1 .. n : Slot(bs[i], D)
    BY DEF Slots, ToSet
<1>3. ASSUME NEW i \in 1 .. n, placed(i) # {} PROVE ~bs[i].cal
    <2>1. PICK e \in R : around(e) # {} /\ i = Min(around(e))
        BY <1>3
    <2>2. around(e) \in SUBSET (1 .. n) /\ around(e) \subseteq Int
        BY <1>2
    <2>3. IsFiniteSet(around(e))
        <3> HIDE DEF around
        <3> QED BY <1>2, <2>2, IndicesFinite
    <2>4. i \in around(e)
        <3> HIDE DEF around
        <3> QED BY <2>1, <2>2, <2>3, LeastInt
    <2> QED BY <2>4
<1>4. \A i : placed(i) \subseteq D
    OBVIOUS
<1> HIDE DEF placed, n, q
<1>5. ASSUME NEW i \in 1 .. n PROVE Slot(with(bs[i], placed(i)), D)
    <2> DEFINE b == bs[i]
               S == placed(i)
               t == UniqueTicket(b.events \cup S)
               x == [b EXCEPT !.events = @ \cup S, !.ticket = t]
    <2>1. CASE S = {}
        BY <1>2, <2>1
    <2>2. CASE S # {}
        <3>1. Slot(b, D) /\ ~b.cal /\ S \subseteq D
            BY <1>2, <1>3, <1>4, <2>2
        <3>2. with(bs[i], placed(i)) = x
            BY <2>2
        <3> HIDE DEF b, S, t, with
        <3>3. /\ DOMAIN x = {"start", "end", "ticket", "cal", "events"}
              /\ x.start = b.start /\ x.end = b.end /\ x.cal = b.cal /\ x.events = b.events \cup S
            BY <3>1 DEF Slot
        <3> HIDE DEF x
        <3>4. Slot(x, D)
            BY <3>1, <3>3 DEF Slot
        <3> QED BY <3>2, <3>4
    <2> QED BY <2>1, <2>2
<1> HIDE DEF with
<1>6. DOMAIN q = 1 .. n /\ \A i \in 1 .. n : Slot(q[i], D)
    BY <1>1, <1>2, <1>5
<1>7. q \in [1 .. n -> ToSet(q)]
    <2>1. q = [i \in 1 .. n |-> q[i]]
        BY <1>1, <1>2
    <2> QED BY <1>6, <2>1 DEF ToSet
<1>8. q \in Seq(ToSet(q))
    BY <1>2, <1>7, FunctionIsSeq
<1>9. Slots(q, D)
    BY <1>6, <1>8 DEF Slots, ToSet
<1> QED
    BY <1>9 DEF q

LEMMA ProjectsAreSlots ==
    ASSUME NEW D, DayRows(D)
    PROVE  Slots(BuildBlocksByProject(D), D)
<1> DEFINE E == Counted(D)
           R == {e \in E : Rides(e)}
           B == {e \in E : ~Rides(e)}
<1>1. DayRows(E) /\ Settled(B) /\ E \ R = B
    BY CountedRows
<1>2. E \subseteq D /\ R \subseteq D /\ B \subseteq D
    BY DEF Counted
<1>3. BuildBlocksByProject(D) = IF Folderless(E) THEN BuildBlocks(E)
                                ELSE PlaceFolderless(ProjectBlocks(E \ R), R)
    BY DEF BuildBlocksByProject, Folderless
<1> HIDE DEF E, R, B
<1>4. GoodDay(BuildBlocks(E), E)
    BY <1>1, BuiltGood
<1>5. GoodDay(ProjectBlocks(B), B)
    BY <1>1, ProjectGood
<1>6. Slots(BuildBlocks(E), D)
    BY <1>2, <1>4, GoodDaySlots
<1>7. Slots(ProjectBlocks(B), D)
    BY <1>2, <1>5, GoodDaySlots
<1>8. Slots(PlaceFolderless(ProjectBlocks(B), R), D)
    BY <1>2, <1>7, PlacedSlots
<1> QED
    BY <1>1, <1>3, <1>6, <1>8

(* What saved windows may do to the blocks of a day. *)
Moved(bs, q, D, E) ==
    /\ Slots(q, E) /\ Meetings(q) = Meetings(bs)
    /\ \A m \in Int : At(q, m) <=> At(bs, m)
    /\ Nobodys(bs) \/ AllLed(bs) => \A m \in Int : OwnAt(bs, m) => OwnAt(q, m)
    /\ Singles(bs) /\ (\A e \in E : e.kind # "lifecycle") =>
          /\ Singles(q) /\ \A m \in Int : UnledAt(q, m) <=> UnledAt(bs, m)
          /\ \A P : \A m \in Int :
                (m \notin D \/ P \cap Work = {} \/ Work \subseteq P) => (LedAt(q, P, m) <=> LedAt(bs, P, m))

LEMMA MovedIfMerged ==
    ASSUME NEW E, Dated(E), NEW bs, Slots(bs, E), NEW D, NEW c, Keeps(bs, c, D, E)
    PROVE  Moved(bs, MergeTouchingSameProject(c), D, E)
<1> DEFINE q == MergeTouchingSameProject(c)
<1>1. Slots(c, E)
    BY DEF Keeps
<1>2. Slots(q, E) /\ RunTogether(ToSet(q), ToSet(c))
    BY <1>1, MergeRuns
<1> HIDE DEF q
<1>3. Meetings(q) = Meetings(bs) /\ \A m \in Int : At(q, m) <=> At(bs, m)
    <2>1. Meetings(q) = Meetings(c) /\ \A m \in Int : At(q, m) <=> At(c, m)
        BY <1>1, <1>2, RunMeetings
    <2> QED BY <2>1 DEF Keeps
<1>4. ASSUME Nobodys(bs) \/ AllLed(bs), NEW m \in Int, OwnAt(bs, m)
      PROVE  OwnAt(q, m)
    BY <1>2, <1>4, RunOwn
<1>5. ASSUME Singles(bs), \A e \in E : e.kind # "lifecycle"
      PROVE  /\ Singles(q) /\ \A m \in Int : UnledAt(q, m) <=> UnledAt(bs, m)
             /\ \A P : \A m \in Int :
                   (m \notin D \/ P \cap Work = {} \/ Work \subseteq P) =>
                       (LedAt(q, P, m) <=> LedAt(bs, P, m))
    <2>1. Singles(c)
        BY <1>5 DEF Keeps
    <2>2. /\ Singles(q)
          /\ \A P : \A m \in Int : LedAt(q, P, m) <=> LedAt(c, P, m)
          /\ \A m \in Int : UnledAt(q, m) <=> UnledAt(c, m)
        BY <1>1, <1>2, <1>5, <2>1, RunFolders
    <2>3. \A P : \A m \in Int :
              (m \notin D \/ P \cap Work = {} \/ Work \subseteq P) =>
                  (LedAt(c, P, m) <=> LedAt(bs, P, m))
        BY <1>5 DEF Keeps
    <2>4. \A x \in ToSet(bs) : FoldersIn(x) = {} => x \in ToSet(c)
        <3>1. \A x : FoldersIn(x) = {} => ~IsWorkBlock(x)
            BY WorkIsLocated DEF FoldersIn
        <3> QED BY <3>1 DEF Keeps
    <2>5. \A x \in ToSet(c) : FoldersIn(x) = {} => x \in ToSet(bs)
        BY DEF Keeps
    <2>6. \A m : UnledAt(c, m) <=> UnledAt(bs, m)
        BY <2>4, <2>5 DEF UnledAt
    <2> QED BY <2>2, <2>3, <2>6
<1>6. Moved(bs, q, D, E)
    BY <1>2, <1>3, <1>4, <1>5 DEF Moved
<1> QED
    BY <1>6 DEF q

LEMMA SplitsOnlyMove ==
    ASSUME NEW E, Dated(E), NEW bs, Slots(bs, E), NEW saved, IsFiniteSet(saved), NEW D,
           \A w \in saved : Windowed(w, E) /\ \A m \in Int : Within(m, w) => m \in D
    PROVE  Moved(bs, ApplySplits(bs, saved, E), D, E)
<1>1. CASE saved = {}
    <2>1. ApplySplits(bs, saved, E) = bs
        BY <1>1 DEF ApplySplits
    <2> QED BY <2>1 DEF Moved
<1>2. CASE saved # {}
    <2> DEFINE S == {w.start : w \in saved}
               n == Cardinality(S)
               starts == Ascending(S)
               order == [k \in DOMAIN starts |-> CHOOSE w \in saved : w.start = starts[k]]
    <2>1. S \subseteq Int
        BY DEF Windowed
    <2>2. IsFiniteSet(S)
        <3> DEFINE f == [w \in saved |-> w.start]
        <3>1. f \in Surjection(saved, S)
            BY DEF Surjection
        <3> HIDE DEF f, S
        <3> QED BY <3>1, FS_Surjection
    <2>3. starts \in [1 .. n -> S] /\ n \in Nat
        <3> HIDE DEF S
        <3> QED BY <2>1, <2>2, AscendingIs
    <2>4. \A s \in S : \E w \in saved : w.start = s
        OBVIOUS
    <2> HIDE DEF S, n, starts
    <2>5. DOMAIN order = 1 .. n /\ \A k \in 1 .. n : Windowed(order[k], E) /\ \A m \in Int : Within(m, order[k]) => m \in D
        <3>1. DOMAIN order = 1 .. n
            BY <2>3
        <3>2. ASSUME NEW k \in 1 .. n PROVE order[k] \in saved
            <4>1. order[k] = CHOOSE w \in saved : w.start = starts[k]
                BY <3>1
            <4>2. \E w \in saved : w.start = starts[k]
                BY <2>3, <2>4
            <4> HIDE DEF order
            <4> QED BY <4>1, <4>2
        <3> QED BY <3>1, <3>2
    <2>6. ApplySplits(bs, saved, E)
            = MergeTouchingSameProject((CHOOSE f : WindowsCut(f, bs, order, E))[DOMAIN order])
        <3> DEFINE cut(c, w) == SplitWindow(c, w, E)
        <3>1. ApplySplits(bs, saved, E) = MergeTouchingSameProject(FoldLeft(cut, bs, order))
            BY <1>2 DEF ApplySplits, starts, S
        <3> HIDE DEF order
        <3>2. FoldLeft(cut, bs, order)
                = MapThenFoldSet(LAMBDA x, y : cut(y, x), bs, LAMBDA i : order[i], LAMBDA T : Max(T),
                                 DOMAIN order)
            BY DEF FoldLeft
        <3>3. @ = (CHOOSE f : WindowsCut(f, bs, order, E))[DOMAIN order]
            BY DEF MapThenFoldSet, WindowsCut
        <3> QED BY <3>1, <3>2, <3>3
    <2> HIDE DEF order
    <2>7. \E f : WindowsCut(f, bs, order, E)
        BY <2>3, <2>5, CuttingExists
    <2> DEFINE f == CHOOSE g : WindowsCut(g, bs, order, E)
               q == f[1 .. n]
    <2>8. WindowsCut(f, bs, order, E)
        BY <2>7
    <2>9. ApplySplits(bs, saved, E) = MergeTouchingSameProject(q)
        BY <2>5, <2>6
    <2> HIDE DEF f
    <2>10. Keeps(bs, q, D, E)
        BY <2>3, <2>5, <2>8, CutInTurn
    <2> HIDE DEF q
    <2> QED BY <2>9, <2>10, MovedIfMerged
<1> QED
    BY <1>1, <1>2

-----------------------------------------------------------------------------
(* Whose a day's blocks are, before any window.                            *)
LEMMA ProjectsAreLed ==
    ASSUME NEW D, DayRows(D)
    PROVE  Nobodys(BuildBlocksByProject(D)) \/ AllLed(BuildBlocksByProject(D))
<1> DEFINE E == Counted(D)
           R == {e \in E : Rides(e)}
           B == {e \in E : ~Rides(e)}
           bs == BuildBlocksByProject(D)
           built == BuildBlocks(E)
           projects == ProjectBlocks(B)
<1>1. DayRows(E) /\ Settled(B) /\ E \ R = B
    BY CountedRows
<1>2. bs = IF Folderless(E) THEN built ELSE PlaceFolderless(ProjectBlocks(E \ R), R)
    BY DEF BuildBlocksByProject, Folderless
<1> HIDE DEF E, R, B, bs
<1>3. GoodDay(built, E)
    BY <1>1, BuiltGood
<1>4. GoodDay(projects, B)
    BY <1>1, ProjectGood
<1> HIDE DEF built
<1>5. CASE Folderless(E)
    <2>1. \A e \in E : e.project = Null
        BY <1>1, <1>5 DEF Folderless, DayRows, DayRow
    <2>2. \A b \in ToSet(built) : b.events \subseteq E
        BY <1>3 DEF GoodDay, Good
    <2>3. Nobodys(built)
        BY <2>1, <2>2 DEF Nobodys, FoldersIn
    <2> QED BY <1>2, <1>5, <2>3 DEF bs
<1>6. CASE ~Folderless(E)
    <2> DEFINE around(e) == {i \in DOMAIN projects : /\ ~projects[i].cal
                                                     /\ projects[i].start <= e.at /\ e.at < projects[i].end}
               placed(i) == {e \in R : around(e) # {} /\ i = Min(around(e))}
               with(b, S) == IF S = {} THEN b
                             ELSE [b EXCEPT !.events = @ \cup S, !.ticket = UniqueTicket(b.events \cup S)]
    <2>1. bs = PlaceFolderless(projects, R)
        BY <1>1, <1>2, <1>6
    <2>2. PlaceFolderless(projects, R) = [i \in DOMAIN projects |-> with(projects[i], placed(i))]
        BY DEF PlaceFolderless
    <2> HIDE DEF placed, projects
    <2>3. ASSUME NEW b, Good(b, B), NEW S, ~with(b, S).cal PROVE LanesOf(with(b, S)) # {}
        <3> DEFINE t == UniqueTicket(b.events \cup S)
                   x == [b EXCEPT !.events = @ \cup S, !.ticket = t]
                   y == with(b, S)
        <3>1. DOMAIN b = {"start", "end", "ticket", "cal", "events"} /\ b.events # {}
            BY <2>3 DEF Good
        <3>2. x.cal = b.cal /\ x.events = b.events \cup S
            BY <3>1
        <3>3. y = IF S = {} THEN b ELSE x
            OBVIOUS
        <3>4. ~y.cal
            BY <2>3
        <3> HIDE DEF x, y, t, with
        <3>5. y.cal = b.cal /\ b.events \subseteq y.events
            BY <3>2, <3>3
        <3>6. \A e \in b.events : e.project # Null /\ e.kind # "lifecycle"
            BY <1>1, <2>3, <3>4, <3>5, GoodIsFolders
        <3>7. \E e \in y.events : e.project # Null /\ e.kind # "lifecycle"
            BY <3>1, <3>5, <3>6
        <3>8. LanesOf(y) # {}
            BY <3>7 DEF LanesOf
        <3> QED BY <3>8 DEF y
    <2> HIDE DEF with
    <2>4. \A i \in DOMAIN projects : Good(projects[i], B)
        BY <1>4 DEF GoodDay, ToSet
    <2>5. AllLed(bs)
        BY <2>1, <2>2, <2>3, <2>4 DEF AllLed, ToSet
    <2> QED BY <2>5 DEF bs
<1> QED
    BY <1>5, <1>6

-----------------------------------------------------------------------------
(* What the owner drags has somebody's events to be made of. *)

GrowOne(out, e) ==
    IF out # <<>> /\ e.at - Last(out).end <= WINDOW_MINUTES
    THEN Append(Front(out), [Last(out) EXCEPT !.end = Max({@, e.until})])
    ELSE Append(out, [start |-> e.at, end |-> e.until])

Growing(f, s) ==
    f = [S \in SUBSET DOMAIN s |-> IF S = {} THEN <<>> ELSE GrowOne(f[S \ {Max(S)}], s[Max(S)])]

ActedIn(E, p) == {e \in Located(E) : ~e.cal /\ e.project = p}

LEMMA ActivityFold ==
    ASSUME NEW E, NEW p
    PROVE  Activity(E, p)
             = ToSet((CHOOSE f : Growing(f, InOrder(ActedIn(E, p))))[DOMAIN InOrder(ActedIn(E, p))])
<1> DEFINE s == InOrder(ActedIn(E, p))
           g == FoldLeft(LAMBDA out, e : GrowOne(out, e), <<>>, s)
<1>1. Activity(E, p) = ToSet(g)
    BY DEF Activity, ActedIn, GrowOne
<1>2. g = MapThenFoldSet(LAMBDA x, y : GrowOne(y, x), <<>>, LAMBDA i : s[i], LAMBDA S : Max(S), DOMAIN s)
    BY DEF FoldLeft
<1>3. @ = (CHOOSE f : Growing(f, s))[DOMAIN s]
    BY DEF MapThenFoldSet, Growing
<1> QED
    BY <1>1, <1>2, <1>3

LEMMA NobodyActive ==
    ASSUME NEW E, NEW p, ActedIn(E, p) = {}
    PROVE  Activity(E, p) = {}
<1> DEFINE s == InOrder(ActedIn(E, p))
           f == CHOOSE g : Growing(g, s)
<1>1. DOMAIN s = {}
    <2>1. DOMAIN s = 1 .. Cardinality(ActedIn(E, p))
        BY DEF InOrder
    <2>2. Cardinality({}) = 0
        BY FS_EmptySet
    <2> HIDE DEF s
    <2>3. DOMAIN s = 1 .. 0
        BY <2>1, <2>2
    <2> QED BY <2>3
<1> HIDE DEF s
<1>2. Growing([S \in SUBSET {} |-> <<>>], s)
    BY <1>1 DEF Growing
<1>3. Growing(f, s)
    BY <1>2
<1> HIDE DEF f
<1>4. f[{}] = <<>>
    BY <1>1, <1>3 DEF Growing
<1>5. ToSet(<<>>) = {}
    BY DEF ToSet
<1>6. Activity(E, p) = ToSet(f[DOMAIN s])
    BY ActivityFold DEF f, s
<1> QED
    BY <1>1, <1>4, <1>5, <1>6

LEMMA LocatedFromRows ==
    ASSUME NEW E, DayRows(E), NEW x \in Located(E)
    PROVE  \E d \in E : d.project = x.project
<1>1. PICK e \in E : x = [e EXCEPT !.project = FolderFor(e, E)]
    BY LocatedBy
<1>2. x.project = FolderFor(e, E)
    BY <1>1 DEF DayRows, DayRow, Fields
<1>3. ASSUME NEW S, S \subseteq E, S # {}
      PROVE  Latest(S) \in E /\ First(S) \in E
    <2>1. IsFiniteSet(S)
        BY <1>3, FS_Subset DEF DayRows
    <2>2. /\ \A d \in S : d.id \in Int /\ d.at \in Int
          /\ \A c, d \in S : c.id = d.id => c = d
        BY <1>3 DEF DayRows, DayRow
    <2> QED BY <1>3, <2>1, <2>2, LatestIs
<1>4. SessionMates(e, E) \subseteq E /\ Sooner(e, E) \subseteq E
    BY DEF SessionMates, Sooner
<1> QED
    BY <1>2, <1>3, <1>4 DEF FolderFor

LEMMA RowsStayLocated ==
    ASSUME NEW E, DayRows(E), NEW d \in E, d.project # Null
    PROVE  \E x \in Tagged(Located(E)) : x.project = d.project
<1> DEFINE L == Located(E)
           y == [d EXCEPT !.project = FolderFor(d, E)]
           customers(e) == {c.customer : c \in {c \in L : c.project = e.project /\ c.session # Null}} \ {0}
           tag(e) == IF e.session # Null /\ Cardinality(customers(e)) >= 2
                     THEN [e EXCEPT !.tag = e.customer] ELSE e
<1>1. y \in L
    BY LocatedBy
<1>2. FolderFor(d, E) = d.project /\ DOMAIN d = Fields
    BY DEF FolderFor, DayRows, DayRow
<1>3. y.project = d.project /\ DOMAIN y = Fields
    BY <1>2 DEF Fields
<1>4. Tagged(L) = {tag(e) : e \in L}
    BY DEF Tagged
<1> HIDE DEF L, y, customers
<1>5. tag(y).project = y.project
    BY <1>3 DEF Fields
<1> HIDE DEF tag
<1>6. tag(y) \in Tagged(L)
    BY <1>1, <1>4
<1> QED
    BY <1>3, <1>5, <1>6 DEF L

(* Every folder with a share of a saved window is one of work, with events *)
(* of that day.                                                            *)
Dealable ==
    /\ IsFiniteSet(windows) /\ windows \subseteq Windows
    /\ \A w \in windows : \A p \in DOMAIN w.shares : p \in Work /\ \E e \in collected : e.project = p

LEMMA KnownDay ==
    ASSUME Known
    PROVE  DayRows(collected)
BY BatchesAssumption DEF Known, DayRows, DayRow

(* A share is checked against the day's activity when a window is saved,   *)
(* and a day only ever gains events.  (save_allocation_handler)            *)
LEMMA WindowsAreDealable == Spec => []Dealable
<1>1. Init => Dealable
    BY FS_EmptySet DEF Init, Dealable
<1>2. Known /\ Dealable /\ [Next]_vars => Dealable'
    <2> SUFFICES ASSUME Known, Dealable, [Next]_vars PROVE Dealable'
        OBVIOUS
    <2>1. ASSUME NEW batch \in Batches, Collect(batch) PROVE Dealable'
        BY <2>1 DEF Collect, Dealable
    <2>2. ASSUME NEW w \in Windows, Allocate(w) PROVE Dealable'
        <3>1. windows' \subseteq windows \cup {w} /\ collected' = collected
            BY <2>2 DEF Allocate
        <3>2. IsFiniteSet(windows \cup {w})
            BY FS_AddElement DEF Dealable
        <3>3. IsFiniteSet(windows')
            BY <3>1, <3>2, FS_Subset
        <3>4. \A p \in DOMAIN w.shares : p \in Work /\ \E e \in collected : e.project = p
            <4> TAKE p \in DOMAIN w.shares
            <4>1. p \in Work /\ Activity(collected, p) # {}
                BY <2>2 DEF Allocate
            <4>2. PICK x \in Located(collected) : x.project = p
                BY <4>1, NobodyActive DEF ActedIn
            <4> QED BY <4>1, <4>2, KnownDay, LocatedFromRows
        <3> QED BY <3>1, <3>3, <3>4 DEF Dealable
    <2>3. ASSUME NEW w \in windows, Withdraw(w) PROVE Dealable'
        <3>1. windows' \subseteq windows /\ collected' = collected
            BY <2>3 DEF Withdraw
        <3>2. IsFiniteSet(windows')
            BY <3>1, FS_Subset DEF Dealable
        <3> QED BY <3>1, <3>2 DEF Dealable
    <2>4. CASE UNCHANGED vars
        BY <2>4 DEF vars, Dealable
    <2> QED BY <2>1, <2>2, <2>3, <2>4 DEF Next
<1> QED
    BY <1>1, <1>2, DaysAreKnown, PTL DEF Spec

-----------------------------------------------------------------------------
(* The minutes of a day, and of those with windows in it.                  *)

LEMMA CoveredBy ==
    ASSUME NEW E, NEW bs, Slots(bs, E), NEW S, S \subseteq ToSet(bs)
    PROVE  \A m : m \in Covered(S) <=> m \in Int /\ \E b \in S : Within(m, b)
<1>1. \A m : m \in Covered(S) <=> \E b \in S : m \in b.start .. b.end - 1
    BY DEF Covered
<1>2. \A b \in S : b.start \in Int /\ b.end \in Int
    BY DEF Slots, Slot
<1> QED
    BY <1>1, <1>2 DEF Within

LEMMA WorkedMinutes ==
    ASSUME NEW E, NEW bs, Slots(bs, E)
    PROVE  /\ \A m : m \in Covered(Worked(bs)) <=> m \in Int /\ At(bs, m)
           /\ \A m : m \in Covered(Worked(bs) \ OfWork(bs)) <=> m \in Int /\ OwnAt(bs, m)
<1>1. Worked(bs) \subseteq ToSet(bs) /\ Worked(bs) \ OfWork(bs) \subseteq ToSet(bs)
    BY DEF Worked
<1>2. /\ \A b : b \in Worked(bs) <=> b \in ToSet(bs) /\ ~b.cal
      /\ \A b : b \in Worked(bs) \ OfWork(bs) <=> b \in ToSet(bs) /\ ~b.cal /\ ~IsWorkBlock(b)
    BY DEF Worked, OfWork
<1>3. \A m : m \in Covered(Worked(bs)) <=> m \in Int /\ \E b \in Worked(bs) : Within(m, b)
    BY <1>1, CoveredBy
<1>4. \A m : m \in Covered(Worked(bs) \ OfWork(bs))
                <=> m \in Int /\ \E b \in Worked(bs) \ OfWork(bs) : Within(m, b)
    BY <1>1, CoveredBy
<1> QED
    BY <1>2, <1>3, <1>4 DEF At, OwnAt

(* Where every block has one folder, that one leads it.                    *)
LEMMA SingleMinutes ==
    ASSUME NEW E, Dated(E), NEW bs, Slots(bs, E), Singles(bs)
    PROVE  /\ \A m : m \in Covered(OfWork(bs)) <=> m \in Int /\ LedAt(bs, Work, m)
           /\ \A m : m \in Covered(Worked(bs) \ OfWork(bs))
                 <=> m \in Int /\ (UnledAt(bs, m) \/ LedAt(bs, Int \ Work, m))
           /\ \A p, m : m \in Covered(Of(p, bs)) <=> m \in Int /\ LedAt(bs, {p}, m)
<1>1. ASSUME NEW b \in ToSet(bs)
      PROVE  /\ DominantFolders(b) = FoldersIn(b) /\ FoldersIn(b) \subseteq Int
             /\ \A p, q \in FoldersIn(b) : p = q
    <2>1. b.events \subseteq E /\ OfOneFolder(b)
        BY DEF Slots, Slot, Singles
    <2>2. FoldersIn(b) \subseteq Int
        BY <2>1 DEF FoldersIn, Dated
    <2>3. \A p, q \in FoldersIn(b) : p = q
        BY <2>1 DEF FoldersIn, OfOneFolder
    <2> QED BY <2>1, <2>2, <2>3, LedBySingle
<1>2. \A b \in ToSet(bs) : IsWorkBlock(b) <=> FoldersIn(b) \cap Work # {}
    BY <1>1 DEF IsWorkBlock
<1>3. \A b \in ToSet(bs) : ~IsWorkBlock(b) <=> FoldersIn(b) = {} \/ FoldersIn(b) \cap (Int \ Work) # {}
    BY <1>1, <1>2
<1>4. \A p : /\ Of(p, bs) \subseteq ToSet(bs)
             /\ \A b : b \in Of(p, bs) <=> b \in ToSet(bs) /\ ~b.cal /\ FoldersIn(b) \cap {p} # {}
    BY <1>1 DEF Of, Worked
<1>5. /\ OfWork(bs) \subseteq ToSet(bs)
      /\ \A b : b \in OfWork(bs) <=> b \in ToSet(bs) /\ ~b.cal /\ IsWorkBlock(b)
    BY DEF OfWork, Worked
<1>6. \A m : m \in Covered(OfWork(bs)) <=> m \in Int /\ LedAt(bs, Work, m)
    <2>1. \A m : m \in Covered(OfWork(bs)) <=> m \in Int /\ \E b \in OfWork(bs) : Within(m, b)
        BY <1>5, CoveredBy
    <2> QED BY <1>2, <1>5, <2>1 DEF LedAt
<1>7. \A m : OwnAt(bs, m) <=> UnledAt(bs, m) \/ LedAt(bs, Int \ Work, m)
    BY <1>3 DEF OwnAt, UnledAt, LedAt
<1>8. \A m : m \in Covered(Worked(bs) \ OfWork(bs))
                <=> m \in Int /\ (UnledAt(bs, m) \/ LedAt(bs, Int \ Work, m))
    BY <1>7, WorkedMinutes
<1>9. ASSUME NEW p, NEW m PROVE m \in Covered(Of(p, bs)) <=> m \in Int /\ LedAt(bs, {p}, m)
    <2>1. m \in Covered(Of(p, bs)) <=> m \in Int /\ \E b \in Of(p, bs) : Within(m, b)
        BY <1>4, CoveredBy
    <2> QED BY <1>4, <2>1 DEF LedAt
<1> QED
    BY <1>6, <1>8, <1>9

LEMMA OnlyMoved ==
    ASSUME NEW E, Dated(E), \A e \in E : e.kind # "lifecycle", NEW bs, Slots(bs, E), Singles(bs),
           NEW q, Moved(bs, q, Dragged, E)
    PROVE  OnlyWorkMoves(bs, q)
<1>1. /\ Slots(q, E) /\ Singles(q)
      /\ \A m \in Int : UnledAt(q, m) <=> UnledAt(bs, m)
      /\ \A P : \A m \in Int :
             (m \notin Dragged \/ P \cap Work = {} \/ Work \subseteq P) =>
                 (LedAt(q, P, m) <=> LedAt(bs, P, m))
    BY DEF Moved
<1>2. Covered(OfWork(q)) = Covered(OfWork(bs))
    <2>1. \A m \in Int : LedAt(q, Work, m) <=> LedAt(bs, Work, m)
        BY <1>1
    <2>2. \A m : m \in Covered(OfWork(q)) <=> m \in Covered(OfWork(bs))
        BY <1>1, <2>1, SingleMinutes
    <2> QED BY <2>2
<1>3. Covered(Worked(q) \ OfWork(q)) = Covered(Worked(bs) \ OfWork(bs))
    <2>1. (Int \ Work) \cap Work = {}
        OBVIOUS
    <2>2. \A m \in Int : LedAt(q, Int \ Work, m) <=> LedAt(bs, Int \ Work, m)
        BY <1>1, <2>1
    <2>3. \A m : m \in Covered(Worked(q) \ OfWork(q)) <=> m \in Covered(Worked(bs) \ OfWork(bs))
        BY <1>1, <2>2, SingleMinutes
    <2> QED BY <2>3
<1>4. ASSUME NEW p
      PROVE  Covered(Of(p, q)) \ Dragged = Covered(Of(p, bs)) \ Dragged
    <2>1. \A m \in Int : m \notin Dragged => (LedAt(q, {p}, m) <=> LedAt(bs, {p}, m))
        BY <1>1
    <2>2. /\ \A m : m \in Covered(Of(p, q)) <=> m \in Int /\ LedAt(q, {p}, m)
          /\ \A m : m \in Covered(Of(p, bs)) <=> m \in Int /\ LedAt(bs, {p}, m)
        BY <1>1, SingleMinutes
    <2>3. \A m : m \in Covered(Of(p, q)) \ Dragged <=> m \in Covered(Of(p, bs)) \ Dragged
        BY <2>1, <2>2
    <2> QED BY <2>3
<1> QED
    BY <1>2, <1>3, <1>4 DEF OnlyWorkMoves, RemaindersStay

LEMMA KindsStay ==
    ASSUME NEW E, DayRows(E), \A e \in E : e.kind # "lifecycle"
    PROVE  \A x \in Tagged(Located(E)) : x.kind # "lifecycle"
<1> DEFINE L == Located(E)
           customers(e) == {d.customer : d \in {c \in L : c.project = e.project /\ c.session # Null}} \ {0}
           tag(e) == IF e.session # Null /\ Cardinality(customers(e)) >= 2
                     THEN [e EXCEPT !.tag = e.customer] ELSE e
<1>1. L = {[e EXCEPT !.project = FolderFor(e, E)] : e \in E}
    BY LocatedBy
<1>2. DayRows(L)
    BY LocatedIs
<1>3. Tagged(L) = {tag(e) : e \in L}
    BY DEF Tagged
<1>4. \A e \in E : [e EXCEPT !.project = FolderFor(e, E)].kind = e.kind
    BY DEF DayRows, DayRow, Fields
<1> HIDE DEF L, customers
<1>5. \A e \in L : e.kind # "lifecycle"
    BY <1>1, <1>4
<1>6. \A e \in L : tag(e).kind = e.kind
    BY <1>2 DEF DayRows, DayRow, Fields
<1> HIDE DEF tag
<1>7. \A x \in Tagged(L) : x.kind # "lifecycle"
    BY <1>3, <1>5, <1>6
<1> QED
    BY <1>7 DEF L

(* For any day the collectors can bring and any windows the owner can have *)
(* saved, wherever they cut and however their shares round: no worked      *)
(* minute is lost or made, the meetings are the same, the owner's own      *)
(* minutes stay his; and where each block is of one folder and no session  *)
(* bookkeeping is about, work is where it was and every folder keeps its   *)
(* minutes outside the windows.  (apply_split, merge_touching_same_project) *)
THEOREM WindowsOnlyMoveWork == Spec => []WindowsMoveWorkOnly
<1>1. ASSUME Known, Dealable PROVE WindowsMoveWorkOnly
    <2> DEFINE day == Tagged(Located(collected))
               bs == BuildBlocksByProject(day)
               q == ApplySplits(bs, windows, day)
    <2>1. DayRows(collected)
        BY <1>1, KnownDay
    <2>2. DayRows(day)
        BY <2>1, LocatedIs, TaggedIs
    <2>3. Dated(day)
        BY <2>2, PartOfDay
    <2>4. ASSUME NEW w \in windows PROVE Windowed(w, day) /\ \A m \in Int : Within(m, w) => m \in Dragged
        <3>1. w \in Windows
            BY <1>1 DEF Dealable
        <3>2. w.start \in Int /\ w.end \in Int /\ w.start < w.end /\ Shares(w.shares)
            BY <3>1, WindowsAssumption DEF Shares
        <3>3. \A p \in DOMAIN w.shares : p \in Work /\ \E e \in day : e.project = p
            BY <1>1, <2>1, <3>2, RowsStayLocated DEF Dealable, Shares
        <3> HIDE DEF day
        <3>4. Windowed(w, day)
            BY <3>2, <3>3 DEF Windowed
        <3>5. \A m : Within(m, w) => m \in Dragged
            BY DEF Within, Dragged
        <3> QED BY <3>4, <3>5
    <2>5. BuildDay(collected, windows) = q /\ BuildDay(collected, {}) = bs
        BY NoWindows DEF BuildDay
    <2>6. (\A e \in collected : e.kind # "lifecycle") => \A e \in day : e.kind # "lifecycle"
        BY <2>1, KindsStay
    <2> HIDE DEF day
    <2>7. Slots(bs, day) /\ (Nobodys(bs) \/ AllLed(bs))
        BY <2>2, ProjectsAreSlots, ProjectsAreLed
    <2> HIDE DEF bs
    <2>8. Moved(bs, q, Dragged, day)
        BY <1>1, <2>3, <2>4, <2>7, SplitsOnlyMove DEF Dealable
    <2> HIDE DEF q
    <2>9. Slots(q, day) /\ Meetings(q) = Meetings(bs)
        BY <2>8 DEF Moved
    <2>10. Covered(Worked(q)) = Covered(Worked(bs))
        <3>1. \A m : m \in Covered(Worked(q)) <=> m \in Covered(Worked(bs))
            BY <2>7, <2>8, <2>9, WorkedMinutes DEF Moved
        <3> QED BY <3>1
    <2>11. Covered(Worked(bs) \ OfWork(bs)) \subseteq Covered(Worked(q) \ OfWork(q))
        <3>1. \A m \in Int : OwnAt(bs, m) => OwnAt(q, m)
            BY <2>7, <2>8 DEF Moved
        <3>2. \A m : m \in Covered(Worked(bs) \ OfWork(bs)) => m \in Covered(Worked(q) \ OfWork(q))
            BY <2>7, <2>9, <3>1, WorkedMinutes
        <3> QED BY <3>2
    <2>12. ASSUME \A e \in collected : e.kind # "lifecycle", \A b \in Worked(bs) : OfOneFolder(b)
           PROVE  OnlyWorkMoves(bs, q)
        <3>1. \A b \in ToSet(bs) : b.cal => OfOneFolder(b)
            BY <2>7 DEF Slots, Slot, OfOneFolder
        <3>2. Singles(bs)
            BY <2>12, <3>1 DEF Singles, Worked
        <3> QED BY <2>3, <2>6, <2>7, <2>8, <2>12, <3>2, OnlyMoved
    <2> QED BY <2>5, <2>9, <2>10, <2>11, <2>12 DEF WindowsMoveWorkOnly, MovesWork, NothingLost
<1> QED
    BY <1>1, DaysAreKnown, WindowsAreDealable, PTL
=============================================================================
