----------------------------- MODULE FoldLemmas -----------------------------
(***************************************************************************)
(* What the folds and enumerations compute that the models are written     *)
(* with.  A fold is a CHOOSE of a function that calls itself: each lemma   *)
(* shows that there is one and only one, by the smallest number for which  *)
(* there were not.                                                         *)
(***************************************************************************)
EXTENDS Integers, Sequences, FiniteSetsExt, FiniteSetTheorems, FunctionTheorems,
        WellFoundedInduction, TLAPS

LEMMA SmallestNat ==
    ASSUME NEW S \in SUBSET Nat, S # {}
    PROVE  \E m \in S : \A n \in S : m <= n
<1>1. \E R : IsWellFoundedOn(R, Nat) /\ \A n, m \in Nat : n < m => <<n, m>> \in R
    <2> DEFINE R == OpToRel(<, Nat)
    <2>1. IsWellFoundedOn(R, Nat)
        BY NatLessThanWellFounded
    <2>2. \A n, m \in Nat : n < m => <<n, m>> \in R
        BY DEF OpToRel
    <2> HIDE DEF R
    <2> QED BY <2>1, <2>2
<1>2. PICK R : IsWellFoundedOn(R, Nat) /\ \A n, m \in Nat : n < m => <<n, m>> \in R
    BY <1>1
<1>3. S \subseteq Nat /\ S # {} /\ IsWellFoundedOn(R, Nat)
    BY <1>2
<1>4. PICK m \in S : \A n \in S : ~(<<n, m>> \in R)
    BY <1>3, WFMin, Zenon
<1>5. \A n \in S : ~(n < m)
    BY <1>2, <1>3, <1>4, Zenon
<1> QED
    BY <1>3, <1>5

-----------------------------------------------------------------------------
(* Sums of durations: what the fold of the model computes, for any table.  *)

Durations(t, S) == MapThenSumSet(LAMBDA i : t[i].dur, S)

Picked(s) == CHOOSE x \in s : TRUE

Adding(f, t, s) == IF s = {} THEN 0 ELSE t[Picked(s)].dur + f[s \ {Picked(s)}]

Adds(f, t, S) == f = [s \in SUBSET S |-> Adding(f, t, s)]

LEMMA DurationsFold ==
    ASSUME NEW t, NEW S
    PROVE  Durations(t, S) = (CHOOSE f : Adds(f, t, S))[S]
BY DEF Durations, MapThenSumSet, MapThenFoldSet, Adds, Adding, Picked

LEMMA PickedOut ==
    ASSUME NEW s, IsFiniteSet(s), s # {}
    PROVE  /\ Picked(s) \in s /\ IsFiniteSet(s \ {Picked(s)})
           /\ Cardinality(s) \in Nat /\ Cardinality(s) > 0
           /\ Cardinality(s \ {Picked(s)}) = Cardinality(s) - 1
<1>1. Picked(s) \in s
    BY DEF Picked
<1> QED
    BY <1>1, FS_RemoveElement, FS_CardinalityType, FS_EmptySet

LEMMA AddsExists ==
    ASSUME NEW t, NEW S, IsFiniteSet(S)
    PROVE  \E f : Adds(f, t, S)
<1> DEFINE Upto(n) == {s \in SUBSET S : Cardinality(s) <= n}
           Part(g, n) == g = [s \in Upto(n) |-> Adding(g, t, s)]
           Bad == {n \in Nat : ~\E g : Part(g, n)}
<1>1. \A s \in SUBSET S : IsFiniteSet(s) /\ Cardinality(s) \in Nat
    BY FS_Subset, FS_CardinalityType
<1>2. Bad = {}
    <2> SUFFICES ASSUME Bad # {} PROVE FALSE
        OBVIOUS
    <2>1. PICK m \in Bad : \A n \in Bad : m <= n
        BY SmallestNat
    <2>2. m # 0
        <3>1. \A s \in Upto(0) : s = {}
            BY <1>1, FS_EmptySet
        <3>2. Part([s \in Upto(0) |-> 0], 0)
            BY <3>1 DEF Adding
        <3> QED BY <3>2
    <2>3. PICK g : Part(g, m - 1)
        <3> HIDE DEF Part
        <3>1. m - 1 \in Nat /\ ~(m <= m - 1)
            BY <2>1, <2>2
        <3> QED BY <2>1, <3>1
    <2> DEFINE h == [s \in Upto(m) |-> Adding(g, t, s)]
    <2>4. \A s \in Upto(m) : s # {} => s \ {Picked(s)} \in Upto(m - 1)
        BY <1>1, <2>1, PickedOut
    <2>5. \A s \in Upto(m - 1) : s \in Upto(m) /\ h[s] = g[s]
        BY <1>1, <2>1, <2>3
    <2>6. \A s \in Upto(m) : Adding(g, t, s) = Adding(h, t, s)
        BY <2>4, <2>5 DEF Adding
    <2>7. Part(h, m)
        BY <2>6
    <2> QED BY <2>1, <2>7
<1>3. PICK f : Part(f, Cardinality(S))
    BY <1>1, <1>2
<1>4. Upto(Cardinality(S)) = SUBSET S
    BY FS_Subset
<1> QED
    BY <1>3, <1>4 DEF Adds

LEMMA AddsAgree ==
    ASSUME NEW t, NEW S, NEW R, NEW f, NEW g, Adds(f, t, S), Adds(g, t, R),
           NEW s \in SUBSET (S \cap R), IsFiniteSet(s)
    PROVE  f[s] = g[s]
<1> DEFINE Apart == {u \in SUBSET s : f[u] # g[u]}
           Bad == {Cardinality(u) : u \in Apart}
<1>1. \A u \in SUBSET s : IsFiniteSet(u) /\ Cardinality(u) \in Nat
    BY FS_Subset, FS_CardinalityType
<1> SUFFICES ASSUME Bad # {} PROVE FALSE
    OBVIOUS
<1>2. PICK m \in Bad : \A n \in Bad : m <= n
    BY <1>1, SmallestNat
<1>3. PICK u \in Apart : Cardinality(u) = m
    BY <1>2
<1>4. f[u] = Adding(f, t, u) /\ g[u] = Adding(g, t, u)
    BY DEF Adds
<1>5. u # {}
    BY <1>4 DEF Adding
<1>6. u \ {Picked(u)} \in SUBSET s /\ Cardinality(u \ {Picked(u)}) < m
    BY <1>1, <1>3, <1>5, PickedOut
<1>7. f[u \ {Picked(u)}] = g[u \ {Picked(u)}]
    BY <1>1, <1>2, <1>6
<1> QED
    BY <1>4, <1>5, <1>7 DEF Adding

LEMMA DurationsAre ==
    ASSUME NEW t, NEW S, IsFiniteSet(S), NEW f, NEW R, S \subseteq R, Adds(f, t, R)
    PROVE  Durations(t, S) = f[S]
<1> DEFINE g == CHOOSE h : Adds(h, t, S)
<1>1. Adds(g, t, S)
    BY AddsExists
<1> HIDE DEF g
<1>2. Durations(t, S) = g[S]
    BY DurationsFold DEF g
<1> QED
    BY <1>1, <1>2, AddsAgree

LEMMA DurationsStep ==
    ASSUME NEW t, NEW S, IsFiniteSet(S)
    PROVE  /\ S = {} => Durations(t, S) = 0
           /\ S # {} => Durations(t, S) = t[Picked(S)].dur + Durations(t, S \ {Picked(S)})
<1>1. PICK f : Adds(f, t, S)
    BY AddsExists
<1>2. f[S] = Adding(f, t, S)
    BY <1>1 DEF Adds
<1>3. Durations(t, S) = f[S]
    BY <1>1, DurationsAre
<1>4. S # {} => Durations(t, S \ {Picked(S)}) = f[S \ {Picked(S)}]
    BY <1>1, DurationsAre, PickedOut
<1> QED
    BY <1>2, <1>3, <1>4 DEF Adding

LEMMA DurationsSame ==
    ASSUME NEW t, NEW u, NEW S, IsFiniteSet(S), \A i \in S : t[i].dur = u[i].dur
    PROVE  Durations(t, S) = Durations(u, S)
<1>1. PICK f : Adds(f, t, S)
    BY AddsExists
<1>2. \A s \in SUBSET S : s # {} => Picked(s) \in S
    BY DEF Picked
<1>3. Adds(f, u, S)
    BY <1>1, <1>2 DEF Adds, Adding
<1> QED
    BY <1>1, <1>3, DurationsAre

LEMMA DurationsNat ==
    ASSUME NEW t, NEW S, IsFiniteSet(S), \A i \in S : t[i].dur \in Nat
    PROVE  Durations(t, S) \in Nat
<1> DEFINE Bad == {Cardinality(s) : s \in {u \in SUBSET S : Durations(t, u) \notin Nat}}
<1>1. \A u \in SUBSET S : IsFiniteSet(u) /\ Cardinality(u) \in Nat
    BY FS_Subset, FS_CardinalityType
<1> SUFFICES ASSUME Bad # {} PROVE FALSE
    OBVIOUS
<1>2. PICK m \in Bad : \A n \in Bad : m <= n
    BY <1>1, SmallestNat
<1>3. PICK u \in SUBSET S : Durations(t, u) \notin Nat /\ Cardinality(u) = m
    BY <1>2
<1>4. u # {}
    <2>1. Durations(t, {}) = 0
        BY FS_EmptySet, DurationsStep
    <2>2. Durations(t, u) # 0
        BY <1>3
    <2> HIDE DEF Bad
    <2> QED BY <2>1, <2>2
<1>5. u \ {Picked(u)} \in SUBSET S /\ Cardinality(u \ {Picked(u)}) < m /\ Picked(u) \in S
    BY <1>1, <1>3, <1>4, PickedOut
<1>6. Durations(t, u \ {Picked(u)}) \in Nat
    BY <1>1, <1>2, <1>5
<1> QED
    BY <1>1, <1>3, <1>4, <1>5, <1>6, DurationsStep

(* The order in which the fold takes the rows does not matter.             *)
LEMMA OneOut ==
    ASSUME NEW t, NEW S, IsFiniteSet(S), \A i \in S : t[i].dur \in Nat, NEW i \in S
    PROVE  Durations(t, S) = t[i].dur + Durations(t, S \ {i})
<1> DEFINE Apart(s) == \E j \in s : Durations(t, s) # t[j].dur + Durations(t, s \ {j})
           Bad == {Cardinality(s) : s \in {u \in SUBSET S : Apart(u)}}
<1>1. \A u \in SUBSET S : IsFiniteSet(u) /\ Cardinality(u) \in Nat /\ Durations(t, u) \in Nat
    BY FS_Subset, FS_CardinalityType, DurationsNat
<1> SUFFICES ASSUME Bad # {} PROVE FALSE
    OBVIOUS
<1> HIDE DEF Apart
<1>2. PICK m \in Bad : \A n \in Bad : m <= n
    BY <1>1, SmallestNat
<1>3. PICK u \in SUBSET S : Apart(u) /\ Cardinality(u) = m
    BY <1>2
<1>4. PICK j \in u : Durations(t, u) # t[j].dur + Durations(t, u \ {j})
    BY <1>3 DEF Apart
<1> DEFINE x == Picked(u)
           rest == Durations(t, (u \ {x}) \ {j})
<1>5. /\ x \in u /\ Cardinality(u \ {x}) < m /\ Cardinality(u \ {j}) < m
      /\ Durations(t, u) = t[x].dur + Durations(t, u \ {x})
    <2>1. IsFiniteSet(u) /\ Cardinality(u) = m /\ u # {}
        BY <1>1, <1>3
    <2> HIDE DEF Bad
    <2>2. x \in u /\ Cardinality(u \ {x}) < m
        <3>1. /\ x \in u /\ Cardinality(u \ {x}) = Cardinality(u) - 1
              /\ Cardinality(u) \in Nat
            BY <2>1, PickedOut
        <3> HIDE DEF x
        <3> QED BY <2>1, <3>1
    <2>3. Cardinality(u \ {j}) = Cardinality(u) - 1 /\ Cardinality(u) \in Nat
        BY <2>1, FS_RemoveElement, FS_CardinalityType
    <2>4. Durations(t, u) = t[x].dur + Durations(t, u \ {x})
        BY <2>1, DurationsStep
    <2> QED BY <2>1, <2>2, <2>3, <2>4
<1>6. x # j
    BY <1>4, <1>5
<1>7. ~Apart(u \ {x}) /\ ~Apart(u \ {j})
    <2>1. \A v \in SUBSET S : Cardinality(v) < m => ~Apart(v)
        BY <1>1, <1>2
    <2>2. u \ {x} \in SUBSET S /\ u \ {j} \in SUBSET S
        OBVIOUS
    <2> HIDE DEF x
    <2> QED BY <1>5, <2>1, <2>2
<1>8. Durations(t, u \ {x}) = t[j].dur + rest
    BY <1>4, <1>6, <1>7 DEF Apart
<1>9. Durations(t, u \ {j}) = t[x].dur + rest
    <2>1. (u \ {j}) \ {x} = (u \ {x}) \ {j}
        OBVIOUS
    <2> QED BY <1>5, <1>6, <1>7, <2>1 DEF Apart
<1>10. rest \in Nat /\ t[x].dur \in Nat /\ t[j].dur \in Nat
    <2>1. (u \ {x}) \ {j} \in SUBSET S /\ x \in S /\ j \in S
        BY <1>5
    <2> QED BY <1>1, <2>1
<1> QED
    BY <1>4, <1>5, <1>8, <1>9, <1>10

LEMMA Together ==
    ASSUME NEW t, NEW S, NEW A \in SUBSET S, IsFiniteSet(S), \A i \in S : t[i].dur \in Nat
    PROVE  Durations(t, S) = Durations(t, A) + Durations(t, S \ A)
<1> DEFINE Apart(s) == Durations(t, S) # Durations(t, s) + Durations(t, S \ s)
           Bad == {Cardinality(s) : s \in {u \in SUBSET S : Apart(u)}}
<1>1. \A u \in SUBSET S : IsFiniteSet(u) /\ Cardinality(u) \in Nat /\ Durations(t, u) \in Nat
    BY FS_Subset, FS_CardinalityType, DurationsNat
<1> SUFFICES ASSUME Bad # {} PROVE FALSE
    OBVIOUS
<1> HIDE DEF Apart
<1>2. PICK m \in Bad : \A n \in Bad : m <= n
    BY <1>1, SmallestNat
<1>3. PICK u \in SUBSET S : Apart(u) /\ Cardinality(u) = m
    BY <1>2
<1>4. u # {}
    <2>1. Durations(t, {}) = 0 /\ S \ {} = S /\ Durations(t, S) \in Nat
        BY <1>1, FS_EmptySet, DurationsStep
    <2>2. ~Apart({})
        BY <2>1 DEF Apart
    <2> HIDE DEF Bad
    <2> QED BY <1>3, <2>2
<1>5. PICK j \in u : TRUE
    BY <1>4
<1>6. ~Apart(u \ {j})
    <2>1. IsFiniteSet(u) /\ Cardinality(u) = m /\ m \in Nat
        BY <1>1, <1>3
    <2>2. m \in Nat /\ j \in u /\ m - 1 < m
        BY <2>1
    <2>3. Cardinality(u \ {j}) < m /\ u \ {j} \in SUBSET S
        <3> HIDE DEF Bad
        <3>1. Cardinality(u \ {j}) = m - 1
            BY <2>1, <2>2, FS_RemoveElement
        <3> QED BY <2>2, <3>1
    <2> QED BY <1>1, <1>2, <2>1, <2>3
<1>7. Durations(t, u) = t[j].dur + Durations(t, u \ {j})
    BY <1>1, OneOut
<1>8. Durations(t, S \ (u \ {j})) = t[j].dur + Durations(t, S \ u)
    <2>1. j \in S \ (u \ {j}) /\ (S \ (u \ {j})) \ {j} = S \ u
          /\ S \ (u \ {j}) \in SUBSET S
        OBVIOUS
    <2> QED BY <1>1, <2>1, OneOut
<1>9. /\ Durations(t, u \ {j}) \in Nat /\ Durations(t, S \ u) \in Nat /\ t[j].dur \in Nat
    BY <1>1
<1> QED
    BY <1>3, <1>6, <1>7, <1>8, <1>9 DEF Apart

-----------------------------------------------------------------------------
(* Folds from left to right, over the subsets of a sequence's indices.     *)

LEMMA IndicesFinite ==
    ASSUME NEW n \in Nat, NEW S \in SUBSET (1 .. n)
    PROVE  IsFiniteSet(S) /\ Cardinality(S) \in Nat
<1>1. IsFiniteSet(1 .. n)
    BY FS_Interval
<1> QED
    BY <1>1, FS_Subset, FS_CardinalityType

LEMMA LargestNat ==
    ASSUME NEW n \in Nat, NEW S \in SUBSET (1 .. n), S # {}
    PROVE  /\ Max(S) \in S /\ \A k \in S : k <= Max(S)
           /\ IsFiniteSet(S) /\ Cardinality(S) \in Nat
           /\ Cardinality(S \ {Max(S)}) < Cardinality(S)
<1> DEFINE Bounds == {m \in Nat : \A k \in S : k <= m}
<1>1. PICK m \in Bounds : \A b \in Bounds : m <= b
    <2>1. n \in Bounds
        OBVIOUS
    <2> QED BY <2>1, SmallestNat
<1>2. m \in S
    <2> SUFFICES ASSUME m \notin S PROVE FALSE
        OBVIOUS
    <2>1. \A k \in S : k \in Nat /\ k <= m /\ k # m
        BY <1>1
    <2>2. m - 1 \in Bounds
        <3>1. PICK k \in S : TRUE
            OBVIOUS
        <3>2. m - 1 \in Nat
            BY <1>1, <2>1, <3>1
        <3> QED BY <1>1, <2>1, <3>2
    <2> QED BY <1>1, <2>2
<1>3. Max(S) \in S /\ \A k \in S : k <= Max(S)
    BY <1>1, <1>2 DEF Max
<1>4. IsFiniteSet(S) /\ Cardinality(S) \in Nat
    BY IndicesFinite
<1>5. Cardinality(S \ {Max(S)}) = Cardinality(S) - 1
    BY <1>3, <1>4, FS_RemoveElement
<1> QED
    BY <1>3, <1>4, <1>5

LEMMA LargestInt ==
    ASSUME NEW S \in SUBSET Int, IsFiniteSet(S), S # {}
    PROVE  Max(S) \in S /\ \A k \in S : k <= Max(S)
<1> DEFINE Has(s) == \E m \in s : \A k \in s : k <= m
           Bad == {Cardinality(s) : s \in {u \in SUBSET S : u # {} /\ ~Has(u)}}
<1>1. \A s \in SUBSET S : IsFiniteSet(s) /\ Cardinality(s) \in Nat
    BY FS_Subset, FS_CardinalityType
<1>2. Bad = {}
    <2> SUFFICES ASSUME Bad # {} PROVE FALSE
        OBVIOUS
    <2> HIDE DEF Has
    <2>1. PICK m \in Bad : \A k \in Bad : m <= k
        BY <1>1, SmallestNat
    <2>2. PICK s \in SUBSET S : s # {} /\ ~Has(s) /\ Cardinality(s) = m
        BY <2>1
    <2>3. PICK x \in s : TRUE
        BY <2>2
    <2> DEFINE rest == s \ {x}
    <2>4. Cardinality(rest) < m /\ rest \in SUBSET S
        <3>1. IsFiniteSet(s) /\ Cardinality(s) \in Nat
            BY <1>1
        <3>2. Cardinality(rest) = Cardinality(s) - 1
            BY <2>3, <3>1, FS_RemoveElement
        <3> HIDE DEF rest, Bad
        <3>3. Cardinality(rest) < m
            BY <2>2, <3>1, <3>2
        <3> QED BY <3>3 DEF rest
    <2>5. rest # {}
        <3>1. x \in Int /\ (rest = {} => s = {x})
            BY <2>3
        <3> HIDE DEF rest
        <3>2. x <= x
            BY <3>1
        <3>3. rest = {} => Has(s)
            BY <3>1, <3>2 DEF Has
        <3> QED BY <2>2, <3>3
    <2>6. Has(rest)
        <3> HIDE DEF rest
        <3>1. Cardinality(rest) \in Nat /\ m \in Nat
            BY <1>1, <2>2, <2>4
        <3>2. Cardinality(rest) \notin Bad
            <4> HIDE DEF Bad
            <4> QED BY <2>1, <2>4, <3>1
        <3> QED BY <2>4, <2>5, <3>2
    <2>7. PICK y \in rest : \A k \in rest : k <= y
        BY <2>6 DEF Has
    <2>8. x \in Int /\ y \in Int /\ y \in s /\ \A k \in s : k \in Int /\ (k = x \/ k <= y)
        BY <2>2, <2>3, <2>7
    <2>9. Has(s)
        BY <2>3, <2>8 DEF Has
    <2> QED BY <2>2, <2>9
<1>3. S \in SUBSET S
    OBVIOUS
<1>4. Has(S)
    <2> HIDE DEF Has
    <2> QED BY <1>2, <1>3
<1> QED
    BY <1>4 DEF Max

Alike(f, g, n) ==
    /\ f[{}] = g[{}]
    /\ \A S \in SUBSET (1 .. n) :
          S # {} /\ f[S \ {Max(S)}] = g[S \ {Max(S)}] => f[S] = g[S]

LEMMA SameFold ==
    ASSUME NEW n \in Nat, NEW f, NEW g, Alike(f, g, n)
    PROVE  f[1 .. n] = g[1 .. n]
<1> DEFINE Apart == {S \in SUBSET (1 .. n) : f[S] # g[S]}
           Bad == {Cardinality(S) : S \in Apart}
<1>1. \A S \in SUBSET (1 .. n) : Cardinality(S) \in Nat
    BY IndicesFinite
<1> SUFFICES ASSUME Bad # {} PROVE FALSE
    <2>1. 1 .. n \in SUBSET (1 .. n)
        OBVIOUS
    <2> QED BY <2>1
<1>2. PICK m \in Bad : \A k \in Bad : m <= k
    BY <1>1, SmallestNat
<1>3. PICK S \in Apart : Cardinality(S) = m
    BY <1>2
<1>4. S # {}
    BY <1>3 DEF Alike
<1>5. S \ {Max(S)} \in SUBSET (1 .. n) /\ Cardinality(S \ {Max(S)}) < m
    BY <1>3, <1>4, LargestNat
<1>6. f[S \ {Max(S)}] = g[S \ {Max(S)}]
    BY <1>1, <1>2, <1>5
<1> QED
    BY <1>3, <1>4, <1>6 DEF Alike

Left(f, F, base, s, S) == IF S = {} THEN base ELSE F[<<f[S \ {Max(S)}], s[Max(S)]>>]

LeftFold(f, A, F, base, s) ==
    /\ f \in [SUBSET (1 .. Len(s)) -> A]
    /\ \A S \in SUBSET (1 .. Len(s)) : f[S] = Left(f, F, base, s, S)

LEMMA LeftExists ==
    ASSUME NEW A, NEW B, NEW F \in [A \X B -> A], NEW base \in A, NEW s \in Seq(B)
    PROVE  \E f : LeftFold(f, A, F, base, s)
<1> DEFINE D == 1 .. Len(s)
           Upto(n) == {S \in SUBSET D : Cardinality(S) <= n}
           Part(g, n) == /\ g \in [Upto(n) -> A]
                         /\ \A S \in Upto(n) : g[S] = Left(g, F, base, s, S)
           Bad == {n \in Nat : ~\E g : Part(g, n)}
<1>0. DOMAIN s = D /\ Len(s) \in Nat
    OBVIOUS
<1>1. \A S \in SUBSET D : IsFiniteSet(S) /\ Cardinality(S) \in Nat
    BY <1>0, IndicesFinite
<1>2. Bad = {}
    <2> SUFFICES ASSUME Bad # {} PROVE FALSE
        OBVIOUS
    <2>1. PICK m \in Bad : \A n \in Bad : m <= n
        BY SmallestNat
    <2>2. m # 0
        <3>1. \A S \in Upto(0) : S = {}
            BY <1>1, FS_EmptySet
        <3>2. Part([S \in Upto(0) |-> base], 0)
            BY <3>1 DEF Left
        <3> QED BY <3>2
    <2>3. PICK g : Part(g, m - 1)
        <3> HIDE DEF Part
        <3>1. m - 1 \in Nat /\ ~(m <= m - 1)
            BY <2>1, <2>2
        <3> QED BY <2>1, <3>1
    <2> DEFINE h == [S \in Upto(m) |-> Left(g, F, base, s, S)]
    <2>4. ASSUME NEW S \in Upto(m), S # {}
          PROVE  S \ {Max(S)} \in Upto(m - 1) /\ Max(S) \in D
        <3>1. /\ Max(S) \in S /\ Cardinality(S \ {Max(S)}) < Cardinality(S)
              /\ Cardinality(S) \in Nat
            BY <1>0, <2>4, LargestNat
        <3>2. Cardinality(S) <= m /\ m \in Nat
            BY <2>1
        <3>3. Cardinality(S \ {Max(S)}) \in Nat
            BY <1>1
        <3>4. S \ {Max(S)} \in SUBSET D
            OBVIOUS
        <3> DEFINE rest == S \ {Max(S)}
        <3>5. Cardinality(rest) <= m - 1
            <4> HIDE DEF rest
            <4>1. Cardinality(rest) < Cardinality(S) /\ Cardinality(rest) \in Nat
                BY <3>1, <3>3 DEF rest
            <4> QED BY <3>1, <3>2, <4>1
        <3> QED BY <3>1, <3>4, <3>5
    <2>5. \A S \in Upto(m - 1) : S \in Upto(m) /\ h[S] = g[S]
        BY <1>1, <2>1, <2>3
    <2>6. \A S \in Upto(m) : h[S] = Left(g, F, base, s, S)
        OBVIOUS
    <2>7. g \in [Upto(m - 1) -> A]
        BY <2>3
    <2>8. h = [S \in Upto(m) |-> h[S]]
        OBVIOUS
    <2> HIDE DEF h, Upto
    <2>9. ASSUME NEW S \in Upto(m)
          PROVE  h[S] \in A /\ h[S] = Left(h, F, base, s, S)
        <3>1. CASE S = {}
            BY <2>6, <3>1 DEF Left
        <3>2. CASE S # {}
            <4> DEFINE rest == S \ {Max(S)}
            <4>1. rest \in Upto(m - 1) /\ Max(S) \in D
                BY <2>4, <3>2
            <4>2. g[rest] \in A /\ s[Max(S)] \in B /\ h[rest] = g[rest]
                BY <1>0, <2>5, <2>7, <4>1
            <4>3. h[S] = F[<<g[rest], s[Max(S)]>>]
                BY <2>6, <3>2 DEF Left
            <4>4. <<g[rest], s[Max(S)]>> \in A \X B
                BY <4>2
            <4> QED BY <3>2, <4>2, <4>3, <4>4 DEF Left
        <3> QED BY <3>1, <3>2
    <2>10. Part(h, m)
        BY <2>8, <2>9
    <2> QED BY <2>1, <2>10
<1>3. PICK f : Part(f, Cardinality(D))
    BY <1>1, <1>2
<1>4. Upto(Cardinality(D)) = SUBSET D
    <2>1. \A S \in SUBSET D : Cardinality(S) <= Cardinality(D)
        BY <1>1, FS_Subset
    <2> QED BY <2>1
<1> QED
    BY <1>0, <1>3, <1>4 DEF LeftFold

(* The fold along the sequence, one prefix after the other.                *)
Steps(h, f, A, F, base, s) ==
    /\ h \in [0 .. Len(s) -> A] /\ h[0] = base /\ h[Len(s)] = f[1 .. Len(s)]
    /\ \A k \in 1 .. Len(s) : h[k] = F[<<h[k - 1], s[k]>>]

LEMMA LeftPrefixes ==
    ASSUME NEW A, NEW B, NEW F \in [A \X B -> A], NEW base \in A, NEW s \in Seq(B),
           NEW f, LeftFold(f, A, F, base, s)
    PROVE  \E h : Steps(h, f, A, F, base, s)
<1> DEFINE h == [k \in 0 .. Len(s) |-> f[1 .. k]]
<1>0. Len(s) \in Nat
    OBVIOUS
<1>1. h \in [0 .. Len(s) -> A] /\ h[Len(s)] = f[1 .. Len(s)]
    BY <1>0 DEF LeftFold
<1>2. h[0] = base
    <2>1. h[0] = f[{}]
        <3>1. 0 \in 0 .. Len(s)
            BY <1>0
        <3>2. 1 .. 0 = {}
            OBVIOUS
        <3> QED BY <3>1, <3>2
    <2>2. f[{}] = base
        BY DEF Left, LeftFold
    <2> QED BY <2>1, <2>2
<1>3. ASSUME NEW k \in 1 .. Len(s) PROVE h[k] = F[<<h[k - 1], s[k]>>]
    <2> DEFINE S == 1 .. k
    <2>0. k \in Nat /\ 1 <= k /\ k <= Len(s)
        BY <1>0
    <2>1. S \in SUBSET (1 .. Len(s)) /\ k \in S /\ S # {} /\ k - 1 \in 0 .. Len(s)
        <3>1. 1 .. k \in SUBSET (1 .. Len(s))
            BY <1>0, <2>0
        <3>2. k \in S /\ k - 1 \in 0 .. Len(s)
            BY <1>0, <2>0
        <3> QED BY <3>1, <3>2
    <2>2. Max(S) = k
        <3>1. Max(S) \in S /\ \A n \in S : n <= Max(S)
            BY <1>0, <2>1, LargestNat
        <3> QED BY <2>1, <3>1
    <2>3. S \ {k} = 1 .. (k - 1)
        BY <1>0
    <2> HIDE DEF S
    <2>4. f[S] = F[<<f[S \ {k}], s[k]>>]
        BY <2>1, <2>2 DEF Left, LeftFold
    <2>5. h[k] = f[S] /\ h[k - 1] = f[1 .. (k - 1)]
        BY <2>1 DEF S
    <2> QED BY <2>3, <2>4, <2>5
<1> QED
    BY <1>1, <1>2, <1>3 DEF Steps

(* What every step of a fold keeps, the fold has. *)
Keeping(P, A, F, base, s) ==
    /\ <<0, base>> \in P
    /\ \A k \in 1 .. Len(s), a \in A : <<k - 1, a>> \in P => <<k, F[<<a, s[k]>>]>> \in P

LEMMA FoldKeeps ==
    ASSUME NEW A, NEW B, NEW F \in [A \X B -> A], NEW base \in A, NEW s \in Seq(B),
           NEW f, LeftFold(f, A, F, base, s), NEW g, Alike(f, g, Len(s)),
           NEW P, Keeping(P, A, F, base, s)
    PROVE  g[1 .. Len(s)] \in A /\ <<Len(s), g[1 .. Len(s)]>> \in P
<1>0. Len(s) \in Nat
    OBVIOUS
<1>1. PICK h : Steps(h, f, A, F, base, s)
    BY LeftPrefixes
<1>2. /\ h \in [0 .. Len(s) -> A] /\ h[0] = base /\ h[Len(s)] = f[1 .. Len(s)]
      /\ \A k \in 1 .. Len(s) : h[k] = F[<<h[k - 1], s[k]>>]
    BY <1>1 DEF Steps
<1>3. f[1 .. Len(s)] = g[1 .. Len(s)]
    BY <1>0, SameFold
<1> DEFINE Bad == {k \in 0 .. Len(s) : <<k, h[k]>> \notin P}
<1>4. Bad = {}
    <2> SUFFICES ASSUME Bad # {} PROVE FALSE
        OBVIOUS
    <2>1. PICK k \in Bad : \A j \in Bad : k <= j
        <3>1. Bad \in SUBSET Nat
            BY <1>0
        <3> HIDE DEF Bad
        <3> QED BY <3>1, SmallestNat
    <2>2. k # 0
        BY <1>2, <2>1 DEF Keeping
    <2>3. k \in 1 .. Len(s) /\ k - 1 \in 0 .. Len(s) /\ ~(k <= k - 1)
        BY <1>0, <2>1, <2>2
    <2>4. <<k - 1, h[k - 1]>> \in P /\ h[k - 1] \in A
        BY <1>2, <2>1, <2>3
    <2> QED BY <1>2, <2>1, <2>3, <2>4 DEF Keeping
<1>5. Len(s) \in 0 .. Len(s)
    BY <1>0
<1>6. <<Len(s), h[Len(s)]>> \in P /\ h[Len(s)] \in A
    BY <1>2, <1>4, <1>5
<1> QED
    BY <1>2, <1>3, <1>6

-----------------------------------------------------------------------------
(* Sorting: the place of an element is one more than how many are before.  *)

Rank(S, R, x) == Cardinality({y \in S : <<y, x>> \in R})

Sorted(S, R) == [n \in 1 .. Cardinality(S) |-> CHOOSE x \in S : Rank(S, R, x) = n - 1]

Orders(R, S) ==
    /\ \A x \in S : <<x, x>> \notin R
    /\ \A x, y, z \in S : <<x, y>> \in R /\ <<y, z>> \in R => <<x, z>> \in R
    /\ \A x, y \in S : x = y \/ <<x, y>> \in R \/ <<y, x>> \in R

LEMMA RanksRise ==
    ASSUME NEW S, IsFiniteSet(S), NEW R, Orders(R, S)
    PROVE  /\ \A x \in S : Rank(S, R, x) \in 0 .. Cardinality(S) - 1
           /\ \A x, y \in S : <<x, y>> \in R => Rank(S, R, x) < Rank(S, R, y)
<1> DEFINE Before(x) == {y \in S : <<y, x>> \in R}
<1>1. ASSUME NEW x \in S
      PROVE  /\ IsFiniteSet(Before(x)) /\ x \notin Before(x)
             /\ Cardinality(Before(x)) \in Nat
             /\ IsFiniteSet(Before(x) \cup {x})
             /\ Cardinality(Before(x) \cup {x}) = Cardinality(Before(x)) + 1
    <2>1. Before(x) \in SUBSET S /\ x \notin Before(x)
        BY DEF Orders
    <2> HIDE DEF Before
    <2>2. IsFiniteSet(Before(x))
        BY <2>1, FS_Subset
    <2> QED BY <2>1, <2>2, FS_AddElement, FS_CardinalityType
<1>2. ASSUME NEW x \in S PROVE Cardinality(Before(x)) \in 0 .. Cardinality(S) - 1
    <2>1. Before(x) \cup {x} \in SUBSET S
        OBVIOUS
    <2> HIDE DEF Before
    <2>2. Cardinality(Before(x) \cup {x}) <= Cardinality(S) /\ Cardinality(S) \in Nat
        BY <2>1, FS_Subset, FS_CardinalityType
    <2>3. /\ Cardinality(Before(x)) \in Nat
          /\ Cardinality(Before(x) \cup {x}) = Cardinality(Before(x)) + 1
        BY <1>1
    <2> DEFINE before == Cardinality(Before(x))
               all == Cardinality(S)
    <2>4. before \in Nat /\ all \in Nat /\ before + 1 <= all
        BY <2>2, <2>3
    <2> HIDE DEF before, all
    <2>5. before \in 0 .. all - 1
        BY <2>4
    <2> QED BY <2>5 DEF before, all
<1>3. ASSUME NEW x \in S, NEW y \in S, <<x, y>> \in R
      PROVE  Cardinality(Before(x)) < Cardinality(Before(y))
    <2>1. Before(x) \cup {x} \in SUBSET Before(y)
        BY <1>3 DEF Orders
    <2> HIDE DEF Before
    <2>2. Cardinality(Before(x) \cup {x}) <= Cardinality(Before(y))
        BY <1>1, <2>1, FS_Subset
    <2>3. /\ Cardinality(Before(x)) \in Nat /\ Cardinality(Before(y)) \in Nat
          /\ Cardinality(Before(x) \cup {x}) = Cardinality(Before(x)) + 1
        BY <1>1
    <2> QED BY <2>2, <2>3
<1> QED
    BY <1>2, <1>3 DEF Rank

LEMMA RanksAreDistinct ==
    ASSUME NEW S, IsFiniteSet(S), NEW R, Orders(R, S), NEW x \in S, NEW y \in S,
           Rank(S, R, x) = Rank(S, R, y)
    PROVE  x = y
<1>1. Rank(S, R, x) \in Nat /\ ~(Rank(S, R, x) < Rank(S, R, y)) /\ ~(Rank(S, R, y) < Rank(S, R, x))
    <2>1. Rank(S, R, x) \in 0 .. Cardinality(S) - 1
        BY RanksRise
    <2>2. Cardinality(S) \in Nat
        BY FS_CardinalityType
    <2> QED BY <2>1, <2>2
<1> QED
    BY <1>1, RanksRise DEF Orders

LEMMA EveryRankIsTaken ==
    ASSUME NEW S, IsFiniteSet(S), NEW R, Orders(R, S), NEW n \in 1 .. Cardinality(S)
    PROVE  \E x \in S : Rank(S, R, x) = n - 1
<1> DEFINE f == [x \in S |-> Rank(S, R, x) + 1]
           T == 1 .. Cardinality(S)
<1>0. Cardinality(S) \in Nat
    BY FS_CardinalityType
<1>1. \A x \in S : Rank(S, R, x) \in Nat /\ f[x] \in T
    <2>1. \A x \in S : Rank(S, R, x) \in 0 .. Cardinality(S) - 1
        BY RanksRise
    <2> QED BY <1>0, <2>1
<1>2. f \in Injection(S, T)
    <2>1. f \in [S -> T]
        BY <1>1
    <2>2. \A x, y \in S : f[x] = f[y] => x = y
        BY <1>1, RanksAreDistinct
    <2> HIDE DEF f, T
    <2> QED BY <2>1, <2>2 DEF Injection, IsInjective
<1>3. IsFiniteSet(T) /\ Cardinality(T) = Cardinality(S)
    BY <1>0, FS_Interval
<1>4. f \in Surjection(S, T)
    <2> HIDE DEF f, T
    <2> QED BY <1>2, <1>3, FS_Injection
<1>5. PICK x \in S : f[x] = n
    BY <1>4 DEF Surjection
<1> QED
    BY <1>1, <1>5

LEMMA SortedIs ==
    ASSUME NEW S, IsFiniteSet(S), NEW R, Orders(R, S)
    PROVE  /\ Sorted(S, R) \in [1 .. Cardinality(S) -> S]
           /\ \A m, n \in 1 .. Cardinality(S) :
                  m < n => <<Sorted(S, R)[m], Sorted(S, R)[n]>> \in R
           /\ \A x \in S : \E n \in 1 .. Cardinality(S) : Sorted(S, R)[n] = x
<1> DEFINE q == Sorted(S, R)
<1>0. Cardinality(S) \in Nat
    BY FS_CardinalityType
<1>1. \A n \in 1 .. Cardinality(S) : q[n] \in S /\ Rank(S, R, q[n]) = n - 1
    BY EveryRankIsTaken DEF Sorted
<1>2. q \in [1 .. Cardinality(S) -> S]
    BY <1>1 DEF Sorted
<1> HIDE DEF q
<1>3. ASSUME NEW m \in 1 .. Cardinality(S), NEW n \in 1 .. Cardinality(S), m < n
      PROVE  <<q[m], q[n]>> \in R
    <2>1. q[m] \in S /\ q[n] \in S /\ Rank(S, R, q[m]) < Rank(S, R, q[n])
        BY <1>0, <1>1, <1>3
    <2>2. Rank(S, R, q[m]) \in Nat /\ Rank(S, R, q[n]) \in Nat
        BY <1>0, <1>1
    <2>3. q[m] # q[n] /\ <<q[n], q[m]>> \notin R
        BY <2>1, <2>2, RanksRise
    <2> QED BY <2>1, <2>3 DEF Orders
<1>4. ASSUME NEW x \in S PROVE \E n \in 1 .. Cardinality(S) : q[n] = x
    <2>1. Rank(S, R, x) \in 0 .. Cardinality(S) - 1
        BY RanksRise
    <2>2. Rank(S, R, x) + 1 \in 1 .. Cardinality(S) /\ (Rank(S, R, x) + 1) - 1 = Rank(S, R, x)
        BY <1>0, <2>1
    <2> QED BY <1>1, <2>2, RanksAreDistinct
<1> QED
    BY <1>2, <1>3, <1>4 DEF q

(* Of finitely many things in order, one is first and one is last.         *)
LEMMA EndsExist ==
    ASSUME NEW S, IsFiniteSet(S), S # {}, NEW R, Orders(R, S)
    PROVE  /\ \E x \in S : \A y \in S \ {x} : <<x, y>> \in R
           /\ \E x \in S : \A y \in S \ {x} : <<y, x>> \in R
<1> DEFINE q == Sorted(S, R)
           n == Cardinality(S)
<1>1. n \in Nat /\ n # 0
    BY FS_CardinalityType, FS_EmptySet
<1>2. /\ q \in [1 .. n -> S]
      /\ \A i, j \in 1 .. n : i < j => <<q[i], q[j]>> \in R
      /\ \A x \in S : \E i \in 1 .. n : q[i] = x
    BY SortedIs
<1> HIDE DEF q, n
<1>3. 1 \in 1 .. n /\ n \in 1 .. n /\ \A i \in 1 .. n : (i # 1 => 1 < i) /\ (i # n => i < n)
    BY <1>1
<1>4. \A y \in S \ {q[1]} : <<q[1], y>> \in R
    BY <1>2, <1>3
<1>5. \A y \in S \ {q[n]} : <<y, q[n]>> \in R
    BY <1>2, <1>3
<1>6. q[1] \in S /\ q[n] \in S
    BY <1>2, <1>3
<1> QED
    BY <1>4, <1>5, <1>6

LEMMA LeastInt ==
    ASSUME NEW S, S \subseteq Int, IsFiniteSet(S), S # {}
    PROVE  Min(S) \in S /\ \A k \in S : Min(S) <= k
<1> DEFINE R == {p \in S \X S : p[1] < p[2]}
<1>1. \A j, k \in S : <<j, k>> \in R <=> j < k
    OBVIOUS
<1>2. Orders(R, S)
    <2> HIDE DEF R
    <2> QED BY <1>1 DEF Orders
<1>3. \E m \in S : \A k \in S \ {m} : <<m, k>> \in R
    <2> HIDE DEF R
    <2>1. /\ \E x \in S : \A y \in S \ {x} : <<x, y>> \in R
          /\ \E x \in S : \A y \in S \ {x} : <<y, x>> \in R
        BY <1>2, EndsExist
    <2> QED BY <2>1
<1>4. PICK m \in S : \A k \in S \ {m} : <<m, k>> \in R
    BY <1>3
<1>5. \A k \in S : k = m \/ m < k
    BY <1>4
<1>6. \A k \in S : m <= k
    BY <1>5
<1> QED
    BY <1>6 DEF Min
=============================================================================
