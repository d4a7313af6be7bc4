----------------------------- MODULE ListsProofs -----------------------------
(***************************************************************************)
(* Facts about numbers and lists that the proofs about several components   *)
(* rest on: induction along a list, what a loop over a list computes, what  *)
(* is left of a list after a filter, a cut or a sort.                       *)
(***************************************************************************)
EXTENDS Lists, Integers, SequencesExt, FiniteSetTheorems, SequenceTheorems, WellFoundedInduction, TLAPS

-----------------------------------------------------------------------------
\* Induction along a finite stretch of the naturals, over a set of numbers.
LEMMA SmallestFamily ==
    ASSUME NEW S, IsFiniteSet(S), NEW F \in SUBSET SUBSET S, F # {}
    PROVE  \E A \in F : \A B \in F : ~(B \subseteq A /\ B # A)
<1>1. IsWellFoundedOn(StrictSubsetOrdering(S), SUBSET S)
  BY FS_StrictSubsetOrderingWellFounded, FS_FiniteSubsetsOfFinite
<1>2. \E A \in F : \A B \in F : ~(<<B, A>> \in StrictSubsetOrdering(S))
  BY <1>1, WFMin
<1>3. QED
  BY <1>2 DEF StrictSubsetOrdering

LEMMA SmallestOf ==
    ASSUME NEW n \in Nat, NEW S \in SUBSET (0 .. n), S # {}
    PROVE  \E m \in S : \A x \in S : m <= x
<1> DEFINE Below(m) == 0 .. m
           F == {Below(m) : m \in S}
           U == 0 .. n
<1>1. F \in SUBSET SUBSET U
  <2>1. \A m \in S : Below(m) \subseteq 0 .. n
    OBVIOUS
  <2>2. QED
    BY <2>1
<1>2. F # {}
  OBVIOUS
<1>0. IsFiniteSet(U)
  BY FS_Interval
<1> HIDE DEF F, U
<1>3. \E A \in F : \A B \in F : ~(B \subseteq A /\ B # A)
  BY <1>0, <1>1, <1>2, SmallestFamily
<1>4. PICK A \in F : \A B \in F : ~(B \subseteq A /\ B # A)
  BY <1>3
<1>5. PICK m \in S : A = Below(m)
  BY DEF F
<1>6. ASSUME NEW x \in S, x < m PROVE FALSE
  <2>1. m \in Below(m) /\ m \notin Below(x) /\ Below(x) \subseteq Below(m)
    BY <1>6
  <2>2. QED
    BY <1>4, <1>5, <2>1 DEF F
<1>7. QED
  BY <1>6

LEMMA GreatestOf ==
    ASSUME NEW n \in Nat, NEW S \in SUBSET (0 .. n), S # {}
    PROVE  \E m \in S : \A x \in S : x <= m
<1> DEFINE Mirrored == {n - x : x \in S}
<1>0. \A x \in S : x \in Int /\ n - x \in 0 .. n
  OBVIOUS
<1>1. Mirrored \in SUBSET (0 .. n) /\ Mirrored # {}
  BY <1>0
<1>2. PICK k \in Mirrored : \A y \in Mirrored : k <= y
  BY <1>1, SmallestOf
<1>3. PICK m \in S : k = n - m
  BY <1>2
<1>4. \A x \in S : n - x \in Mirrored /\ x \in Int
  BY <1>0
<1> HIDE DEF Mirrored
<1>5. \A x \in S : n - m <= n - x
  BY <1>2, <1>3, <1>4
<1>6. \A x \in S : x <= m
  BY <1>4, <1>5
<1>7. QED
  BY <1>6

LEMMA AlongTheList ==
    ASSUME NEW n \in Nat, NEW B, 0 \in B, \A k \in 0 .. n - 1 : k \in B => k + 1 \in B
    PROVE  \A k \in 0 .. n : k \in B
<1> DEFINE S == (0 .. n) \ B
<1> SUFFICES ASSUME S # {} PROVE FALSE
  OBVIOUS
<1>1. PICK m \in S : \A x \in S : m <= x
  BY SmallestOf
<1>2. m # 0 /\ m - 1 \in 0 .. n - 1
  OBVIOUS
<1>3. m - 1 \in B
  BY <1>1, <1>2
<1>4. QED
  BY <1>2, <1>3

-----------------------------------------------------------------------------
\* A list is read entry by entry: the function that says what is read so far exists.
Reads(f, n, base, next) == f[0] = base /\ \A i \in 1 .. n : f[i] = next[i][f[i - 1]]
LEMMA ReadingExists ==
    ASSUME NEW n \in Nat, NEW T, NEW base \in T, NEW next,
           \A i \in 1 .. n, r \in T : next[i][r] \in T
    PROVE  \E f \in [0 .. n -> T] : Reads(f, n, base, next)
<1> USE DEF Reads
<1> DEFINE B == {k \in 0 .. n : \E f \in [0 .. k -> T] : Reads(f, k, base, next)}
<1>1. 0 \in B
  <2> DEFINE f == [i \in 0 .. 0 |-> base]
  <2>1. f \in [0 .. 0 -> T]
    OBVIOUS
  <2>2. f[0] = base /\ \A i \in 1 .. 0 : f[i] = next[i][f[i - 1]]
    OBVIOUS
  <2> HIDE DEF f
  <2>3. 0 \in 0 .. n
    OBVIOUS
  <2>4. QED
    BY <2>1, <2>2, <2>3
<1>2. ASSUME NEW k \in 0 .. n - 1, k \in B PROVE k + 1 \in B
  <2>1. PICK f \in [0 .. k -> T] : Reads(f, k, base, next)
    BY <1>2
  <2> DEFINE g == [i \in 0 .. k + 1 |-> IF i = k + 1 THEN next[k + 1][f[k]] ELSE f[i]]
  <2>2. g \in [0 .. k + 1 -> T]
    OBVIOUS
  <2>3. g[0] = base
    BY <2>1
  <2>4. \A i \in 1 .. k + 1 : g[i] = next[i][g[i - 1]]
    <3> SUFFICES ASSUME NEW i \in 1 .. k + 1 PROVE g[i] = next[i][g[i - 1]]
      OBVIOUS
    <3>1. g[i - 1] = f[i - 1]
      OBVIOUS
    <3>2. CASE i = k + 1
      BY <3>1, <3>2
    <3>3. CASE i \in 1 .. k
      BY <2>1, <3>1, <3>3
    <3>4. QED
      BY <3>2, <3>3
  <2>5. k + 1 \in 0 .. n
    OBVIOUS
  <2> HIDE DEF g
  <2>6. QED
    BY <2>2, <2>3, <2>4, <2>5
<1> HIDE DEF B
<1>3. \A k \in 0 .. n : k \in B
  BY <1>1, <1>2, AlongTheList
<1>4. n \in B
  BY <1>3
<1>5. QED
  BY <1>4 DEF B

\* What is read by the same steps stays where the steps stay.
Stepwise(f, n, T, base, next) ==
    f[0] = base /\ \A i \in 1 .. n : f[i - 1] \in T => f[i] = next[i][f[i - 1]]
LEMMA ReadingStays ==
    ASSUME NEW n \in Nat, NEW T, NEW base \in T, NEW next,
           \A i \in 1 .. n, r \in T : next[i][r] \in T,
           NEW f, Stepwise(f, n, T, base, next)
    PROVE  /\ \A k \in 0 .. n : f[k] \in T
           /\ \A i \in 1 .. n : f[i - 1] \in T /\ f[i] = next[i][f[i - 1]]
<1> USE DEF Stepwise
<1> DEFINE B == {k \in 0 .. n : f[k] \in T}
<1>1. 0 \in B
  OBVIOUS
<1>2. ASSUME NEW k \in 0 .. n - 1, k \in B PROVE k + 1 \in B
  <2>1. k + 1 \in 1 .. n /\ (k + 1) - 1 = k /\ k + 1 \in 0 .. n
    OBVIOUS
  <2>2. f[k + 1] = next[k + 1][f[k]] /\ f[k] \in T
    BY <1>2, <2>1
  <2> QED
    BY <2>1, <2>2
<1> HIDE DEF B
<1>3. \A k \in 0 .. n : k \in B
  BY <1>1, <1>2, AlongTheList
<1>4. \A k \in 0 .. n : f[k] \in T
  BY <1>3 DEF B
<1>5. \A i \in 1 .. n : i - 1 \in 0 .. n
  OBVIOUS
<1> QED
  BY <1>4, <1>5

-----------------------------------------------------------------------------
(***************************************************************************)
(* Putting the places P of a list in an order B.                            *)
(***************************************************************************)
StrictTotal(B, P) ==
    /\ \A i \in P : <<i, i>> \notin B
    /\ \A i, j \in P : i # j => <<i, j>> \in B \/ <<j, i>> \in B
    /\ \A i, j, k \in P : <<i, j>> \in B /\ <<j, k>> \in B => <<i, k>> \in B
Ahead(B, P) == [i \in P |-> Cardinality({j \in P : <<j, i>> \in B})]

\* As many are ahead of an element as come before it, so each number is taken.
LEMMA Ranking ==
    ASSUME NEW P, IsFiniteSet(P), NEW B, StrictTotal(B, P)
    PROVE  /\ \A i \in P : Ahead(B, P)[i] \in 0 .. Cardinality(P) - 1
           /\ \A i, j \in P : Ahead(B, P)[i] < Ahead(B, P)[j] <=> <<i, j>> \in B
           /\ \A k \in 1 .. Cardinality(P) : \E i \in P : Ahead(B, P)[i] = k - 1
<1> DEFINE U(i) == {j \in P : <<j, i>> \in B}
           n == Cardinality(P)
           T == 0 .. n - 1
           f == Ahead(B, P)
<1>1. n \in Nat
  BY FS_CardinalityType
<1>2. \A i \in P : f[i] = Cardinality(U(i)) /\ IsFiniteSet(U(i)) /\ f[i] \in T
  <2> SUFFICES ASSUME NEW i \in P PROVE f[i] = Cardinality(U(i)) /\ IsFiniteSet(U(i)) /\ f[i] \in T
    OBVIOUS
  <2>1. f[i] = Cardinality(U(i))
    BY DEF Ahead
  <2>2. U(i) \in SUBSET (P \ {i})
    BY DEF StrictTotal
  <2>3. IsFiniteSet(P \ {i}) /\ Cardinality(P \ {i}) = n - 1
    BY FS_RemoveElement
  <2> HIDE DEF U, f
  <2>4. IsFiniteSet(U(i)) /\ Cardinality(U(i)) <= n - 1
    BY <2>2, <2>3, FS_Subset
  <2>5. Cardinality(U(i)) \in Nat
    BY <2>4, FS_CardinalityType
  <2>6. QED
    BY <1>1, <2>1, <2>4, <2>5
<1>3. \A i, j \in P : <<i, j>> \in B => f[i] < f[j]
  <2> SUFFICES ASSUME NEW i \in P, NEW j \in P, <<i, j>> \in B PROVE f[i] < f[j]
    OBVIOUS
  <2>1. U(i) \in SUBSET U(j) /\ U(i) # U(j)
    <3>1. i \in U(j) /\ i \notin U(i)
      BY DEF StrictTotal
    <3>2. U(i) \subseteq U(j)
      BY DEF StrictTotal
    <3>3. QED
      BY <3>1, <3>2
  <2> HIDE DEF U, f
  <2>2. Cardinality(U(i)) <= Cardinality(U(j)) /\ Cardinality(U(j)) # Cardinality(U(i))
    BY <1>2, <2>1, FS_Subset
  <2>3. QED
    BY <1>1, <1>2, <2>2
<1>9. \A i \in P : f[i] \in Int
  <2> HIDE DEF f, U
  <2>1. QED
    BY <1>1, <1>2
<1>4. \A i, j \in P : f[i] < f[j] <=> <<i, j>> \in B
  <2> HIDE DEF f
  <2> SUFFICES ASSUME NEW i \in P, NEW j \in P, f[i] < f[j], <<i, j>> \notin B PROVE FALSE
    BY <1>3
  <2>1. i # j /\ <<j, i>> \in B
    BY <1>9 DEF StrictTotal
  <2>2. QED
    BY <1>9, <1>3, <2>1
<1>5. \A i, j \in P : f[i] = f[j] => i = j
  <2> HIDE DEF f
  <2>1. \A i, j \in P : i # j => f[i] < f[j] \/ f[j] < f[i]
    BY <1>3 DEF StrictTotal
  <2>2. QED
    BY <1>9, <2>1
<1>6. \A t \in T : \E i \in P : f[i] = t
  <2>1. f \in [P -> T]
    BY <1>2 DEF Ahead
  <2>2. IsFiniteSet(T) /\ Cardinality(T) = n
    BY <1>1, FS_Interval
  <2> HIDE DEF f, T
  <2>3. f \in Injection(P, T)
    BY <1>5, <2>1 DEF Injection, IsInjective
  <2>4. f \in Surjection(P, T)
    BY <2>2, <2>3, FS_Injection
  <2>5. QED
    BY <2>4 DEF Surjection
<1>7. \A k \in 1 .. n : k - 1 \in T
  BY <1>1
<1> HIDE DEF f, n, T
<1>8. QED
  BY <1>2, <1>4, <1>6, <1>7 DEF f, n, T

\* The entries of a list at the places P, in the order B.
Arranged(s, refs, P, B) ==
    \E p \in [1 .. Cardinality(P) -> P] :
        /\ s = [k \in 1 .. Cardinality(P) |-> refs[p[k]]]
        /\ \A i \in P : \E k \in 1 .. Cardinality(P) : p[k] = i
        /\ \A k, l \in 1 .. Cardinality(P) : k < l => <<p[k], p[l]>> \in B

LEMMA PlacesOf ==
    ASSUME NEW R, NEW refs \in Seq(R)
    PROVE  /\ Len(refs) \in Nat /\ DOMAIN refs = 1 .. Len(refs)
           /\ IsFiniteSet(DOMAIN refs) /\ Cardinality(DOMAIN refs) = Len(refs)
           /\ \A i \in DOMAIN refs : refs[i] \in R
           /\ \A P \in SUBSET DOMAIN refs :
                 IsFiniteSet(P) /\ Cardinality(P) \in Nat /\ Cardinality(P) <= Len(refs)
<1>1. Len(refs) \in Nat /\ DOMAIN refs = 1 .. Len(refs) /\ \A i \in DOMAIN refs : refs[i] \in R
  OBVIOUS
<1>2. IsFiniteSet(DOMAIN refs) /\ Cardinality(DOMAIN refs) = Len(refs)
  BY <1>1, FS_Interval
<1>3. QED
  BY <1>1, <1>2, FS_Subset, FS_CardinalityType

LEMMA InOrderArranges ==
    ASSUME NEW R, NEW refs \in Seq(R), NEW P \in SUBSET DOMAIN refs, NEW B, StrictTotal(B, P)
    PROVE  Arranged(InOrder(refs, P, Ahead(B, P)), refs, P, B)
<1> DEFINE n == Cardinality(P)
           f == Ahead(B, P)
           p == [k \in 1 .. n |-> CHOOSE i \in P : f[i] = k - 1]
<1>1. IsFiniteSet(P) /\ n \in Nat
  BY PlacesOf
<1>2. /\ \A i \in P : f[i] \in 0 .. n - 1
      /\ \A i, j \in P : f[i] < f[j] <=> <<i, j>> \in B
      /\ \A k \in 1 .. n : \E i \in P : f[i] = k - 1
  BY <1>1, Ranking
<1> HIDE DEF f
<1>3. \A k \in 1 .. n : p[k] \in P /\ f[p[k]] = k - 1
  BY <1>2
<1>4. p \in [1 .. n -> P]
  BY <1>3
<1>5. InOrder(refs, P, f) = [k \in 1 .. n |-> refs[p[k]]]
  BY DEF InOrder
<1>6. \A k, l \in 1 .. n : k < l => <<p[k], p[l]>> \in B
  <2> SUFFICES ASSUME NEW k \in 1 .. n, NEW l \in 1 .. n, k < l PROVE <<p[k], p[l]>> \in B
    OBVIOUS
  <2>1. f[p[k]] < f[p[l]] /\ p[k] \in P /\ p[l] \in P
    BY <1>1, <1>3
  <2>2. QED
    BY <1>2, <2>1
<1>7. \A i \in P : \E k \in 1 .. n : p[k] = i
  <2> SUFFICES ASSUME NEW i \in P PROVE \E k \in 1 .. n : p[k] = i
    OBVIOUS
  <2>1. f[i] + 1 \in 1 .. n /\ f[i] \in Int
    BY <1>1, <1>2
  <2>2. f[p[f[i] + 1]] = f[i] /\ p[f[i] + 1] \in P
    BY <1>3, <2>1
  <2> DEFINE j == p[f[i] + 1]
  <2> HIDE DEF j
  <2>3. j \in P /\ f[j] = f[i]
    BY <2>2 DEF j
  <2>4. ~(f[i] < f[j]) /\ ~(f[j] < f[i])
    BY <2>1, <2>3
  <2>5. j = i
    BY <1>2, <2>3, <2>4 DEF StrictTotal
  <2>6. QED
    BY <2>1, <2>5 DEF j
<1> HIDE DEF p, n
<1>8. QED
  BY <1>4, <1>5, <1>6, <1>7 DEF Arranged, f, n

\* What is arranged is a list of these entries, each as often as it was there.
Draws(s, refs, P, B) ==
    /\ Len(s) = Cardinality(P)
    /\ ToSet(s) = {refs[i] : i \in P}
    /\ IsInjective(refs) => IsInjective(s)
    /\ \A k, l \in DOMAIN s : k < l =>
          \E i, j \in P : <<i, j>> \in B /\ s[k] = refs[i] /\ s[l] = refs[j]
LEMMA ArrangedLists ==
    ASSUME NEW R, NEW refs \in Seq(R), NEW P \in SUBSET DOMAIN refs, NEW B, NEW s,
           Arranged(s, refs, P, B), StrictTotal(B, P)
    PROVE  s \in Seq(R) /\ Draws(s, refs, P, B)
<1> DEFINE n == Cardinality(P)
<1>1. n \in Nat /\ \A i \in DOMAIN refs : refs[i] \in R
  BY PlacesOf
<1>2. PICK p \in [1 .. n -> P] :
        /\ s = [k \in 1 .. n |-> refs[p[k]]]
        /\ \A i \in P : \E k \in 1 .. n : p[k] = i
        /\ \A k, l \in 1 .. n : k < l => <<p[k], p[l]>> \in B
  BY DEF Arranged
<1> HIDE DEF n
<1>3. s \in Seq(R) /\ Len(s) = n /\ DOMAIN s = 1 .. n
  <2>1. \A k \in 1 .. n : refs[p[k]] \in R
    BY <1>1, <1>2
  <2>2. s \in [1 .. n -> R]
    BY <1>2, <2>1
  <2>3. QED
    BY <1>1, <2>2
<1>4. ToSet(s) = {refs[i] : i \in P}
  <2>1. ToSet(s) = {s[k] : k \in 1 .. n}
    BY <1>3 DEF ToSet
  <2>2. \A k \in 1 .. n : s[k] \in {refs[i] : i \in P}
    BY <1>2
  <2>3. \A i \in P : \E k \in 1 .. n : refs[i] = s[k]
    BY <1>2
  <2>4. QED
    BY <2>1, <2>2, <2>3
<1>5. ASSUME IsInjective(refs) PROVE IsInjective(s)
  <2> SUFFICES ASSUME NEW k \in 1 .. n, NEW l \in 1 .. n, s[k] = s[l], k < l PROVE FALSE
    BY <1>1, <1>3 DEF IsInjective
  <2>1. p[k] = p[l]
    BY <1>2, <1>5 DEF IsInjective
  <2>2. <<p[k], p[l]>> \in B /\ p[k] \in P /\ p[l] \in P
    BY <1>2
  <2>3. QED
    BY <2>1, <2>2 DEF StrictTotal
<1>6. \A k, l \in DOMAIN s : k < l =>
         \E i, j \in P : <<i, j>> \in B /\ s[k] = refs[i] /\ s[l] = refs[j]
  BY <1>2, <1>3
<1>7. QED
  BY <1>3, <1>4, <1>5, <1>6 DEF n, Draws

-----------------------------------------------------------------------------
(***************************************************************************)
(* A filter keeps the order, a cut the beginning, a sort all the entries.   *)
(***************************************************************************)
Follows(s, refs) ==
    \A k, l \in DOMAIN s : k < l => \E i, j \in DOMAIN refs : i < j /\ s[k] = refs[i] /\ s[l] = refs[j]

LEMMA OnlyLists ==
    ASSUME NEW R, NEW refs \in Seq(R), NEW S
    PROVE  /\ Only(refs, S) \in Seq(R)
           /\ ToSet(Only(refs, S)) = ToSet(refs) \cap S
           /\ IsInjective(refs) => IsInjective(Only(refs, S))
           /\ Follows(Only(refs, S), refs)
<1> DEFINE P == {i \in DOMAIN refs : refs[i] \in S}
           B == {e \in P \X P : e[1] < e[2]}
           s == Only(refs, S)
<1>1. P \in SUBSET DOMAIN refs /\ P \subseteq Nat
  BY PlacesOf
<1>2. StrictTotal(B, P)
  <2>1. \A i, j \in P : <<i, j>> \in B <=> i < j
    OBVIOUS
  <2> HIDE DEF B, P
  <2>2. QED
    BY <1>1, <2>1 DEF StrictTotal
<1>3. s = InOrder(refs, P, Ahead(B, P))
  <2>1. \A i \in P : {j \in P : j < i} = {j \in P : <<j, i>> \in B}
    OBVIOUS
  <2>2. [i \in P |-> Cardinality({j \in P : j < i})] = Ahead(B, P)
    BY <2>1 DEF Ahead
  <2>3. QED
    BY <2>2 DEF Only
<1> HIDE DEF s, B
<1>4. Arranged(s, refs, P, B)
  BY <1>1, <1>2, <1>3, InOrderArranges
<1>5. s \in Seq(R) /\ Draws(s, refs, P, B)
  <2> HIDE DEF P
  <2>1. QED
    BY <1>1, <1>2, <1>4, ArrangedLists
<1>6. ToSet(s) = ToSet(refs) \cap S
  <2>1. ToSet(s) = {refs[i] : i \in P}
    BY <1>5 DEF Draws
  <2>2. QED
    BY <2>1 DEF ToSet
<1>7. Follows(s, refs)
  <2>1. \A i, j \in P : <<i, j>> \in B => i < j /\ i \in DOMAIN refs /\ j \in DOMAIN refs
    BY DEF B
  <2> HIDE DEF P
  <2>2. QED
    BY <1>5, <2>1, ZenonT(60) DEF Follows, Draws
<1>8. QED
  BY <1>5, <1>6, <1>7 DEF s, Draws

\* A comparison that sorts: its pairs W among the entries.
StrictWeak(W, S) ==
    /\ \A a \in S : <<a, a>> \notin W
    /\ \A a, b, c \in S : <<a, b>> \in W /\ <<b, c>> \in W => <<a, c>> \in W
    /\ \A a, b, c \in S : <<a, c>> \in W => <<a, b>> \in W \/ <<b, c>> \in W
SortedBy(refs, W) ==
    InOrder(refs, DOMAIN refs,
            [i \in DOMAIN refs |-> Cardinality({j \in DOMAIN refs :
                 <<refs[j], refs[i]>> \in W \/ (j < i /\ <<refs[i], refs[j]>> \notin W)})])

\* The same entries, none behind a greater one, equals as they were.
Permutes(s, refs) ==
    /\ Len(s) = Len(refs) /\ ToSet(s) = ToSet(refs)
    /\ IsInjective(refs) => IsInjective(s)
StablyBy(s, refs, W) ==
    \A k, l \in DOMAIN s : k < l =>
        /\ <<s[l], s[k]>> \notin W
        /\ <<s[k], s[l]>> \in W \/ \E i, j \in DOMAIN refs : i < j /\ s[k] = refs[i] /\ s[l] = refs[j]

LEMMA SortedLists ==
    ASSUME NEW R, NEW refs \in Seq(R), NEW W, StrictWeak(W, ToSet(refs))
    PROVE  /\ SortedBy(refs, W) \in Seq(R)
           /\ Permutes(SortedBy(refs, W), refs)
           /\ StablyBy(SortedBy(refs, W), refs, W)
<1> DEFINE P == DOMAIN refs
           B == {e \in P \X P : \/ <<refs[e[1]], refs[e[2]]>> \in W
                                \/ e[1] < e[2] /\ <<refs[e[2]], refs[e[1]]>> \notin W}
           s == SortedBy(refs, W)
<1>1. P \in SUBSET DOMAIN refs /\ P \subseteq Nat /\ Cardinality(P) = Len(refs)
  BY PlacesOf
<1>2. \A i, j \in P : <<i, j>> \in B <=>
         \/ <<refs[i], refs[j]>> \in W
         \/ i < j /\ <<refs[j], refs[i]>> \notin W
  OBVIOUS
<1>3. \A i \in P : refs[i] \in ToSet(refs)
  BY DEF ToSet
<1> HIDE DEF B
<1>4. StrictTotal(B, P)
  <2> HIDE DEF P
  <2>0. \A i \in P : i \in Nat
    BY <1>1
  <2>1. ASSUME NEW i \in P PROVE <<i, i>> \notin B
    <3>1. ~(i < i) /\ <<refs[i], refs[i]>> \notin W
      BY <1>3, <2>0 DEF StrictWeak
    <3>2. QED
      BY <1>2, <3>1
  <2>2. ASSUME NEW i \in P, NEW j \in P, i # j PROVE <<i, j>> \in B \/ <<j, i>> \in B
    <3>1. i < j \/ j < i
      BY <2>0, <2>2
    <3>2. QED
      BY <1>2, <3>1
  <2>3. ASSUME NEW i \in P, NEW j \in P, NEW k \in P, <<i, j>> \in B, <<j, k>> \in B
        PROVE  <<i, k>> \in B
    <3> DEFINE a == refs[i]
               b == refs[j]
               c == refs[k]
    <3>1. a \in ToSet(refs) /\ b \in ToSet(refs) /\ c \in ToSet(refs)
      BY <1>3
    <3>2. <<a, b>> \in W \/ (i < j /\ <<b, a>> \notin W)
      BY <1>2, <2>3
    <3>3. <<b, c>> \in W \/ (j < k /\ <<c, b>> \notin W)
      BY <1>2, <2>3
    <3> HIDE DEF a, b, c
    <3>4. <<a, c>> \in W \/ (i < k /\ <<c, a>> \notin W)
      <4>1. CASE <<a, b>> \in W
        <5>1. <<a, c>> \in W \/ <<c, b>> \in W
          BY <3>1, <4>1 DEF StrictWeak
        <5>2. <<b, c>> \in W => <<a, c>> \in W
          BY <3>1, <4>1 DEF StrictWeak
        <5>3. QED
          BY <3>3, <5>1, <5>2
      <4>2. CASE <<b, c>> \in W
        <5>1. <<a, c>> \in W \/ <<b, a>> \in W
          BY <3>1, <4>2 DEF StrictWeak
        <5>2. <<a, b>> \in W => <<a, c>> \in W
          BY <3>1, <4>2 DEF StrictWeak
        <5>3. QED
          BY <3>2, <5>1, <5>2
      <4>3. CASE i < j /\ j < k /\ <<b, a>> \notin W /\ <<c, b>> \notin W
        <5>1. <<c, a>> \notin W
          BY <3>1, <4>3 DEF StrictWeak
        <5>2. i < k
          BY <2>0, <4>3
        <5>3. QED
          BY <5>1, <5>2
      <4>4. QED
        BY <3>2, <3>3, <4>1, <4>2, <4>3
    <3>5. QED
      BY <1>2, <3>4 DEF a, b, c
  <2>4. QED
    BY <2>1, <2>2, <2>3 DEF StrictTotal
<1>5. s = InOrder(refs, P, Ahead(B, P))
  <2>1. \A i \in P : {j \in P : <<refs[j], refs[i]>> \in W \/ (j < i /\ <<refs[i], refs[j]>> \notin W)}
                      = {j \in P : <<j, i>> \in B}
    BY <1>2
  <2>2. QED
    BY <2>1 DEF SortedBy, Ahead
<1> HIDE DEF s
<1>6. Arranged(s, refs, P, B)
  BY <1>1, <1>4, <1>5, InOrderArranges
<1>7. s \in Seq(R) /\ Draws(s, refs, P, B)
  <2> HIDE DEF P
  <2>1. QED
    BY <1>1, <1>4, <1>6, ArrangedLists
<1>8. Permutes(s, refs)
  BY <1>1, <1>7 DEF Permutes, ToSet, Draws
<1>9. StablyBy(s, refs, W)
  <2> SUFFICES ASSUME NEW k \in DOMAIN s, NEW l \in DOMAIN s, k < l
               PROVE  /\ <<s[l], s[k]>> \notin W
                      /\ <<s[k], s[l]>> \in W
                         \/ \E i, j \in DOMAIN refs : i < j /\ s[k] = refs[i] /\ s[l] = refs[j]
    BY DEF StablyBy
  <2>1. PICK i, j \in P : <<i, j>> \in B /\ s[k] = refs[i] /\ s[l] = refs[j]
    BY <1>7 DEF Draws
  <2>2. <<s[k], s[l]>> \in W \/ (i < j /\ <<s[l], s[k]>> \notin W)
    BY <1>2, <2>1
  <2>3. ~(<<s[k], s[l]>> \in W /\ <<s[l], s[k]>> \in W)
    <3>1. s[k] \in ToSet(refs) /\ s[l] \in ToSet(refs)
      BY <1>3, <2>1
    <3>2. QED
      BY <3>1 DEF StrictWeak
  <2>4. QED
    BY <2>1, <2>2, <2>3
<1>10. QED
  BY <1>7, <1>8, <1>9 DEF s

LEMMA EmptyLists ==
    ASSUME NEW R, NEW refs \in Seq(R)
    PROVE  /\ refs = << >> <=> ToSet(refs) = {}
           /\ refs = << >> <=> Len(refs) = 0
           /\ refs # << >> => 1 \in DOMAIN refs /\ Head(refs) = refs[1] /\ refs[1] \in ToSet(refs)
           /\ ToSet(refs) \subseteq R
<1>1. Len(refs) \in Nat /\ DOMAIN refs = 1 .. Len(refs) /\ \A i \in DOMAIN refs : refs[i] \in R
  BY PlacesOf
<1>2. refs = << >> <=> Len(refs) = 0
  BY EmptySeq
<1>3. Len(refs) # 0 => 1 \in DOMAIN refs
  BY <1>1
<1>4. refs # << >> => Head(refs) = refs[1]
  OBVIOUS
<1>5. \A i \in DOMAIN refs : refs[i] \in ToSet(refs)
  BY DEF ToSet
<1>6. ToSet(refs) \subseteq R
  BY <1>1 DEF ToSet
<1>7. refs = << >> => ToSet(refs) = {}
  BY <1>1, <1>2 DEF ToSet
<1>8. QED
  BY <1>2, <1>3, <1>4, <1>5, <1>6, <1>7

LEMMA PlaceIn ==
    ASSUME NEW R, NEW refs \in Seq(R), NEW r \in ToSet(refs)
    PROVE  /\ Place(refs, r) \in DOMAIN refs /\ refs[Place(refs, r)] = r
           /\ IsInjective(refs) => \A i \in DOMAIN refs : refs[i] = r => i = Place(refs, r)
<1>1. \E i \in DOMAIN refs : refs[i] = r
  BY DEF ToSet
<1>2. Place(refs, r) \in DOMAIN refs /\ refs[Place(refs, r)] = r
  BY <1>1 DEF Place
<1> HIDE DEF Place
<1>3. QED
  BY <1>2 DEF IsInjective

LEMMA PlacesApart ==
    ASSUME NEW R, NEW refs \in Seq(R), NEW a \in ToSet(refs), NEW b \in ToSet(refs), a # b
    PROVE  Place(refs, a) < Place(refs, b) \/ Place(refs, b) < Place(refs, a)
<1>1. /\ Place(refs, a) \in DOMAIN refs /\ refs[Place(refs, a)] = a
      /\ Place(refs, b) \in DOMAIN refs /\ refs[Place(refs, b)] = b
  BY PlaceIn
<1>2. DOMAIN refs = 1 .. Len(refs) /\ Len(refs) \in Nat
  BY PlacesOf
<1> HIDE DEF Place
<1>3. Place(refs, a) # Place(refs, b)
  BY <1>1
<1>4. QED
  BY <1>1, <1>2, <1>3

LEMMA PlacesFollow ==
    ASSUME NEW R, NEW refs \in Seq(R), IsInjective(refs),
           NEW s \in Seq(R), IsInjective(s), Follows(s, refs), ToSet(s) \subseteq ToSet(refs),
           NEW a \in ToSet(s), NEW b \in ToSet(s)
    PROVE  Place(s, a) < Place(s, b) <=> Place(refs, a) < Place(refs, b)
<1>1. ASSUME NEW c \in ToSet(s), NEW d \in ToSet(s), Place(s, c) < Place(s, d)
      PROVE  Place(refs, c) < Place(refs, d)
  <2>1. Place(s, c) \in DOMAIN s /\ s[Place(s, c)] = c /\ Place(s, d) \in DOMAIN s /\ s[Place(s, d)] = d
    BY PlaceIn
  <2>2. PICK i, j \in DOMAIN refs : i < j /\ c = refs[i] /\ d = refs[j]
    BY <1>1, <2>1 DEF Follows
  <2>3. i = Place(refs, c) /\ j = Place(refs, d)
    BY <2>2, PlaceIn
  <2>4. QED
    BY <2>2, <2>3
<1>2. ASSUME Place(refs, a) < Place(refs, b) PROVE Place(s, a) < Place(s, b)
  <2>1. Place(refs, a) \in Int /\ Place(refs, b) \in Int
    BY PlaceIn, PlacesOf
  <2>2. a # b /\ ~(Place(refs, b) < Place(refs, a))
    BY <1>2, <2>1
  <2>3. QED
    BY <1>1, <2>2, PlacesApart
<1>3. QED
  BY <1>1, <1>2

LEMMA CutLists ==
    ASSUME NEW R, NEW refs \in Seq(R), NEW k \in Nat
    PROVE  /\ Cut(refs, k) \in Seq(R)
           /\ DOMAIN Cut(refs, k) \subseteq DOMAIN refs
           /\ \A i \in DOMAIN Cut(refs, k) : Cut(refs, k)[i] = refs[i]
           /\ k # 0 /\ refs # << >> => Cut(refs, k) # << >>
           /\ ToSet(Cut(refs, k)) \subseteq ToSet(refs)
           /\ IsInjective(refs) => IsInjective(Cut(refs, k))
<1> DEFINE s == Cut(refs, k)
<1>1. Len(refs) \in Nat /\ DOMAIN refs = 1 .. Len(refs)
  BY PlacesOf
<1>2. CASE k < Len(refs)
  <2>1. s = SubSeq(refs, 1, k)
    BY <1>2 DEF Cut
  <2>2. s \in Seq(R) /\ Len(s) = k /\ DOMAIN s = 1 .. k /\ \A i \in 1 .. k : s[i] = refs[i]
    BY <1>1, <1>2, <2>1
  <2> HIDE DEF s
  <2>3. DOMAIN s \subseteq DOMAIN refs /\ (k # 0 => s # << >>)
    BY <1>1, <1>2, <2>2
  <2>4. ToSet(s) \subseteq ToSet(refs)
    BY <2>2, <2>3 DEF ToSet
  <2>5. IsInjective(refs) => IsInjective(s)
    BY <2>2, <2>3 DEF IsInjective
  <2>6. QED
    BY <2>2, <2>3, <2>4, <2>5 DEF s
<1>3. CASE ~(k < Len(refs))
  BY <1>3 DEF Cut
<1>4. QED
  BY <1>2, <1>3

LEMMA JoinedLists ==
    ASSUME NEW R, NEW a \in Seq(R), NEW b \in Seq(R)
    PROVE  /\ a \o b \in Seq(R)
           /\ ToSet(a \o b) = ToSet(a) \cup ToSet(b)
           /\ Len(a \o b) = Len(a) + Len(b)
           /\ \A i \in DOMAIN a : i \in DOMAIN (a \o b) /\ (a \o b)[i] = a[i]
           /\ \A i \in DOMAIN b : Len(a) + i \in DOMAIN (a \o b) /\ (a \o b)[Len(a) + i] = b[i]
           /\ \A i \in DOMAIN (a \o b) : i \in DOMAIN a \/ i - Len(a) \in DOMAIN b
           /\ IsInjective(a) /\ IsInjective(b) /\ ToSet(a) \cap ToSet(b) = {} => IsInjective(a \o b)
<1> DEFINE s == a \o b
           n == Len(a)
           m == Len(b)
<1>1. /\ n \in Nat /\ DOMAIN a = 1 .. n /\ m \in Nat /\ DOMAIN b = 1 .. m
      /\ s \in Seq(R) /\ Len(s) = n + m /\ DOMAIN s = 1 .. n + m
  BY PlacesOf
<1>2. \A i \in 1 .. n + m : s[i] = IF i <= n THEN a[i] ELSE b[i - n]
  OBVIOUS
<1> HIDE DEF s, n, m
<1>3. \A i \in DOMAIN a : i \in DOMAIN s /\ s[i] = a[i]
  BY <1>1, <1>2
<1>4. \A i \in DOMAIN b : n + i \in DOMAIN s /\ s[n + i] = b[i]
  <2> SUFFICES ASSUME NEW i \in DOMAIN b PROVE n + i \in DOMAIN s /\ s[n + i] = b[i]
    OBVIOUS
  <2>1. i \in 1 .. m /\ n + i \in 1 .. n + m /\ ~(n + i <= n) /\ (n + i) - n = i
    BY <1>1
  <2>2. QED
    BY <1>1, <1>2, <2>1
<1>5. \A i \in DOMAIN s : \/ i \in DOMAIN a /\ s[i] = a[i]
                          \/ i - n \in DOMAIN b /\ s[i] = b[i - n] /\ i > n
  <2> SUFFICES ASSUME NEW i \in DOMAIN s
               PROVE  \/ i \in DOMAIN a /\ s[i] = a[i]
                      \/ i - n \in DOMAIN b /\ s[i] = b[i - n] /\ i > n
    OBVIOUS
  <2>1. i \in 1 .. n + m
    BY <1>1
  <2>2. CASE i <= n
    BY <1>1, <1>2, <2>1, <2>2
  <2>3. CASE i > n
    BY <1>1, <1>2, <2>1, <2>3
  <2>4. QED
    BY <1>1, <2>1, <2>2, <2>3
<1>6. ToSet(s) = ToSet(a) \cup ToSet(b)
  <2>1. \A i \in DOMAIN a : a[i] \in ToSet(s)
    BY <1>3 DEF ToSet
  <2>2. \A i \in DOMAIN b : b[i] \in ToSet(s)
    BY <1>4 DEF ToSet
  <2>3. \A i \in DOMAIN s : s[i] \in ToSet(a) \cup ToSet(b)
    BY <1>5 DEF ToSet
  <2>4. QED
    BY <2>1, <2>2, <2>3 DEF ToSet
<1>7. ASSUME IsInjective(a), IsInjective(b), ToSet(a) \cap ToSet(b) = {} PROVE IsInjective(s)
  <2> SUFFICES ASSUME NEW i \in DOMAIN s, NEW j \in DOMAIN s, s[i] = s[j] PROVE i = j
    BY DEF IsInjective
  <2>0. \A k \in DOMAIN a, l \in DOMAIN b : a[k] # b[l]
    BY <1>7 DEF ToSet
  <2>1. CASE i \in DOMAIN a /\ s[i] = a[i] /\ j \in DOMAIN a /\ s[j] = a[j]
    BY <1>7, <2>1 DEF IsInjective
  <2>2. CASE i - n \in DOMAIN b /\ s[i] = b[i - n] /\ j - n \in DOMAIN b /\ s[j] = b[j - n]
    <3>1. i - n = j - n
      BY <1>7, <2>2 DEF IsInjective
    <3>2. i \in Int /\ j \in Int
      BY <1>1
    <3>3. QED
      BY <1>1, <3>1, <3>2
  <2>3. QED
    BY <1>5, <2>0, <2>1, <2>2
<1>8. QED
  BY <1>1, <1>3, <1>4, <1>5, <1>6, <1>7 DEF s, n, m

-----------------------------------------------------------------------------
(***************************************************************************)
(* The best of every class: one entry stands for those that are alike.      *)
(***************************************************************************)
LEMMA FiniteEntries ==
    ASSUME NEW R, NEW refs \in Seq(R)
    PROVE  IsFiniteSet(ToSet(refs))
<1>1. IsFiniteSet(DOMAIN refs)
  BY PlacesOf
<1>2. refs \in [DOMAIN refs -> ToSet(refs)]
  BY DEF ToSet
<1>3. refs \in Surjection(DOMAIN refs, ToSet(refs))
  BY <1>2 DEF Surjection, ToSet
<1> QED
  BY <1>1, <1>3, FS_Surjection

LEMMA BestExists ==
    ASSUME NEW P, IsFiniteSet(P), P # {}, NEW B, StrictTotal(B, P)
    PROVE  \E x \in P : \A y \in P \ {x} : <<x, y>> \in B
<1>1. Cardinality(P) \in Nat \ {0}
  BY FS_CardinalityType, FS_EmptySet
<1>2. 1 \in 1 .. Cardinality(P)
  BY <1>1
<1>3. PICK x \in P : Ahead(B, P)[x] = 1 - 1
  BY <1>2, Ranking
<1>4. ASSUME NEW y \in P \ {x} PROVE <<x, y>> \in B
  <2>1. Ahead(B, P)[y] \in 0 .. Cardinality(P) - 1
    BY Ranking
  <2>2. ~(Ahead(B, P)[y] < Ahead(B, P)[x])
    BY <1>1, <1>3, <2>1
  <2>3. <<y, x>> \notin B
    BY <2>2, Ranking
  <2> QED
    BY <2>3 DEF StrictTotal
<1> QED
  BY <1>4

LEMMA SmallerTotal ==
    ASSUME NEW B, NEW S, StrictTotal(B, S), NEW P \in SUBSET S
    PROVE  StrictTotal(B, P)
BY DEF StrictTotal

\* A relation that says which entries are alike.
Equivalence(E, S) ==
    /\ \A a \in S : <<a, a>> \in E
    /\ \A a, b \in S : <<a, b>> \in E => <<b, a>> \in E
    /\ \A a, b, c \in S : <<a, b>> \in E /\ <<b, c>> \in E => <<a, c>> \in E
Firsts(refs, E) ==
    Only(refs, {r \in ToSet(refs) : \A x \in ToSet(refs) : <<x, r>> \in E => Place(refs, r) <= Place(refs, x)})
\* x is the one of S that is better than all that are alike r.
BestLike(x, r, S, E, B) ==
    /\ x \in S /\ <<x, r>> \in E
    /\ \A y \in S \ {x} : <<y, r>> \in E => <<x, y>> \in B

LEMMA BestLikeExists ==
    ASSUME NEW S, IsFiniteSet(S), NEW E, NEW B, Equivalence(E, S), StrictTotal(B, S), NEW r \in S
    PROVE  \E x \in S : BestLike(x, r, S, E, B)
<1> DEFINE P == {x \in S : <<x, r>> \in E}
<1>1. r \in P /\ P \in SUBSET S
  BY DEF Equivalence
<1>2. IsFiniteSet(P) /\ P # {} /\ StrictTotal(B, P)
  BY <1>1, FS_Subset, SmallerTotal
<1> HIDE DEF P
<1>3. PICK x \in P : \A y \in P \ {x} : <<x, y>> \in B
  BY <1>2, BestExists
<1> QED
  BY <1>3 DEF P, BestLike

\* The first of every class stands in the list, once.
LEMMA FirstsLists ==
    ASSUME NEW R, NEW refs \in Seq(R), IsInjective(refs), NEW E, Equivalence(E, ToSet(refs))
    PROVE  /\ Firsts(refs, E) \in Seq(R) /\ IsInjective(Firsts(refs, E))
           /\ ToSet(Firsts(refs, E)) \subseteq ToSet(refs)
           /\ \A r \in ToSet(refs) : \E f \in ToSet(Firsts(refs, E)) : <<f, r>> \in E
           /\ \A a, b \in ToSet(Firsts(refs, E)) : <<a, b>> \in E => a = b
<1> DEFINE T == ToSet(refs)
           F == {r \in T : \A x \in T : <<x, r>> \in E => Place(refs, r) <= Place(refs, x)}
           B == {e \in T \X T : Place(refs, e[1]) < Place(refs, e[2])}
<1>1. Firsts(refs, E) = Only(refs, F)
  BY DEF Firsts
<1>2. /\ Firsts(refs, E) \in Seq(R) /\ IsInjective(Firsts(refs, E))
      /\ ToSet(Firsts(refs, E)) = T \cap F
  <2> HIDE DEF T, F
  <2> QED
    BY <1>1, OnlyLists DEF T
<1>3. \A r \in T : Place(refs, r) \in Nat
  <2>1. \A r \in T : Place(refs, r) \in DOMAIN refs
    BY PlaceIn
  <2> QED
    BY <2>1, PlacesOf
<1>4. \A a, b \in T : a # b => Place(refs, a) < Place(refs, b) \/ Place(refs, b) < Place(refs, a)
  BY PlacesApart
<1>5. StrictTotal(B, T)
  <2>1. \A a \in T : <<a, a>> \notin B
    BY <1>3
  <2>2. \A a, b \in T : a # b => <<a, b>> \in B \/ <<b, a>> \in B
    BY <1>4
  <2>3. \A a, b, c \in T : <<a, b>> \in B /\ <<b, c>> \in B => <<a, c>> \in B
    BY <1>3
  <2> HIDE DEF B, T
  <2> QED
    BY <2>1, <2>2, <2>3 DEF StrictTotal
<1>6. IsFiniteSet(T)
  BY FiniteEntries
<1>7. ASSUME NEW r \in T PROVE \E f \in ToSet(Firsts(refs, E)) : <<f, r>> \in E
  <2>1. \E f \in T : BestLike(f, r, T, E, B)
    <3> HIDE DEF T, B
    <3> QED
      BY <1>5, <1>6, <1>7, BestLikeExists DEF T
  <2>2. PICK f \in T : BestLike(f, r, T, E, B)
    BY <2>1
  <2>3. <<f, r>> \in E /\ <<r, f>> \in E
    BY <2>2 DEF BestLike, Equivalence
  <2>4. ASSUME NEW x \in T, <<x, f>> \in E PROVE Place(refs, f) <= Place(refs, x)
    <3>1. <<x, r>> \in E
      BY <2>3, <2>4 DEF Equivalence
    <3>2. x = f \/ <<f, x>> \in B
      BY <2>2, <3>1 DEF BestLike
    <3> QED
      BY <1>3, <3>2
  <2>5. f \in F
    BY <2>4
  <2> QED
    BY <1>2, <2>3, <2>5
<1>8. ASSUME NEW a \in ToSet(Firsts(refs, E)), NEW b \in ToSet(Firsts(refs, E)), <<a, b>> \in E PROVE a = b
  <2>1. a \in F /\ b \in F /\ <<b, a>> \in E
    BY <1>2, <1>8 DEF Equivalence
  <2>2. Place(refs, a) <= Place(refs, b) /\ Place(refs, b) <= Place(refs, a)
    BY <1>8, <2>1
  <2> QED
    BY <1>3, <1>4, <2>1, <2>2
<1> QED
  BY <1>2, <1>7, <1>8

\* Every class has an entry.
Represents(s, S, E) == \A r \in S : \E i \in DOMAIN s : <<s[i], r>> \in E

\* Who stands for its class is better than all that are alike.
LEMMA PickedLists ==
    ASSUME NEW R, NEW refs \in Seq(R), IsInjective(refs), NEW E, Equivalence(E, ToSet(refs)),
           NEW B, StrictTotal(B, ToSet(refs)), NEW s, s = [i \in DOMAIN Firsts(refs, E) |-> s[i]],
           \A i \in DOMAIN Firsts(refs, E) : BestLike(s[i], Firsts(refs, E)[i], ToSet(refs), E, B)
    PROVE  /\ s \in Seq(R) /\ IsInjective(s)
           /\ ToSet(s) = {r \in ToSet(refs) : \A x \in ToSet(refs) \ {r} : <<x, r>> \in E => <<r, x>> \in B}
           /\ \A i, j \in DOMAIN s : i # j => <<s[i], s[j]>> \notin E
           /\ Represents(s, ToSet(refs), E)
<1> DEFINE T == ToSet(refs)
           f == Firsts(refs, E)
           n == Len(f)
<1>1. /\ f \in Seq(R) /\ IsInjective(f) /\ ToSet(f) \subseteq T
      /\ \A r \in T : \E c \in ToSet(f) : <<c, r>> \in E
      /\ \A a, b \in ToSet(f) : <<a, b>> \in E => a = b
  BY FirstsLists
<1>2. n \in Nat /\ DOMAIN f = 1 .. n /\ T \subseteq R
  BY <1>1, PlacesOf, EmptyLists
<1>3. DOMAIN s = DOMAIN f
  OBVIOUS
<1> HIDE DEF T, f, n
<1>4. \A i \in DOMAIN f : f[i] \in ToSet(f) /\ f[i] \in T /\ s[i] \in T /\ <<s[i], f[i]>> \in E /\ <<f[i], s[i]>> \in E
  <2> SUFFICES ASSUME NEW i \in DOMAIN f
               PROVE  f[i] \in ToSet(f) /\ f[i] \in T /\ s[i] \in T /\ <<s[i], f[i]>> \in E /\ <<f[i], s[i]>> \in E
    OBVIOUS
  <2>1. f[i] \in ToSet(f)
    BY DEF ToSet
  <2>2. f[i] \in T
    BY <1>1, <2>1
  <2>3. s[i] \in T /\ <<s[i], f[i]>> \in E
    BY DEF f, T, BestLike
  <2> QED
    BY <2>1, <2>2, <2>3 DEF Equivalence, T
<1>5. s \in Seq(R)
  <2>1. \A i \in 1 .. n : s[i] \in R
    BY <1>2, <1>4
  <2>2. s = [i \in 1 .. n |-> s[i]]
    BY <1>2 DEF f
  <2>3. s \in [1 .. n -> R]
    BY <2>1, <2>2
  <2> QED
    BY <1>2, <2>3
<1>6. \A i, j \in DOMAIN s : i # j => <<s[i], s[j]>> \notin E
  <2> SUFFICES ASSUME NEW i \in DOMAIN s, NEW j \in DOMAIN s, <<s[i], s[j]>> \in E PROVE i = j
    OBVIOUS
  <2>1. <<f[i], s[j]>> \in E
    BY <1>3, <1>4 DEF Equivalence, T
  <2>2. <<f[i], f[j]>> \in E
    BY <1>3, <1>4, <2>1 DEF Equivalence, T
  <2>3. f[i] = f[j]
    BY <1>1, <1>3, <1>4, <2>2
  <2> QED
    BY <1>1, <1>3, <2>3 DEF IsInjective
<1>7. IsInjective(s)
  <2> SUFFICES ASSUME NEW i \in DOMAIN s, NEW j \in DOMAIN s, s[i] = s[j] PROVE i = j
    BY DEF IsInjective
  <2>1. <<s[i], s[j]>> \in E
    BY <1>3, <1>4 DEF Equivalence, T
  <2> QED
    BY <1>6, <2>1
<1>8. \A r \in T : \E i \in DOMAIN s : <<s[i], r>> \in E
  <2> SUFFICES ASSUME NEW r \in T PROVE \E i \in DOMAIN s : <<s[i], r>> \in E
    OBVIOUS
  <2>1. PICK c \in ToSet(f) : <<c, r>> \in E
    BY <1>1
  <2>2. PICK i \in DOMAIN f : f[i] = c
    BY DEF ToSet
  <2>3. <<s[i], r>> \in E
    BY <1>4, <2>1, <2>2 DEF Equivalence, T
  <2> QED
    BY <1>3, <2>3
<1>9. ASSUME NEW i \in DOMAIN s, NEW x \in T \ {s[i]}, <<x, s[i]>> \in E PROVE <<s[i], x>> \in B
  <2>1. <<x, f[i]>> \in E
    BY <1>3, <1>4, <1>9 DEF Equivalence, T
  <2> QED
    BY <1>3, <1>9, <2>1 DEF BestLike, f, T
<1>10. ASSUME NEW r \in T, \A x \in T \ {r} : <<x, r>> \in E => <<r, x>> \in B PROVE r \in ToSet(s)
  <2>1. PICK i \in DOMAIN s : <<s[i], r>> \in E
    BY <1>8
  <2>2. s[i] \in T /\ <<r, s[i]>> \in E
    BY <1>3, <1>4, <2>1 DEF Equivalence, T
  <2>3. CASE s[i] # r
    <3>1. <<r, s[i]>> \in B
      BY <1>10, <2>1, <2>2, <2>3
    <3>2. <<s[i], r>> \in B
      BY <1>9, <2>2, <2>3
    <3>3. FALSE
      BY <2>2, <3>1, <3>2 DEF StrictTotal, T
    <3> QED
      BY <3>3
  <2> QED
    BY <2>3 DEF ToSet
<1>11. ToSet(s) = {r \in T : \A x \in T \ {r} : <<x, r>> \in E => <<r, x>> \in B}
  <2>1. \A r \in ToSet(s) : \E i \in DOMAIN s : s[i] = r
    BY DEF ToSet
  <2>2. \A r \in ToSet(s) : r \in T /\ \A x \in T \ {r} : <<x, r>> \in E => <<r, x>> \in B
    BY <1>3, <1>4, <1>9, <2>1
  <2> QED
    BY <1>10, <2>2
<1> QED
  BY <1>5, <1>6, <1>7, <1>8, <1>11 DEF T, Represents

\* Numbers sort, and a comparison that sorts a set sorts a part of it.
LEMMA KeysSort ==
    ASSUME NEW S, NEW key, \A a \in S : key[a] \in Int
    PROVE  StrictWeak({e \in S \X S : key[e[1]] < key[e[2]]}, S)
<1> DEFINE W == {e \in S \X S : key[e[1]] < key[e[2]]}
<1>1. \A a, b \in S : <<a, b>> \in W <=> key[a] < key[b]
  OBVIOUS
<1> HIDE DEF W
<1>2. \A a \in S : <<a, a>> \notin W
  BY <1>1
<1>3. \A a, b, c \in S : <<a, b>> \in W /\ <<b, c>> \in W => <<a, c>> \in W
  BY <1>1
<1>4. \A a, b, c \in S : <<a, c>> \in W => <<a, b>> \in W \/ <<b, c>> \in W
  BY <1>1
<1>5. StrictWeak(W, S)
  BY <1>2, <1>3, <1>4 DEF StrictWeak
<1> QED
  BY <1>5 DEF W

LEMMA SmallerWeak ==
    ASSUME NEW W, NEW S, StrictWeak(W, S), NEW T \in SUBSET S
    PROVE  StrictWeak(W, T)
<1>1. \A a \in T : <<a, a>> \notin W
  BY DEF StrictWeak
<1>2. \A a, b, c \in T : <<a, b>> \in W /\ <<b, c>> \in W => <<a, c>> \in W
  BY DEF StrictWeak
<1>3. \A a, b, c \in T : <<a, c>> \in W => <<a, b>> \in W \/ <<b, c>> \in W
  BY DEF StrictWeak
<1> QED
  BY <1>1, <1>2, <1>3 DEF StrictWeak

\* One comparison decides, where it does not another one does.
LEMMA ThenSorts ==
    ASSUME NEW S, NEW V, NEW W, NEW U, StrictWeak(V, S), StrictWeak(W, S),
           \A a, b \in S : <<a, b>> \in U <=>
              \/ <<a, b>> \in V
              \/ <<a, b>> \notin V /\ <<b, a>> \notin V /\ <<a, b>> \in W
    PROVE  StrictWeak(U, S)
<1>1. \A a \in S : <<a, a>> \notin U
  BY DEF StrictWeak
<1>2. ASSUME NEW a \in S, NEW b \in S, NEW c \in S, <<a, b>> \in U, <<b, c>> \in U PROVE <<a, c>> \in U
  <2>1. <<c, a>> \notin V
    BY <1>2 DEF StrictWeak
  <2>2. CASE <<a, b>> \in V \/ <<b, c>> \in V
    BY <1>2, <2>2 DEF StrictWeak
  <2>3. CASE <<a, b>> \notin V /\ <<b, c>> \notin V
    BY <1>2, <2>1, <2>3 DEF StrictWeak
  <2> QED
    BY <2>2, <2>3
<1>3. ASSUME NEW a \in S, NEW b \in S, NEW c \in S, <<a, c>> \in U PROVE <<a, b>> \in U \/ <<b, c>> \in U
  <2>1. CASE <<a, c>> \in V
    BY <2>1 DEF StrictWeak
  <2>2. CASE <<a, c>> \notin V
    <3>1. <<c, a>> \notin V /\ <<a, c>> \in W
      BY <1>3, <2>2
    <3>2. <<a, b>> \in V \/ <<b, a>> \notin V \/ <<b, c>> \in V
      BY <2>2, <3>1 DEF StrictWeak
    <3>3. <<b, c>> \in V \/ <<c, b>> \notin V \/ <<a, b>> \in V
      BY <2>2, <3>1 DEF StrictWeak
    <3>4. <<a, b>> \in W \/ <<b, c>> \in W
      BY <3>1 DEF StrictWeak
    <3> QED
      BY <3>2, <3>3, <3>4
  <2> QED
    BY <2>1, <2>2
<1> QED
  BY <1>1, <1>2, <1>3 DEF StrictWeak

\* What a filter leaves stands in the order of the list.
LEMMA OnlyPlaces ==
    ASSUME NEW R, NEW refs \in Seq(R), IsInjective(refs), NEW S,
           NEW a \in ToSet(Only(refs, S)), NEW b \in ToSet(Only(refs, S))
    PROVE  Place(Only(refs, S), a) < Place(Only(refs, S), b) <=> Place(refs, a) < Place(refs, b)
<1>1. /\ Only(refs, S) \in Seq(R) /\ IsInjective(Only(refs, S)) /\ Follows(Only(refs, S), refs)
      /\ ToSet(Only(refs, S)) \subseteq ToSet(refs)
  BY OnlyLists
<1> QED
  BY <1>1, PlacesFollow

\* Two groups, each with a comparison of its own, one before the other.
InGroups(U, S, N, P, Q) ==
    \A a, b \in S : /\ a \in N /\ b \in N => (<<a, b>> \in U <=> <<a, b>> \in P)
                    /\ a \notin N /\ b \notin N => (<<a, b>> \in U <=> <<a, b>> \in Q)
                    /\ a \in N /\ b \notin N => <<a, b>> \in U /\ <<b, a>> \notin U
LEMMA GroupsSort ==
    ASSUME NEW S, NEW N, NEW P, NEW Q, NEW U, StrictWeak(P, S), StrictWeak(Q, S), InGroups(U, S, N, P, Q)
    PROVE  StrictWeak(U, S)
<1> USE DEF InGroups
<1>1. \A a \in S : <<a, a>> \notin U
  BY DEF StrictWeak
<1>2. ASSUME NEW a \in S, NEW b \in S, NEW c \in S, <<a, b>> \in U, <<b, c>> \in U PROVE <<a, c>> \in U
  <2>1. CASE a \in N /\ b \in N /\ c \in N
    BY <1>2, <2>1 DEF StrictWeak
  <2>2. CASE a \notin N /\ b \notin N /\ c \notin N
    BY <1>2, <2>2 DEF StrictWeak
  <2>3. (a \notin N => b \notin N) /\ (b \notin N => c \notin N)
    BY <1>2
  <2> QED
    BY <2>1, <2>2, <2>3
<1>3. ASSUME NEW a \in S, NEW b \in S, NEW c \in S, <<a, c>> \in U PROVE <<a, b>> \in U \/ <<b, c>> \in U
  <2>1. CASE a \in N /\ b \in N /\ c \in N
    BY <1>3, <2>1 DEF StrictWeak
  <2>2. CASE a \notin N /\ b \notin N /\ c \notin N
    BY <1>3, <2>2 DEF StrictWeak
  <2>3. a \notin N => c \notin N
    BY <1>3
  <2> QED
    BY <2>1, <2>2, <2>3
<1> QED
  BY <1>1, <1>2, <1>3 DEF StrictWeak

-----------------------------------------------------------------------------
\* Those of P stand before the others.
Fronts(s, P) == \A i, j \in DOMAIN s : i < j /\ s[j] \in P => s[i] \in P

LEMMA JoinedFronts ==
    ASSUME NEW R, NEW a \in Seq(R), NEW b \in Seq(R), NEW P,
           \/ ToSet(a) \subseteq P /\ Fronts(b, P)
           \/ Fronts(a, P) /\ ToSet(b) \cap P = {}
    PROVE  Fronts(a \o b, P)
<1> DEFINE s == a \o b
           n == Len(a)
<1>1. /\ n \in Nat /\ DOMAIN a = 1 .. n /\ Len(b) \in Nat /\ DOMAIN b = 1 .. Len(b)
  BY PlacesOf
<1>2. s \in Seq(R) /\ Len(s) = n + Len(b) /\ DOMAIN s = 1 .. n + Len(b)
  <2>1. s \in Seq(R) /\ Len(s) = n + Len(b)
    BY JoinedLists
  <2> HIDE DEF s
  <2> QED
    BY <2>1, PlacesOf
<1>3. \A i \in DOMAIN a : s[i] = a[i]
  BY JoinedLists
<1>4. \A i \in DOMAIN b : s[n + i] = b[i]
  BY JoinedLists
<1> HIDE DEF s, n
<1>5. ASSUME NEW i \in DOMAIN s, NEW j \in DOMAIN s, i < j, s[j] \in P PROVE s[i] \in P
  <2>1. CASE i \in DOMAIN a /\ j \in DOMAIN a
    BY <1>3, <1>5, <2>1 DEF Fronts, ToSet
  <2>2. CASE j \notin DOMAIN a
    <3>1. j - n \in DOMAIN b /\ n + (j - n) = j
      BY <1>1, <1>2, <2>2
    <3>2. s[j] = b[j - n]
      BY <1>4, <3>1
    <3>3. ToSet(a) \subseteq P /\ Fronts(b, P)
      BY <1>5, <3>1, <3>2 DEF ToSet
    <3>4. CASE i \in DOMAIN a
      BY <1>3, <3>3, <3>4 DEF ToSet
    <3>5. CASE i \notin DOMAIN a
      <4>1. i - n \in DOMAIN b /\ n + (i - n) = i /\ i - n < j - n
        BY <1>1, <1>2, <1>5, <3>5
      <4>2. s[i] = b[i - n]
        BY <1>4, <4>1
      <4> QED
        BY <1>5, <3>1, <3>2, <3>3, <4>1, <4>2 DEF Fronts
    <3> QED
      BY <3>4, <3>5
  <2>3. i \in DOMAIN a \/ j \notin DOMAIN a
    BY <1>1, <1>2, <1>5
  <2> QED
    BY <2>1, <2>2, <2>3
<1> QED
  BY <1>5 DEF Fronts, s

LEMMA OnlyFronts ==
    ASSUME NEW R, NEW refs \in Seq(R), NEW S, NEW P, Fronts(refs, P)
    PROVE  Fronts(Only(refs, S), P)
<1>1. Follows(Only(refs, S), refs)
  BY OnlyLists
<1> QED
  BY <1>1 DEF Follows, Fronts

LEMMA FrontsHead ==
    ASSUME NEW R, NEW s \in Seq(R), NEW P, Fronts(s, P), NEW r \in ToSet(s), r \in P
    PROVE  s # << >> /\ Head(s) \in P
<1>1. s # << >> /\ 1 \in DOMAIN s /\ Head(s) = s[1]
  BY EmptyLists
<1>2. PICK i \in DOMAIN s : s[i] = r
  BY DEF ToSet
<1>3. i = 1 \/ 1 < i
  BY PlacesOf
<1> QED
  BY <1>1, <1>2, <1>3 DEF Fronts

-----------------------------------------------------------------------------
\* A list without repetitions is as long as its entries are many.
LEMMA LengthOf ==
    ASSUME NEW R, NEW s \in Seq(R), IsInjective(s)
    PROVE  Cardinality(ToSet(s)) = Len(s)
<1>1. IsFiniteSet(DOMAIN s) /\ Cardinality(DOMAIN s) = Len(s)
  BY PlacesOf
<1>2. s \in [DOMAIN s -> ToSet(s)]
  BY DEF ToSet
<1>3. s \in Surjection(DOMAIN s, ToSet(s)) /\ s \in Injection(DOMAIN s, ToSet(s))
  BY <1>2 DEF Surjection, Injection, IsInjective, ToSet
<1> QED
  BY <1>1, <1>3, FS_Surjection

\* Two lists of the same entries, each once, in the same order are one list.
OrderedBy(s, C) == \A k, l \in DOMAIN s : k < l => <<s[k], s[l]>> \in C
LEMMA SameLists ==
    ASSUME NEW R, NEW s \in Seq(R), NEW t \in Seq(R), IsInjective(s), IsInjective(t),
           ToSet(s) = ToSet(t), NEW C, OrderedBy(s, C), OrderedBy(t, C),
           \A a, b \in ToSet(s) : ~(<<a, b>> \in C /\ <<b, a>> \in C)
    PROVE  s = t
<1> DEFINE n == Len(s)
           S == {i \in 1 .. n : s[i] # t[i]}
<1>1. Len(t) = n
  BY LengthOf
<1>2. n \in Nat /\ DOMAIN s = 1 .. n /\ DOMAIN t = 1 .. n
  BY <1>1, PlacesOf
<1> HIDE DEF n
<1>3. ASSUME S # {} PROVE FALSE
  <2>1. S \in SUBSET (0 .. n)
    BY <1>2
  <2> HIDE DEF S
  <2>2. PICK i \in S : \A x \in S : i <= x
    BY <1>2, <1>3, <2>1, SmallestOf
  <2>3. i \in 1 .. n /\ s[i] # t[i] /\ \A j \in 1 .. n : j < i => s[j] = t[j]
    BY <2>2 DEF S
  <2>4. PICK j \in 1 .. n : t[j] = s[i]
    BY <1>2, <2>3 DEF ToSet
  <2>5. PICK k \in 1 .. n : s[k] = t[i]
    BY <1>2, <2>3 DEF ToSet
  <2>6. i < j
    BY <1>2, <2>3, <2>4 DEF IsInjective
  <2>7. i < k
    BY <1>2, <2>3, <2>5 DEF IsInjective
  <2>8. <<t[i], s[i]>> \in C
    BY <1>2, <2>3, <2>4, <2>6 DEF OrderedBy
  <2>9. <<s[i], t[i]>> \in C
    BY <1>2, <2>3, <2>5, <2>7 DEF OrderedBy
  <2>10. s[i] \in ToSet(s) /\ t[i] \in ToSet(s)
    BY <1>2, <2>3 DEF ToSet
  <2> QED
    BY <2>8, <2>9, <2>10
<1>4. \A i \in 1 .. n : s[i] = t[i]
  BY <1>3
<1> QED
  BY <1>1, <1>2, <1>4

\* An order stays in what a filter leaves, and in the beginning of a list.
LEMMA OrderStays ==
    ASSUME NEW R, NEW refs \in Seq(R), NEW C, OrderedBy(refs, C)
    PROVE  /\ \A S : OrderedBy(Only(refs, S), C)
           /\ \A k \in Nat : OrderedBy(Cut(refs, k), C)
<1>1. ASSUME NEW S PROVE OrderedBy(Only(refs, S), C)
  BY OnlyLists DEF OrderedBy, Follows
<1>2. ASSUME NEW k \in Nat PROVE OrderedBy(Cut(refs, k), C)
  BY CutLists DEF OrderedBy
<1> QED
  BY <1>1, <1>2

\* A cut leaves the whole list, or as many entries as it may.
LEMMA CutLength ==
    ASSUME NEW R, NEW refs \in Seq(R), NEW k \in Nat
    PROVE  /\ Len(Cut(refs, k)) = IF k < Len(refs) THEN k ELSE Len(refs)
           /\ DOMAIN Cut(refs, k) = 1 .. Len(Cut(refs, k))
           /\ Len(Cut(refs, k)) <= k
           /\ Cut(refs, k) = refs \/ Len(Cut(refs, k)) = k
<1>1. Len(refs) \in Nat
  BY PlacesOf
<1>2. Cut(refs, k) \in Seq(R)
  BY CutLists
<1>3. DOMAIN Cut(refs, k) = 1 .. Len(Cut(refs, k))
  BY <1>2, PlacesOf
<1>4. CASE k < Len(refs)
  BY <1>1, <1>3, <1>4 DEF Cut
<1>5. CASE ~(k < Len(refs))
  BY <1>1, <1>3, <1>5 DEF Cut
<1> QED
  BY <1>4, <1>5
=============================================================================
