------------------------ MODULE RegistrationProofs ------------------------
(***************************************************************************)
(* Machine-checked facts about two components that share no state:         *)
(*   - what the router believes of a model and registers with pi           *)
(*     (Leaderboard, Metrics, Registration), for every page, every set of  *)
(*     scenes and every spelling that meets the modules' assumptions;      *)
(*   - the breaker of a provider (ProviderBreaker), for every set of       *)
(*     providers and models, every window and every ladder.                *)
(***************************************************************************)
EXTENDS Registration, ProviderBreaker, ListsProofs

-----------------------------------------------------------------------------
(***************************************************************************)
(* A page of the leaderboard.  The loops of the extractor are recursive    *)
(* functions: that they exist, and what they have read after so many       *)
(* entries, is proved by induction over a set of numbers.                  *)
(***************************************************************************)

LEMMA ExtremesOf ==
    ASSUME NEW n \in Nat, NEW S \in SUBSET (1 .. n), S # {}
    PROVE  /\ Max(S) \in S /\ \A x \in S : x <= Max(S)
           /\ Min(S) \in S /\ \A x \in S : Min(S) <= x
<1>0. S \in SUBSET (0 .. n)
  OBVIOUS
<1>1. PICK m \in S : \A x \in S : x <= m
  BY <1>0, GreatestOf
<1>2. PICK l \in S : \A x \in S : l <= x
  BY <1>0, SmallestOf
<1>3. QED
  BY <1>1, <1>2 DEF Max, Min

-----------------------------------------------------------------------------
LEMMA PageLists ==
    ASSUME NEW page, IsPage(page)
    PROVE  /\ Len(page.cards) \in Nat /\ DOMAIN page.cards = 1 .. Len(page.cards)
           /\ Len(page.board) \in Nat /\ DOMAIN page.board = 1 .. Len(page.board)
           /\ Len(page.names) \in Nat /\ DOMAIN page.names = 1 .. Len(page.names)
<1>1. \A part : part \in Seq(Range(part)) => Len(part) \in Nat /\ DOMAIN part = 1 .. Len(part)
  OBVIOUS
<1>2. QED
  BY <1>1 DEF IsPage

\* The table of names gives slugs.
LEMMA SlugsOfLabels ==
    ASSUME NEW page, IsPage(page), NEW label
    PROVE  SlugOf(page, label) \in Slugs \cup {None}
<1> DEFINE n == Len(page.names)
           alike == {i \in DOMAIN page.names : Key[page.names[i].label] = Key[label]}
<1>1. n \in Nat /\ DOMAIN page.names = 1 .. n
  BY PageLists
<1>2. \A i \in 1 .. n : page.names[i].slug \in Slugs
  BY <1>1 DEF IsPage
<1>3. ASSUME NEW l, Naming(page, l) # {} PROVE page.names[Max(Naming(page, l))].slug \in Slugs
  <2>1. Naming(page, l) \in SUBSET (1 .. n)
    BY <1>1 DEF Naming
  <2>2. Max(Naming(page, l)) \in Naming(page, l)
    BY <1>1, <1>3, <2>1, ExtremesOf
  <2>3. QED
    BY <1>2, <2>1, <2>2
<1>4. CASE Naming(page, label) # {}
  <2>1. SlugOf(page, label) = page.names[Max(Naming(page, label))].slug
    BY <1>4 DEF SlugOf
  <2>2. QED
    BY <1>3, <1>4, <2>1
<1>5. CASE Naming(page, label) = {} /\ alike # {}
  <2>1. alike \in SUBSET (1 .. n)
    BY <1>1
  <2>2. Min(alike) \in alike
    BY <1>1, <1>5, <2>1, ExtremesOf
  <2> DEFINE l == page.names[Min(alike)].label
  <2>3. Naming(page, l) # {}
    BY <2>2 DEF Naming
  <2>4. SlugOf(page, label) = LastSlug(page, l)
    BY <1>5 DEF SlugOf
  <2> HIDE DEF l, alike
  <2>5. QED
    BY <1>3, <2>3, <2>4 DEF LastSlug
<1>6. CASE Naming(page, label) = {} /\ alike = {}
  BY <1>6 DEF SlugOf
<1>7. QED
  BY <1>4, <1>5, <1>6

-----------------------------------------------------------------------------
\* What is read so far, and what a card and a row write.
Readings(V) == [scores : [Slugs -> V], own : SUBSET Slugs, claimed : SUBSET Slugs]

LEMMA OwnedWrites ==
    ASSUME NEW V, NEW read \in Readings(V), NEW slug \in Slugs, NEW score \in V
    PROVE  /\ Owned(read, slug, score) \in Readings(V)
           /\ Owned(read, slug, score).scores = [read.scores EXCEPT ![slug] = score]
           /\ Owned(read, slug, score).own = read.own \cup {slug}
           /\ Owned(read, slug, score).claimed = read.claimed
BY DEF Readings, Owned

LEMMA CardWrites ==
    ASSUME NEW V, NEW read \in Readings(V), NEW card,
           card.slug \in Slugs, Key[card.label] \in Slugs, card.score \in V
    PROVE  /\ Card(read, card) \in Readings(V)
           /\ Card(read, card).own = read.own \cup {card.slug}
           /\ Card(read, card).claimed = read.claimed
           /\ \A s \in Slugs : Card(read, card).scores[s] =
                 IF s = card.slug THEN card.score
                 ELSE IF s = Key[card.label] /\ s \notin read.own /\ read.scores[s] = None
                      THEN card.score
                 ELSE read.scores[s]
<1> DEFINE owned == Owned(read, card.slug, card.score)
           key == Key[card.label]
<1>1. /\ owned \in Readings(V)
      /\ owned.scores = [read.scores EXCEPT ![card.slug] = card.score]
      /\ owned.own = read.own \cup {card.slug}
      /\ owned.claimed = read.claimed
  BY OwnedWrites
<1>2. Card(read, card) = IF key \in owned.own \/ owned.scores[key] # None THEN owned
                         ELSE [owned EXCEPT !.scores[key] = card.score]
  BY DEF Card
<1>3. \A s \in Slugs : owned.scores[s] = IF s = card.slug THEN card.score ELSE read.scores[s]
  BY <1>1 DEF Readings
<1>4. key \in Slugs /\ (key \in owned.own <=> (key \in read.own \/ key = card.slug))
  BY <1>1
<1> HIDE DEF owned, key
<1>5. CASE key \in owned.own \/ owned.scores[key] # None
  <2>1. Card(read, card) = owned
    BY <1>2, <1>5
  <2>2. \A s \in Slugs : s = key /\ s # card.slug => s \in read.own \/ read.scores[s] # None
    BY <1>3, <1>4, <1>5
  <2>3. QED
    BY <1>1, <1>3, <2>1, <2>2 DEF key
<1>6. CASE ~(key \in owned.own \/ owned.scores[key] # None)
  <2>1. Card(read, card) = [owned EXCEPT !.scores[key] = card.score]
    BY <1>2, <1>6
  <2>2. /\ Card(read, card) \in Readings(V)
        /\ Card(read, card).own = owned.own
        /\ Card(read, card).claimed = owned.claimed
        /\ \A s \in Slugs : Card(read, card).scores[s] = IF s = key THEN card.score ELSE owned.scores[s]
    BY <1>1, <1>4, <2>1 DEF Readings
  <2>3. key # card.slug /\ key \notin read.own /\ read.scores[key] = None
    BY <1>3, <1>4, <1>6
  <2>4. QED
    BY <1>1, <1>3, <2>2, <2>3 DEF key
<1>7. QED
  BY <1>5, <1>6

LEMMA RowWrites ==
    ASSUME NEW V, NEW read \in Readings(V), NEW page, NEW row,
           SlugOf(page, row.label) \in Slugs, None \notin Slugs,
           Key[row.label] \in Slugs, row.score \in V
    PROVE  /\ Row(page, read, row) \in Readings(V)
           /\ Row(page, read, row).own = read.own \cup {SlugOf(page, row.label)}
           /\ \A s \in Slugs : s # SlugOf(page, row.label) /\ s \notin read.own =>
                 (s \in Row(page, read, row).claimed <=> s \in read.claimed \/ s = Key[row.label])
           /\ \A s \in Slugs : Row(page, read, row).scores[s] =
                 IF s = SlugOf(page, row.label) THEN row.score
                 ELSE IF s = Key[row.label] /\ s \notin read.own \cup read.claimed THEN row.score
                 ELSE read.scores[s]
<1> DEFINE slug == SlugOf(page, row.label)
           owned == Owned(read, slug, row.score)
           key == Key[row.label]
<1>1. /\ owned \in Readings(V)
      /\ owned.scores = [read.scores EXCEPT ![slug] = row.score]
      /\ owned.own = read.own \cup {slug}
      /\ owned.claimed = read.claimed
  BY OwnedWrites
<1>2. \A s \in Slugs : owned.scores[s] = IF s = slug THEN row.score ELSE read.scores[s]
  BY <1>1 DEF Readings
<1>3. CASE key \in owned.own \cup owned.claimed
  <2>1. Row(page, read, row) = owned
    BY <1>3 DEF Row
  <2> HIDE DEF owned
  <2>2. QED
    BY <1>1, <1>2, <1>3, <2>1
<1>4. CASE key \notin owned.own \cup owned.claimed
  <2>1. Row(page, read, row) = [owned EXCEPT !.scores[key] = row.score, !.claimed = @ \cup {key}]
    BY <1>4 DEF Row
  <2> DEFINE new == Row(page, read, row)
             score == row.score
  <2>2. key \in Slugs /\ score \in V
    OBVIOUS
  <2>3. new = [owned EXCEPT !.scores[key] = score, !.claimed = @ \cup {key}]
    BY <2>1
  <2> HIDE DEF owned, key, new, score
  <2>4. /\ new \in Readings(V)
        /\ new.own = owned.own
        /\ new.claimed = owned.claimed \cup {key}
        /\ \A s \in Slugs : new.scores[s] = IF s = key THEN score ELSE owned.scores[s]
    <3>1. DOMAIN owned = {"scores", "own", "claimed"} /\ owned.scores \in [Slugs -> V]
      BY <1>1 DEF Readings
    <3>2. new.scores = [owned.scores EXCEPT ![key] = score]
      BY <2>3, <3>1
    <3>3. new.claimed = owned.claimed \cup {key} /\ new.own = owned.own
      BY <2>3, <3>1
    <3>4. new = [scores |-> new.scores, own |-> new.own, claimed |-> new.claimed]
      BY <2>3, <3>1
    <3>5. new.scores \in [Slugs -> V]
      BY <2>2, <3>1, <3>2
    <3>6. new.claimed \in SUBSET Slugs /\ new.own \in SUBSET Slugs
      BY <1>1, <2>2, <3>3 DEF Readings
    <3>7. new \in Readings(V)
      BY <3>4, <3>5, <3>6 DEF Readings
    <3>8. QED
      BY <3>1, <3>2, <3>3, <3>7
  <2>5. QED
    BY <1>1, <1>2, <1>4, <2>4 DEF key, new, score
<1>5. QED
  BY <1>3, <1>4

-----------------------------------------------------------------------------
\* The two loops: one entry after the other, from nothing and from the cards.
Given(page) == {None} \cup {page.cards[i].score : i \in DOMAIN page.cards}
                      \cup {page.board[i].score : i \in DOMAIN page.board}

LEMMA CardsReading ==
    ASSUME NEW page, IsPage(page), None \notin Slugs
    PROVE  /\ CardsRead(page) \in [0 .. Len(page.cards) -> Readings(Given(page))]
           /\ CardsRead(page)[0] = Unread
           /\ \A i \in 1 .. Len(page.cards) :
                 CardsRead(page)[i] = Card(CardsRead(page)[i - 1], page.cards[i])
<1> DEFINE n == Len(page.cards)
           T == Readings(Given(page))
           next == [i \in 1 .. n |-> [r \in T |-> Card(r, page.cards[i])]]
           Loop(f) == f = [i \in 0 .. n |-> IF i = 0 THEN Unread ELSE Card(f[i - 1], page.cards[i])]
           read == CHOOSE f : Loop(f)
<1>1. n \in Nat /\ DOMAIN page.cards = 1 .. n
  BY PageLists
<1>2. \A i \in 1 .. n, r \in T : Card(r, page.cards[i]) \in T
  <2> SUFFICES ASSUME NEW i \in 1 .. n, NEW r \in T PROVE Card(r, page.cards[i]) \in T
    OBVIOUS
  <2>1. /\ page.cards[i].slug \in Slugs /\ Key[page.cards[i].label] \in Slugs
        /\ page.cards[i].score \in Given(page)
    BY <1>1 DEF IsPage, Given
  <2>2. QED
    BY <2>1, CardWrites
<1>3. Unread \in T
  BY DEF Unread, NoScores, Readings, Given
<1>4. \A i \in 1 .. n, r \in T : next[i][r] \in T
  BY <1>2
<1> HIDE DEF next, T, n
<1>5. PICK f \in [0 .. n -> T] : f[0] = Unread /\ \A i \in 1 .. n : f[i] = next[i][f[i - 1]]
  <2>1. n \in Nat
    BY <1>1
  <2>2. \E f \in [0 .. n -> T] : Reads(f, n, Unread, next)
    BY <2>1, <1>3, <1>4, ReadingExists
  <2>3. QED
    BY <2>2 DEF Reads
<1>6. \A i \in 1 .. n : f[i] = Card(f[i - 1], page.cards[i])
  <2> SUFFICES ASSUME NEW i \in 1 .. n PROVE f[i] = Card(f[i - 1], page.cards[i])
    OBVIOUS
  <2>1. i - 1 \in 0 .. n
    BY <1>1
  <2>2. f[i - 1] \in T
    BY <2>1
  <2>3. next[i][f[i - 1]] = Card(f[i - 1], page.cards[i])
    BY <2>2 DEF next
  <2>4. QED
    BY <1>5, <2>3
<1>7. Loop(f)
  <2>1. \A i \in 0 .. n : f[i] = IF i = 0 THEN Unread ELSE Card(f[i - 1], page.cards[i])
    BY <1>1, <1>5, <1>6
  <2>2. QED
    BY <2>1
<1>8. CardsRead(page) = read
  BY DEF CardsRead, n
<1>9. Loop(read)
  BY <1>7
<1> HIDE DEF read
<1>10. read[0] = Unread /\ \A i \in 1 .. n : read[i] = Card(read[i - 1], page.cards[i])
  <2>1. \A i \in 0 .. n : read[i] = IF i = 0 THEN Unread ELSE Card(read[i - 1], page.cards[i])
    BY <1>9
  <2>2. QED
    BY <1>1, <2>1
<1>11. \A k \in 0 .. n : read[k] \in T
  <2> DEFINE B == {k \in 0 .. n : read[k] \in T}
  <2>1. 0 \in B
    BY <1>1, <1>3, <1>10
  <2>2. ASSUME NEW k \in 0 .. n - 1, k \in B PROVE k + 1 \in B
    <3>1. k + 1 \in 1 .. n /\ (k + 1) - 1 = k
      BY <1>1
    <3>2. read[k + 1] = Card(read[k], page.cards[k + 1])
      BY <1>10, <3>1
    <3>3. QED
      BY <1>1, <1>2, <2>2, <3>1, <3>2
  <2> HIDE DEF B
  <2>3. \A k \in 0 .. n : k \in B
    BY <1>1, <2>1, <2>2, AlongTheList
  <2>4. QED
    BY <2>3 DEF B
<1>12. read \in [0 .. n -> T]
  BY <1>9, <1>11
<1>13. QED
  BY <1>8, <1>10, <1>12 DEF n, T

LEMMA BoardReading ==
    ASSUME NEW page, IsPage(page), None \notin Slugs
    PROVE  /\ BoardRead(page) \in [0 .. Len(page.board) -> Readings(Given(page))]
           /\ BoardRead(page)[0] = CardsRead(page)[Len(page.cards)]
           /\ \A i \in 1 .. Len(page.board) :
                 BoardRead(page)[i] = Row(page, BoardRead(page)[i - 1], page.board[i])
<1> DEFINE n == Len(page.board)
           T == Readings(Given(page))
           base == CardsRead(page)[Len(page.cards)]
           next == [i \in 1 .. n |-> [r \in T |-> Row(page, r, page.board[i])]]
           Loop(f) == f = [i \in 0 .. n |-> IF i = 0 THEN base ELSE Row(page, f[i - 1], page.board[i])]
           read == CHOOSE f : Loop(f)
<1>1. n \in Nat /\ DOMAIN page.board = 1 .. n
  BY PageLists
<1>2. \A i \in 1 .. n, r \in T : Row(page, r, page.board[i]) \in T
  <2> SUFFICES ASSUME NEW i \in 1 .. n, NEW r \in T PROVE Row(page, r, page.board[i]) \in T
    OBVIOUS
  <2>1. Key[page.board[i].label] \in Slugs /\ page.board[i].score \in Given(page)
    BY <1>1 DEF IsPage, Given
  <2>2. CASE SlugOf(page, page.board[i].label) = None
    BY <2>2 DEF Row
  <2>3. CASE SlugOf(page, page.board[i].label) # None
    <3>1. SlugOf(page, page.board[i].label) \in Slugs
      BY <2>3, SlugsOfLabels
    <3>2. QED
      BY <2>1, <3>1, RowWrites
  <2>4. QED
    BY <2>2, <2>3
<1>3. base \in T
  <2>1. Len(page.cards) \in 0 .. Len(page.cards)
    BY PageLists
  <2>2. QED
    BY <2>1, CardsReading
<1>4. \A i \in 1 .. n, r \in T : next[i][r] \in T
  BY <1>2
<1> HIDE DEF next, T, n, base
<1>5. PICK f \in [0 .. n -> T] : f[0] = base /\ \A i \in 1 .. n : f[i] = next[i][f[i - 1]]
  <2>1. n \in Nat
    BY <1>1
  <2>2. \E f \in [0 .. n -> T] : Reads(f, n, base, next)
    BY <2>1, <1>3, <1>4, ReadingExists
  <2>3. QED
    BY <2>2 DEF Reads
<1>6. \A i \in 1 .. n : f[i] = Row(page, f[i - 1], page.board[i])
  <2> SUFFICES ASSUME NEW i \in 1 .. n PROVE f[i] = Row(page, f[i - 1], page.board[i])
    OBVIOUS
  <2>1. i - 1 \in 0 .. n
    BY <1>1
  <2>2. f[i - 1] \in T
    BY <2>1
  <2>3. next[i][f[i - 1]] = Row(page, f[i - 1], page.board[i])
    BY <2>2 DEF next
  <2>4. QED
    BY <1>5, <2>3
<1>7. Loop(f)
  <2>1. \A i \in 0 .. n : f[i] = IF i = 0 THEN base ELSE Row(page, f[i - 1], page.board[i])
    BY <1>1, <1>5, <1>6
  <2>2. QED
    BY <2>1
<1>8. BoardRead(page) = read
  BY DEF BoardRead, n, base
<1>9. Loop(read)
  BY <1>7
<1> HIDE DEF read
<1>10. read[0] = base /\ \A i \in 1 .. n : read[i] = Row(page, read[i - 1], page.board[i])
  BY <1>1, <1>9
<1>11. \A k \in 0 .. n : read[k] \in T
  <2> DEFINE B == {k \in 0 .. n : read[k] \in T}
  <2>1. 0 \in B
    BY <1>1, <1>3, <1>10
  <2>2. ASSUME NEW k \in 0 .. n - 1, k \in B PROVE k + 1 \in B
    <3>1. k + 1 \in 1 .. n /\ (k + 1) - 1 = k
      BY <1>1
    <3>2. read[k + 1] = Row(page, read[k], page.board[k + 1])
      BY <1>10, <3>1
    <3>3. QED
      BY <1>1, <1>2, <2>2, <3>1, <3>2
  <2> HIDE DEF B
  <2>3. \A k \in 0 .. n : k \in B
    BY <1>1, <2>1, <2>2, AlongTheList
  <2>4. QED
    BY <2>3 DEF B
<1>12. read \in [0 .. n -> T]
  BY <1>9, <1>11
<1>13. QED
  BY <1>8, <1>10, <1>12 DEF n, T, base

-----------------------------------------------------------------------------
\* What the first entries of the cards and of the board say of a slug.
CardsOf(page, k, s) == {i \in 1 .. k : page.cards[i].slug = s}
CousinsOf(page, k, s) == {i \in 1 .. k : Key[page.cards[i].label] = s}
RowsOf(page, k, s) == {i \in 1 .. k : SlugOf(page, page.board[i].label) = s}
KinOf(page, k, s) == {i \in 1 .. k : Key[page.board[i].label] = s /\ SlugOf(page, page.board[i].label) # None}

CardScore(page, k, s) ==
    IF CardsOf(page, k, s) # {} THEN page.cards[Max(CardsOf(page, k, s))].score
    ELSE IF CousinsOf(page, k, s) # {} THEN page.cards[Min(CousinsOf(page, k, s))].score
    ELSE None
BoardScore(page, k, s) ==
    IF RowsOf(page, k, s) # {} THEN page.board[Max(RowsOf(page, k, s))].score
    ELSE IF CardsOf(page, Len(page.cards), s) = {} /\ KinOf(page, k, s) # {}
         THEN page.board[Min(KinOf(page, k, s))].score
    ELSE CardScore(page, Len(page.cards), s)

CardsInv(page, k) ==
    LET read == CardsRead(page)[k] IN
    /\ read.own = {s \in Slugs : CardsOf(page, k, s) # {}}
    /\ read.claimed = {}
    /\ \A s \in Slugs : read.scores[s] = CardScore(page, k, s)
BoardInv(page, k) ==
    LET read == BoardRead(page)[k] IN
    /\ read.own = {s \in Slugs : CardsOf(page, Len(page.cards), s) # {} \/ RowsOf(page, k, s) # {}}
    /\ \A s \in Slugs \ read.own : s \in read.claimed <=> KinOf(page, k, s) # {}
    /\ \A s \in Slugs : read.scores[s] = BoardScore(page, k, s)

\* One more entry is the last of its kind, and the first if there was none.
LEMMA OneMore ==
    ASSUME NEW k \in Nat, NEW S \in SUBSET (1 .. k)
    PROVE  /\ Max(S \cup {k + 1}) = k + 1
           /\ S # {} => Min(S \cup {k + 1}) = Min(S)
           /\ S = {} => Min(S \cup {k + 1}) = k + 1
<1> DEFINE U == S \cup {k + 1}
<1>1. U \in SUBSET (1 .. k + 1) /\ U # {} /\ k + 1 \in Nat
  OBVIOUS
<1>2. /\ Max(U) \in U /\ \A x \in U : x <= Max(U)
      /\ Min(U) \in U /\ \A x \in U : Min(U) <= x
  BY <1>1, ExtremesOf
<1>3. /\ \A x \in S : x \in Nat /\ x < k + 1 /\ x \in U
      /\ \A x \in U : x \in Nat /\ (x \in S \/ x = k + 1)
      /\ k + 1 \in U
  OBVIOUS
<1> HIDE DEF U
<1>4. Max(U) = k + 1
  BY <1>2, <1>3
<1>5. S = {} => Min(U) = k + 1
  BY <1>2, <1>3
<1>6. ASSUME S # {} PROVE Min(U) = Min(S)
  <2>1. Min(S) \in S /\ \A x \in S : Min(S) <= x
    BY <1>6, ExtremesOf
  <2> DEFINE a == Min(S)
             b == Min(U)
  <2>2. a \in Nat /\ a < k + 1 /\ a \in U /\ b \in Nat /\ (b \in S \/ b = k + 1)
    BY <1>2, <1>3, <2>1
  <2>3. b <= a
    BY <1>2, <2>2
  <2> HIDE DEF a, b
  <2>4. b \in S
    BY <2>2, <2>3
  <2>5. a <= b
    BY <2>1, <2>4 DEF a
  <2>6. a = b
    BY <2>2, <2>3, <2>5
  <2>7. QED
    BY <2>6 DEF a, b
<1>7. QED
  BY <1>4, <1>5, <1>6 DEF U

LEMMA CardsReadSoFar ==
    ASSUME NEW page, IsPage(page), None \notin Slugs
    PROVE  CardsInv(page, Len(page.cards))
<1> DEFINE n == Len(page.cards)
           B == {k \in 0 .. n : CardsInv(page, k)}
<1>1. n \in Nat /\ DOMAIN page.cards = 1 .. n
  BY PageLists
<1>2. /\ CardsRead(page)[0] = Unread
      /\ \A k \in 0 .. n : CardsRead(page)[k] \in Readings(Given(page))
      /\ \A i \in 1 .. n : CardsRead(page)[i] = Card(CardsRead(page)[i - 1], page.cards[i])
  BY CardsReading
<1>3. 0 \in B
  <2>1. \A s : CardsOf(page, 0, s) = {} /\ CousinsOf(page, 0, s) = {}
    BY DEF CardsOf, CousinsOf
  <2>2. CardsInv(page, 0)
    BY <1>2, <2>1 DEF CardsInv, CardScore, Unread, NoScores
  <2>3. QED
    BY <1>1, <2>2
<1>4. ASSUME NEW k \in 0 .. n - 1, k \in B PROVE k + 1 \in B
  <2> DEFINE read == CardsRead(page)[k]
             card == page.cards[k + 1]
             now == CardsRead(page)[k + 1]
  <2>1. k \in Nat /\ k + 1 \in 1 .. n /\ k + 1 \in 0 .. n /\ k \in 0 .. n /\ (k + 1) - 1 = k
    BY <1>1
  <2>2. now = Card(read, card) /\ read \in Readings(Given(page))
    BY <1>2, <2>1
  <2>3. card.slug \in Slugs /\ Key[card.label] \in Slugs /\ card.score \in Given(page)
        /\ card.score # None
    BY <1>1, <2>1 DEF IsPage, Given
  <2>4. CardsInv(page, k)
    BY <1>4
  <2>5. /\ now.own = read.own \cup {card.slug}
        /\ now.claimed = read.claimed
        /\ \A s \in Slugs : now.scores[s] =
              IF s = card.slug THEN card.score
              ELSE IF s = Key[card.label] /\ s \notin read.own /\ read.scores[s] = None
                   THEN card.score
              ELSE read.scores[s]
    BY <2>2, <2>3, CardWrites
  <2>6. /\ read.own = {s \in Slugs : CardsOf(page, k, s) # {}}
        /\ read.claimed = {}
        /\ \A s \in Slugs : read.scores[s] = CardScore(page, k, s)
    BY <2>4 DEF CardsInv
  <2>7. \A s : /\ CardsOf(page, k, s) \in SUBSET (1 .. k)
               /\ CousinsOf(page, k, s) \in SUBSET (1 .. k)
    BY DEF CardsOf, CousinsOf
  <2>8. \A s : CardsOf(page, k + 1, s) =
                  IF s = card.slug THEN CardsOf(page, k, s) \cup {k + 1} ELSE CardsOf(page, k, s)
    BY <2>1 DEF CardsOf
  <2>9. \A s : CousinsOf(page, k + 1, s) =
                  IF s = Key[card.label] THEN CousinsOf(page, k, s) \cup {k + 1} ELSE CousinsOf(page, k, s)
    BY <2>1 DEF CousinsOf
  <2>10. \A i \in 1 .. k : page.cards[i].score # None
    <3>1. \A i \in 1 .. k : i \in 1 .. n
      BY <1>1
    <3>2. \A i \in 1 .. n : page.cards[i].score # None
      BY <1>1 DEF IsPage
    <3>3. QED
      BY <3>1, <3>2
  <2> HIDE DEF read, card, now
  <2>11. now.own = {s \in Slugs : CardsOf(page, k + 1, s) # {}}
    BY <2>3, <2>5, <2>6, <2>8
  <2>12. ASSUME NEW s \in Slugs PROVE now.scores[s] = CardScore(page, k + 1, s)
    <3>1. CASE s = card.slug
      <4>1. CardsOf(page, k + 1, s) = CardsOf(page, k, s) \cup {k + 1}
        BY <2>8, <3>1
      <4>2. Max(CardsOf(page, k + 1, s)) = k + 1
        BY <2>1, <2>7, <4>1, OneMore
      <4>3. CardScore(page, k + 1, s) = card.score
        BY <4>1, <4>2 DEF CardScore, card
      <4>4. QED
        BY <2>5, <3>1, <4>3
    <3>2. CASE s # card.slug /\ CardsOf(page, k, s) # {}
      <4>1. now.scores[s] = CardScore(page, k, s)
        BY <2>5, <2>6, <3>2
      <4>2. QED
        BY <2>8, <3>2, <4>1 DEF CardScore
    <3>3. CASE s # card.slug /\ CardsOf(page, k, s) = {} /\ s # Key[card.label]
      <4>1. now.scores[s] = CardScore(page, k, s)
        BY <2>5, <2>6, <3>3
      <4>2. QED
        BY <2>8, <2>9, <3>3, <4>1 DEF CardScore
    <3>4. CASE s # card.slug /\ CardsOf(page, k, s) = {} /\ s = Key[card.label] /\ CousinsOf(page, k, s) = {}
      <4>1. now.scores[s] = card.score
        BY <2>5, <2>6, <3>4 DEF CardScore
      <4>2. CardsOf(page, k + 1, s) = {} /\ CousinsOf(page, k + 1, s) = CousinsOf(page, k, s) \cup {k + 1}
        BY <2>8, <2>9, <3>4
      <4>3. Min(CousinsOf(page, k + 1, s)) = k + 1
        BY <2>1, <2>7, <3>4, <4>2, OneMore, ZenonT(60)
      <4>4. QED
        BY <4>1, <4>2, <4>3 DEF CardScore, card
    <3>5. CASE s # card.slug /\ CardsOf(page, k, s) = {} /\ s = Key[card.label] /\ CousinsOf(page, k, s) # {}
      <4>1. Min(CousinsOf(page, k, s)) \in 1 .. k
        BY <2>1, <2>7, <3>5, ExtremesOf
      <4>2. CardScore(page, k, s) = page.cards[Min(CousinsOf(page, k, s))].score
        BY <3>5 DEF CardScore
      <4>3. read.scores[s] # None
        BY <2>6, <2>10, <4>1, <4>2
      <4>4. now.scores[s] = CardScore(page, k, s)
        BY <2>5, <2>6, <3>5, <4>3
      <4>5. CardsOf(page, k + 1, s) = {} /\ CousinsOf(page, k + 1, s) = CousinsOf(page, k, s) \cup {k + 1}
        BY <2>8, <2>9, <3>5
      <4>6. Min(CousinsOf(page, k + 1, s)) = Min(CousinsOf(page, k, s))
        BY <2>1, <2>7, <3>5, <4>5, OneMore
      <4>7. QED
        BY <4>2, <4>4, <4>5, <4>6 DEF CardScore
    <3>6. QED
      BY <3>1, <3>2, <3>3, <3>4, <3>5
  <2>13. CardsInv(page, k + 1)
    BY <2>5, <2>6, <2>11, <2>12 DEF CardsInv, now
  <2>14. QED
    BY <2>1, <2>13
<1> HIDE DEF B
<1>5. \A k \in 0 .. n : k \in B
  BY <1>1, <1>3, <1>4, AlongTheList
<1>6. QED
  BY <1>1, <1>5 DEF B

LEMMA BoardReadSoFar ==
    ASSUME NEW page, IsPage(page), None \notin Slugs
    PROVE  BoardInv(page, Len(page.board))
<1> DEFINE n == Len(page.board)
           N == Len(page.cards)
           B == {k \in 0 .. n : BoardInv(page, k)}
<1>1. n \in Nat /\ DOMAIN page.board = 1 .. n
  BY PageLists
<1>2. /\ BoardRead(page)[0] = CardsRead(page)[N]
      /\ \A k \in 0 .. n : BoardRead(page)[k] \in Readings(Given(page))
      /\ \A i \in 1 .. n : BoardRead(page)[i] = Row(page, BoardRead(page)[i - 1], page.board[i])
  BY BoardReading
<1>3. 0 \in B
  <2>1. \A s : RowsOf(page, 0, s) = {} /\ KinOf(page, 0, s) = {}
    BY DEF RowsOf, KinOf
  <2>2. CardsInv(page, N)
    BY CardsReadSoFar
  <2>3. BoardInv(page, 0)
    BY <1>2, <2>1, <2>2 DEF CardsInv, BoardInv, BoardScore
  <2>4. QED
    BY <1>1, <2>3
<1>4. ASSUME NEW k \in 0 .. n - 1, k \in B PROVE k + 1 \in B
  <2> DEFINE read == BoardRead(page)[k]
             row == page.board[k + 1]
             slug == SlugOf(page, row.label)
             key == Key[row.label]
             now == BoardRead(page)[k + 1]
  <2>1. k \in Nat /\ k + 1 \in 1 .. n /\ k + 1 \in 0 .. n /\ k \in 0 .. n /\ (k + 1) - 1 = k
    BY <1>1
  <2>2. now = Row(page, read, row) /\ read \in Readings(Given(page))
    BY <1>2, <2>1
  <2>3. key \in Slugs /\ row.score \in Given(page)
    BY <1>1, <2>1 DEF IsPage, Given
  <2>4. BoardInv(page, k)
    BY <1>4
  <2>5. /\ read.own = {s \in Slugs : CardsOf(page, N, s) # {} \/ RowsOf(page, k, s) # {}}
        /\ \A s \in Slugs \ read.own : s \in read.claimed <=> KinOf(page, k, s) # {}
        /\ \A s \in Slugs : read.scores[s] = BoardScore(page, k, s)
    BY <2>4 DEF BoardInv
  <2>6. \A s : /\ RowsOf(page, k, s) \in SUBSET (1 .. k)
               /\ KinOf(page, k, s) \in SUBSET (1 .. k)
    BY DEF RowsOf, KinOf
  <2>7. \A s : RowsOf(page, k + 1, s) =
                  IF s = slug THEN RowsOf(page, k, s) \cup {k + 1} ELSE RowsOf(page, k, s)
    BY <2>1 DEF RowsOf
  <2>8. \A s : KinOf(page, k + 1, s) =
                  IF s = key /\ slug # None THEN KinOf(page, k, s) \cup {k + 1} ELSE KinOf(page, k, s)
    BY <2>1 DEF KinOf
  <2>9. CASE slug = None
    <3>1. now = read
      BY <2>2, <2>9 DEF Row
    <3>2. \A s \in Slugs : RowsOf(page, k + 1, s) = RowsOf(page, k, s)
      BY <2>7, <2>9
    <3>3. \A s \in Slugs : KinOf(page, k + 1, s) = KinOf(page, k, s)
      BY <2>8, <2>9
    <3>4. \A s \in Slugs : BoardScore(page, k + 1, s) = BoardScore(page, k, s)
      BY <3>2, <3>3 DEF BoardScore
    <3> HIDE DEF read, now
    <3>5. BoardInv(page, k + 1)
      <4>1. now.own = {s \in Slugs : CardsOf(page, N, s) # {} \/ RowsOf(page, k + 1, s) # {}}
        BY <2>5, <3>1, <3>2
      <4>2. \A s \in Slugs \ now.own : s \in now.claimed <=> KinOf(page, k + 1, s) # {}
        BY <2>5, <3>1, <3>3
      <4>3. \A s \in Slugs : now.scores[s] = BoardScore(page, k + 1, s)
        BY <2>5, <3>1, <3>4
      <4>4. QED
        BY <4>1, <4>2, <4>3 DEF BoardInv, now
    <3>6. QED
      BY <2>1, <3>5
  <2>10. CASE slug # None
    <3>1. slug \in Slugs
      BY <2>10, SlugsOfLabels
    <3>2. /\ now.own = read.own \cup {slug}
          /\ \A s \in Slugs : s # slug /\ s \notin read.own =>
                (s \in now.claimed <=> s \in read.claimed \/ s = key)
          /\ \A s \in Slugs : now.scores[s] =
                IF s = slug THEN row.score
                ELSE IF s = key /\ s \notin read.own \cup read.claimed THEN row.score
                ELSE read.scores[s]
      BY <2>2, <2>3, <3>1, RowWrites
    <3> HIDE DEF read, now, slug, key
    <3>3. now.own = {s \in Slugs : CardsOf(page, N, s) # {} \/ RowsOf(page, k + 1, s) # {}}
      <4>1. \A s : RowsOf(page, k + 1, s) # {} <=> RowsOf(page, k, s) # {} \/ s = slug
        BY <2>7
      <4>2. QED
        BY <2>5, <3>1, <3>2, <4>1
    <3>4. \A s \in Slugs \ now.own : s \in now.claimed <=> KinOf(page, k + 1, s) # {}
      <4>1. \A s : KinOf(page, k + 1, s) # {} <=> KinOf(page, k, s) # {} \/ s = key
        BY <2>8, <2>10
      <4>2. QED
        BY <2>5, <3>2, <4>1
    <3>5. ASSUME NEW s \in Slugs PROVE now.scores[s] = BoardScore(page, k + 1, s)
      <4>1. CASE s = slug
        <5>1. RowsOf(page, k + 1, s) = RowsOf(page, k, s) \cup {k + 1}
          BY <2>7, <4>1
        <5>2. Max(RowsOf(page, k + 1, s)) = k + 1
          BY <2>1, <2>6, <5>1, OneMore
        <5>3. BoardScore(page, k + 1, s) = row.score
          BY <5>1, <5>2 DEF BoardScore
        <5>4. QED
          BY <3>2, <4>1, <5>3
      <4>2. CASE s # slug /\ s \in read.own
        <5>1. now.scores[s] = BoardScore(page, k, s)
          BY <2>5, <3>2, <4>2
        <5>2. CardsOf(page, N, s) # {} \/ RowsOf(page, k, s) # {}
          BY <2>5, <4>2
        <5>3. RowsOf(page, k + 1, s) = RowsOf(page, k, s)
          BY <2>7, <4>2
        <5>4. QED
          BY <5>1, <5>2, <5>3 DEF BoardScore
      <4>3. CASE s # slug /\ s \notin read.own /\ s # key
        <5>1. now.scores[s] = BoardScore(page, k, s)
          BY <2>5, <3>2, <4>3
        <5>2. RowsOf(page, k + 1, s) = RowsOf(page, k, s) /\ KinOf(page, k + 1, s) = KinOf(page, k, s)
          BY <2>7, <2>8, <4>3
        <5>3. QED
          BY <5>1, <5>2 DEF BoardScore
      <4>4. CASE s # slug /\ s \notin read.own /\ s = key
        <5>1. RowsOf(page, k + 1, s) = {} /\ RowsOf(page, k, s) = {} /\ CardsOf(page, N, s) = {}
          BY <2>5, <2>7, <4>4
        <5>2. KinOf(page, k + 1, s) = KinOf(page, k, s) \cup {k + 1}
          BY <2>8, <2>10, <4>4
        <5>3. BoardScore(page, k + 1, s) = page.board[Min(KinOf(page, k + 1, s))].score
          BY <5>1, <5>2 DEF BoardScore
        <5>4. CASE KinOf(page, k, s) = {}
          <6>1. s \notin read.claimed
            BY <2>5, <4>4, <5>4
          <6>2. now.scores[s] = row.score
            BY <3>2, <4>4, <6>1
          <6>3. Min(KinOf(page, k + 1, s)) = k + 1
            BY <2>1, <2>6, <5>2, <5>4, OneMore
          <6>4. QED
            BY <5>3, <6>2, <6>3
        <5>5. CASE KinOf(page, k, s) # {}
          <6>1. s \in read.claimed
            BY <2>5, <4>4, <5>5
          <6>2. now.scores[s] = BoardScore(page, k, s)
            BY <2>5, <3>2, <4>4, <6>1
          <6>3. BoardScore(page, k, s) = page.board[Min(KinOf(page, k, s))].score
            BY <5>1, <5>5 DEF BoardScore
          <6>4. Min(KinOf(page, k + 1, s)) = Min(KinOf(page, k, s))
            BY <2>1, <2>6, <5>2, <5>5, OneMore
          <6>5. QED
            BY <5>3, <6>2, <6>3, <6>4
        <5>6. QED
          BY <5>4, <5>5
      <4>5. QED
        BY <4>1, <4>2, <4>3, <4>4
    <3>6. BoardInv(page, k + 1)
      BY <3>3, <3>4, <3>5 DEF BoardInv, now
    <3>7. QED
      BY <2>1, <3>6
  <2>11. QED
    BY <2>9, <2>10
<1> HIDE DEF B
<1>5. \A k \in 0 .. n : k \in B
  BY <1>1, <1>3, <1>4, AlongTheList
<1>6. QED
  BY <1>1, <1>5 DEF B

\* Whatever the page lists, and in whatever order, the loop leaves of a slug the
\* score of its own row, or of its card, or of the best of its family
\* (extractGdpvalScores).
THEOREM PagesReadAsRated ==
    ASSUME NEW page, IsPage(page), None \notin Slugs
    PROVE  ExtractGdpvalScores(page) = [s \in Slugs |-> RatedBy(page, s)]
<1> DEFINE n == Len(page.board)
           N == Len(page.cards)
           scores == ExtractGdpvalScores(page)
<1>1. n \in Nat /\ DOMAIN page.board = 1 .. n /\ DOMAIN page.cards = 1 .. N
  BY PageLists
<1>2. DOMAIN scores = Slugs /\ scores = [s \in Slugs |-> scores[s]]
  <2>1. BoardRead(page)[n] \in Readings(Given(page))
    BY <1>1, BoardReading
  <2>2. QED
    BY <2>1 DEF ExtractGdpvalScores, Readings
<1>3. \A s \in Slugs : scores[s] = BoardScore(page, n, s)
  BY BoardReadSoFar DEF BoardInv, ExtractGdpvalScores
<1>4. ASSUME NEW s \in Slugs PROVE BoardScore(page, n, s) = RatedBy(page, s)
  <2> DEFINE rows == RowsOf(page, n, s)
             cards == CardsOf(page, N, s)
             kin == KinOf(page, n, s)
             cousins == CousinsOf(page, N, s)
  <2>1. RatedBy(page, s) =
           CASE rows # {} -> page.board[Max(rows)].score
             [] rows = {} /\ cards # {} -> page.cards[Max(cards)].score
             [] rows = {} /\ cards = {} /\ kin # {} -> page.board[Min(kin)].score
             [] rows \cup cards \cup kin = {} /\ cousins # {} -> page.cards[Min(cousins)].score
             [] OTHER -> None
    BY <1>1 DEF RatedBy, RowsOf, CardsOf, KinOf, CousinsOf
  <2>2. BoardScore(page, n, s) =
           IF rows # {} THEN page.board[Max(rows)].score
           ELSE IF cards = {} /\ kin # {} THEN page.board[Min(kin)].score
           ELSE IF cards # {} THEN page.cards[Max(cards)].score
           ELSE IF cousins # {} THEN page.cards[Min(cousins)].score
           ELSE None
    BY DEF BoardScore, CardScore
  <2> HIDE DEF rows, cards, kin, cousins
  <2>3. CASE rows # {}
    BY <2>1, <2>2, <2>3
  <2>4. CASE rows = {} /\ cards # {}
    BY <2>1, <2>2, <2>4
  <2>5. CASE rows = {} /\ cards = {} /\ kin # {}
    BY <2>1, <2>2, <2>5
  <2>6. CASE rows = {} /\ cards = {} /\ kin = {} /\ cousins # {}
    BY <2>1, <2>2, <2>6
  <2>7. CASE rows = {} /\ cards = {} /\ kin = {} /\ cousins = {}
    BY <2>1, <2>2, <2>7
  <2>8. QED
    BY <2>3, <2>4, <2>5, <2>6, <2>7
<1>5. QED
  BY <1>2, <1>3, <1>4

-----------------------------------------------------------------------------
(***************************************************************************)
(* Prices and registration: RegInv is inductive, with PricesInv in it.     *)
(***************************************************************************)

\* What a lookup reads is what some configuration, some list of prices of the
\* scene gives; the rest of the beliefs may be anything.
PricesInv ==
    /\ scene \in Scenes
    /\ file \in scene.configs /\ cfg \in scene.configs
    /\ registry \in scene.prices

\* The local models a scan knows of are named as the daemon names them, and
\* pi's list of them holds entries; a name is pi's only when it is built in.
Locals(refs) == {r \in refs : IsLocal(r)}
RegInv ==
    /\ PricesInv
    /\ models \in scene.models
    /\ Locals(found) \subseteq Spelled(scene) /\ Locals(scan.new) \subseteq Spelled(scene)
    /\ overlay = None \/ overlay \subseteq EntryOf
    /\ DOMAIN owner = Names
    /\ \A n \in Names : owner[n] = "pi" => n \in PiOwn

-----------------------------------------------------------------------------
LEMMA PricesInvInit == RegInit => PricesInv
BY DEF RegInit, MetricsInit, PricesInv

\* One of the files' configurations is read, edited or kept, by whatever step.
LEMMA PricesInvStep ==
    ASSUME PricesInv, [RegNext]_allVars
    PROVE  PricesInv'
<1>1. ASSUME NEW fits \in BOOLEAN, StartsSession(fits) PROVE PricesInv'
  BY <1>1 DEF PricesInv, StartsSession, SessionStart
<1>2. ASSUME Step PROVE PricesInv'
  <2>1. ASSUME NEW fits \in BOOLEAN, Load(fits) PROVE PricesInv'
    BY <2>1 DEF PricesInv, Load, costVars
  <2>2. ASSUME NEW r \in Refs, NEW fits \in BOOLEAN, ToolReports(r, fits) PROVE PricesInv'
    BY <2>2 DEF PricesInv, ToolReports
  <2>3. ASSUME NEW r \in Refs, Looks(r) PROVE PricesInv'
    BY <2>3 DEF PricesInv, Looks
  <2>4. ASSUME NEW force \in BOOLEAN, Scrape(force) PROVE PricesInv'
    BY <2>4 DEF PricesInv, Scrape, costVars
  <2>5. CASE NoScrape
    BY <2>5 DEF PricesInv, NoScrape, costVars
  <2>6. CASE Prices
    BY <2>6 DEF PricesInv, Prices
  <2>7. CASE CatalogsAreFresh
    BY <2>7 DEF PricesInv, CatalogsAreFresh, costVars
  <2>8. CASE ScanSaves \/ Saves
    BY <2>8 DEF PricesInv, ScanSaves, Saves, Saved, costVars
  <2>9. CASE Generate
    BY <2>9 DEF PricesInv, Generate, costVars
  <2>10. CASE DaemonIsDown
    BY <2>10 DEF PricesInv, DaemonIsDown
  <2>11. ASSUME NEW tags \in scene.tags, Daemon(tags) PROVE PricesInv'
    BY <2>11 DEF PricesInv, Daemon
  <2>12. ASSUME NEW c \in scene.configs, Edits(c) PROVE PricesInv'
    BY <2>12 DEF PricesInv, Edits, costVars
  <2>13. CASE RegistryChanges
    BY <2>13 DEF PricesInv, RegistryChanges
  <2>14. CASE OthersSave
    BY <2>14 DEF PricesInv, OthersSave, costVars
  <2>15. QED
    BY <1>2, <2>1, <2>2, <2>3, <2>4, <2>5, <2>6, <2>7, <2>8, <2>9, <2>10, <2>11, <2>12,
       <2>13, <2>14 DEF Step
<1>3. CASE EditsModels
  BY <1>3 DEF PricesInv, EditsModels, metricsVars, costVars
<1>4. ASSUME NEW n \in scene.others, OtherRegisters(n) PROVE PricesInv'
  BY <1>4 DEF PricesInv, OtherRegisters, metricsVars, costVars
<1>5. CASE UNCHANGED allVars
  BY <1>5 DEF PricesInv, allVars, metricsVars, costVars
<1>6. QED
  BY <1>1, <1>2, <1>3, <1>4, <1>5 DEF RegNext

-----------------------------------------------------------------------------
\* The registry has a price of a model, or knows nothing of it.
LEMMA RegistryPrices ==
    ASSUME PricesInv, NEW r \in Refs
    PROVE  RegistryCost(r) \in {None, "registry"}
<1>1. registry[r] \in {None, "zero", "registry"}
  BY PriceAssumption DEF PricesInv
<1>2. CASE ~published
  BY <1>2 DEF RegistryCost
<1>3. CASE published /\ registry[r] # None
  BY <1>1, <1>3 DEF RegistryCost
<1>4. CASE published /\ registry[r] = None
  BY <1>4 DEF RegistryCost
<1>5. QED
  BY <1>2, <1>3, <1>4

\* A price resolved anew is zero only for a model that is free or flat, and
\* unknown only for one that is paid by the token.
LEMMA ResolvedPrices ==
    ASSUME PricesInv, NEW r \in Refs
    PROVE  /\ ResolveCostPerM(cfg, r) = "zero" =>
                 RegistryCost(r) = None /\ (Kind[r] = "subscription" \/ IsFreeModelRef(cfg, r))
           /\ ResolveCostPerM(cfg, r) = "unknown" =>
                 RegistryCost(r) = None /\ Kind[r] = "pay_per_token" /\ ~IsFreeModelRef(cfg, r)
<1>1. RegistryCost(r) \in {None, "registry"} /\ None \notin {"zero", "unknown"}
  BY RegistryPrices, PriceAssumption
<1>2. Kind[r] \in {"subscription", "pay_per_token", "local"}
  BY PriceAssumption
<1>3. CASE RegistryCost(r) # None
  BY <1>1, <1>3 DEF ResolveCostPerM
<1>4. CASE RegistryCost(r) = None /\ (Kind[r] = "subscription" \/ IsFreeModelRef(cfg, r))
  BY <1>4 DEF ResolveCostPerM
<1>5. CASE RegistryCost(r) = None /\ ~(Kind[r] = "subscription" \/ IsFreeModelRef(cfg, r))
  <2>1. ResolveCostPerM(cfg, r) = "unknown"
    BY <1>5 DEF ResolveCostPerM
  <2>2. Kind[r] = "pay_per_token"
    BY <1>2, <1>5 DEF IsFreeModelRef
  <2>3. QED
    BY <1>5, <2>1, <2>2
<1>6. QED
  BY <1>3, <1>4, <1>5

\* What is kept of a model: a placeholder is resolved anew, and whatever else is
\* kept or configured is neither of the two.
LEMMA KeptPrices ==
    ASSUME PricesInv, NEW r \in Refs, GetM(cfg, r) \in {"zero", "unknown"}
    PROVE  GetM(cfg, r) = ResolveCostPerM(cfg, r)
<1>1. cfg.cost[r] \in {None, "zero", "user"} /\ None \notin {"zero", "unknown", "user"}
  BY PriceAssumption DEF PricesInv
<1>2. CASE pinned[r] \in {"zero", "unknown"}
  BY <1>1, <1>2 DEF GetM
<1>3. CASE pinned[r] = None
  <2>1. GetM(cfg, r) = IF cfg.cost[r] \in {None, "zero"} THEN ResolveCostPerM(cfg, r) ELSE cfg.cost[r]
    BY <1>1, <1>3 DEF GetM
  <2>2. QED
    BY <1>1, <2>1
<1>4. CASE pinned[r] \notin {"zero", "unknown", None}
  <2>1. GetM(cfg, r) = pinned[r]
    BY <1>4 DEF GetM
  <2>2. QED
    BY <1>4, <2>1
<1>5. QED
  BY <1>2, <1>3, <1>4

\* A list price of zero belongs to a model that is given away.
LEMMA ListedPrices ==
    ASSUME PricesInv, NEW r \in Refs, LookupListPrice(r) = "zero"
    PROVE  IsFreeModelRef(cfg, r)
<1>1. RegistryCost(r) \in {None, "registry"} /\ None # "zero"
  BY RegistryPrices, PriceAssumption
<1>2. OrFallbackPrice(r) = "zero"
  BY <1>1 DEF LookupListPrice
<1>3. pricing[r] # "or"
  BY <1>2 DEF OrFallbackPrice
<1>4. CASE pricing[r] = "zero"
  <2>1. OrFallbackPrice(r) = IF r \in found \cup cfg.free THEN "zero" ELSE "unknown"
    BY <1>4 DEF OrFallbackPrice
  <2>2. QED
    BY <1>2, <2>1 DEF IsFreeModelRef
<1>5. CASE pricing[r] # "zero"
  <2>1. OrFallbackPrice(r) = IF Same[r] # None /\ pricing[Same[r]] = "or" THEN "or" ELSE None
    BY <1>3, <1>5 DEF OrFallbackPrice
  <2>2. QED
    BY <1>1, <1>2, <2>1
<1>6. QED
  BY <1>4, <1>5

LEMMA HonestState == PricesInv => PricesHonest
<1> SUFFICES ASSUME PricesInv, NEW r \in Refs
             PROVE  /\ EffCost(r) = "zero" =>
                          IsFreeModelRef(cfg, r) /\ Kind[r] # "subscription" /\ RegistryCost(r) = None
                    /\ LookupPrice(r) = "zero" => IsFreeModelRef(cfg, r) \/ cfg.cost[r] = "zero"
                    /\ EffCost(r) = "unknown" =>
                          RegistryCost(r) = None /\ Kind[r] = "pay_per_token" /\ ~IsFreeModelRef(cfg, r)
  BY DEF PricesHonest
<1>1. GetM(cfg, r) \in {"zero", "unknown"} => GetM(cfg, r) = ResolveCostPerM(cfg, r)
  BY KeptPrices
<1>2. SunkCost(r) \in {"epsilon", "fallback"}
  BY DEF SunkCost
<1>3. EffCost(r) = "zero" => GetM(cfg, r) = "zero" /\ Kind[r] # "subscription"
  BY <1>2 DEF EffCost
<1>4. EffCost(r) = "unknown" => GetM(cfg, r) = "unknown"
  BY <1>2 DEF EffCost
<1>5. /\ ResolveCostPerM(cfg, r) = "zero" =>
            RegistryCost(r) = None /\ (Kind[r] = "subscription" \/ IsFreeModelRef(cfg, r))
      /\ ResolveCostPerM(cfg, r) = "unknown" =>
            RegistryCost(r) = None /\ Kind[r] = "pay_per_token" /\ ~IsFreeModelRef(cfg, r)
  BY ResolvedPrices
<1>6. LookupPrice(r) = "zero" => cfg.cost[r] = "zero" \/ LookupListPrice(r) = "zero"
  BY DEF LookupPrice
<1>7. LookupListPrice(r) = "zero" => IsFreeModelRef(cfg, r)
  BY ListedPrices
<1>8. QED
  BY <1>1, <1>3, <1>4, <1>5, <1>6, <1>7

\* A placeholder never passes for a price, whatever was looked up, loaded, scanned
\* and edited before (getM, resolveCostPerM, effCost, lookupPrice).
THEOREM PlaceholdersNeverPass == RegSpec => []PricesHonest
<1>1. RegInit => PricesInv
  BY PricesInvInit
<1>2. PricesInv /\ [RegNext]_allVars => PricesInv'
  BY PricesInvStep
<1>3. PricesInv => PricesHonest
  BY HonestState
<1>4. QED
  BY <1>1, <1>2, <1>3, PTL DEF RegSpec

-----------------------------------------------------------------------------
\* Entries pi knows have spellings, and are none of the router's unless it
\* registered a list.
LEMMA KnownEntries ==
    ASSUME RegInv
    PROVE  /\ Known \subseteq EntryOf
           /\ Seen \subseteq Known
<1>1. CASE overlay = None
  <2>1. models \subseteq DOMAIN Plain
    BY DaemonAssumption DEF RegInv, PricesInv
  <2>2. QED
    BY <1>1, <2>1 DEF Known, Seen, Entries, EntryOf
<1>2. CASE overlay # None
  BY <1>2 DEF RegInv, Known, Seen
<1>3. QED
  BY <1>1, <1>2

\* What a registration adds is new to pi, spelled as it may, and no two of the
\* entries mean one model; a host that lists its models loses none of them.
LEMMA Registers ==
    ASSUME RegInv, RegisterGroupModels
    PROVE  /\ overlay' = None \/ overlay' \subseteq EntryOf
           /\ overlay' # overlay /\ scene.lists => Known \subseteq Known'
           /\ \A e \in Known' : \A f \in Known' \ Known :
                 overlay' # overlay /\ e # f => Plain[e.id] # Plain[f.id]
<1> DEFINE new == {r \in Scanned : Unseen(r)}
           added == Entries(new, "router")
<1>1. Known \subseteq EntryOf /\ Seen \subseteq Known
  BY KnownEntries
<1>2. new \subseteq Spelled(scene) /\ Spelled(scene) \subseteq DOMAIN Plain
  BY DaemonAssumption DEF RegInv, PricesInv, Scanned, Locals
<1>3. added \subseteq EntryOf
  BY <1>2 DEF Entries, EntryOf
<1>4. \A e \in Seen, f \in added : Plain[e.id] # Plain[f.id]
  BY DEF Entries, Unseen
<1>5. \A e, f \in added : e # f => Plain[e.id] # Plain[f.id]
  <2> SUFFICES ASSUME NEW a \in new, NEW b \in new, Plain[a] = Plain[b]
               PROVE  a = b
    BY DEF Entries
  <2>1. QED
    BY <1>2, DaemonAssumption DEF RegInv, PricesInv
<1>6. CASE new = {}
  <2>1. overlay' = overlay
    BY <1>6 DEF RegisterGroupModels
  <2>2. QED
    BY <2>1 DEF RegInv
<1>7. CASE new # {}
  <2>1. overlay' = Seen \cup added
    BY <1>7 DEF RegisterGroupModels
  <2>2. overlay' \subseteq EntryOf
    BY <1>1, <1>3, <2>1
  <2>3. Known' = Seen \cup added
    <3>1. None # overlay'
      BY <2>2, DaemonAssumption
    <3>2. QED
      BY <2>1, <3>1 DEF Known
  <2>4. scene.lists => Seen = Known
    BY DEF Seen
  <2>5. Known' \ Known \subseteq added
    BY <1>1, <2>3
  <2> HIDE DEF added, new
  <2>6. QED
    BY <1>4, <1>5, <2>2, <2>3, <2>4, <2>5
<1>8. QED
  BY <1>6, <1>7

\* A provider of pi keeps its name, and another extension's loses it only to a
\* group the router had registered under it before.
LEMMA Takes ==
    ASSUME RegInv, NEW groups, RegisterGroupProviders(groups)
    PROVE  /\ DOMAIN owner' = Names
           /\ \A n \in Names : /\ owner'[n] = "pi" => n \in PiOwn
                               /\ owner[n] = "pi" => owner'[n] = "pi"
                               /\ owner[n] = "other" /\ owner'[n] = "router" => n \in ours
<1> DEFINE mine == {g \in groups \ PiOwn : g \in ours \/ owner[g] = None}
<1>1. owner' = [n \in Names |-> IF n \in mine THEN "router" ELSE owner[n]]
  BY DEF RegisterGroupProviders
<1>2. \A n \in Names : owner[n] = "pi" => n \in PiOwn
  BY DEF RegInv
<1>3. \A n \in Names : n \in mine => n \notin PiOwn /\ (n \in ours \/ owner[n] = None)
  OBVIOUS
<1>4. None # "other"
  BY DaemonAssumption
<1> HIDE DEF mine
<1>5. \A n \in Names : owner'[n] = IF n \in mine THEN "router" ELSE owner[n]
  BY <1>1
<1>6. QED
  BY <1>1, <1>2, <1>3, <1>4, <1>5

-----------------------------------------------------------------------------
LEMMA RegInvInit == RegInit => RegInv
<1> SUFFICES ASSUME RegInit PROVE RegInv
  OBVIOUS
<1>1. PricesInv
  BY PricesInvInit
<1>2. found = scene.ghosts /\ scan.new = {}
  BY DEF RegInit, MetricsInit, Waits
<1>3. Locals(found) \subseteq Spelled(scene) /\ Locals(scan.new) \subseteq Spelled(scene)
  BY <1>2 DEF Locals, Spelled
<1>4. owner = [n \in Names |-> IF n \in cfg.groups \ PiOwn THEN "router"
                               ELSE IF n \in PiOwn THEN "pi" ELSE None]
  BY DEF RegInit, Boots
<1>5. None # "pi"
  BY DaemonAssumption
<1>6. DOMAIN owner = Names /\ \A n \in Names : owner[n] = "pi" => n \in PiOwn
  BY <1>4, <1>5
<1>7. QED
  BY <1>1, <1>3, <1>6 DEF RegInv, RegInit

\* The daemon's models reach the scan from the daemon alone.
LEMMA ScansSpell ==
    ASSUME RegInv, Step
    PROVE  Locals(found') \subseteq Spelled(scene) /\ Locals(scan'.new) \subseteq Spelled(scene)
<1>1. Locals(found) \subseteq Spelled(scene) /\ Locals(scan.new) \subseteq Spelled(scene) /\ scene \in Scenes
  BY DEF RegInv, PricesInv
<1>2. \A at : Locals(Waits(at, {}).new) = {}
  BY DEF Locals, Waits
<1>3. CASE scan'.new = {} /\ found' = found
  BY <1>1, <1>3 DEF Locals
<1>4. CASE UNCHANGED <<scan, found>>
  BY <1>1, <1>4
<1>5. ASSUME NEW c \in scene.catalogs,
             scan' = Waits("daemon", {r \in Refs : c[r] = "zero"}), found' = found
      PROVE  Locals(found') \subseteq Spelled(scene) /\ Locals(scan'.new) \subseteq Spelled(scene)
  BY <1>1, <1>5, DaemonAssumption DEF Locals, Waits
<1>6. ASSUME NEW told, Locals(told) \subseteq Spelled(scene), found' = Merged(told), scan'.new = {}
      PROVE  Locals(found') \subseteq Spelled(scene) /\ Locals(scan'.new) \subseteq Spelled(scene)
  BY <1>1, <1>6 DEF Locals, Merged
<1>7. \A tags \in scene.tags : Locals(scan.new \cup tags) \subseteq Spelled(scene)
  BY <1>1 DEF Locals, Spelled
<1>8. UNCHANGED <<scan, found>> \/ (scan'.new = {} /\ found' = found)
      \/ Prices \/ DaemonIsDown \/ \E tags \in scene.tags : Daemon(tags)
  <2>1. (\E fits \in BOOLEAN : Load(fits)) => UNCHANGED <<scan, found>>
    BY DEF Load, costVars
  <2>2. (\E r \in Refs, fits \in BOOLEAN : ToolReports(r, fits)) => UNCHANGED <<scan, found>>
    BY DEF ToolReports
  <2>3. (\E r \in Refs : Looks(r)) => UNCHANGED <<scan, found>>
    BY DEF Looks
  <2>4. (\E force \in BOOLEAN : Scrape(force)) => scan'.new = {} /\ found' = found
    BY DEF Scrape, Waits, costVars
  <2>5. NoScrape \/ CatalogsAreFresh => scan'.new = {} /\ found' = found
    BY DEF NoScrape, CatalogsAreFresh, Waits, costVars
  <2>6. Generate => scan'.new = {} /\ found' = found
    BY DEF Generate, Waits, costVars
  <2>7. ScanSaves => scan'.new = {} /\ found' = found
    BY DEF ScanSaves, Saved, Waits, costVars
  <2>8. Saves => UNCHANGED <<scan, found>>
    BY DEF Saves, Saved, costVars
  <2>9. (\E c \in scene.configs : Edits(c)) => UNCHANGED <<scan, found>>
    BY DEF Edits, costVars
  <2>10. RegistryChanges \/ OthersSave => UNCHANGED <<scan, found>>
    BY DEF RegistryChanges, OthersSave, costVars
  <2>11. QED
    BY <2>1, <2>2, <2>3, <2>4, <2>5, <2>6, <2>7, <2>8, <2>9, <2>10 DEF Step
<1>9. CASE Prices
  <2>1. found' = found
    BY <1>9 DEF Prices
  <2>2. PICK c \in scene.catalogs : scan' = Waits("daemon", {r \in Refs : c[r] = "zero"})
    BY <1>9 DEF Prices
  <2>3. QED
    BY <1>5, <2>1, <2>2
<1>10. CASE DaemonIsDown
  BY <1>1, <1>6, <1>10 DEF DaemonIsDown, Waits
<1>11. ASSUME NEW tags \in scene.tags, Daemon(tags)
       PROVE  Locals(found') \subseteq Spelled(scene) /\ Locals(scan'.new) \subseteq Spelled(scene)
  BY <1>6, <1>7, <1>11 DEF Daemon, Waits
<1>12. QED
  BY <1>3, <1>4, <1>8, <1>9, <1>10, <1>11

LEMMA SceneStays ==
    ASSUME Step \/ \E fits \in BOOLEAN : SessionStart(fits)
    PROVE  scene' = scene
<1>1. (\E fits \in BOOLEAN : Load(fits)) => scene' = scene
  BY DEF Load
<1>2. (\E r \in Refs, fits \in BOOLEAN : ToolReports(r, fits)) => scene' = scene
  BY DEF ToolReports
<1>3. (\E r \in Refs : Looks(r)) => scene' = scene
  BY DEF Looks
<1>4. (\E force \in BOOLEAN : Scrape(force)) => scene' = scene
  BY DEF Scrape
<1>5. NoScrape \/ Prices \/ CatalogsAreFresh \/ Generate => scene' = scene
  BY DEF NoScrape, Prices, CatalogsAreFresh, Generate
<1>6. ScanSaves \/ Saves => scene' = scene
  BY DEF ScanSaves, Saves, Saved
<1>7. DaemonIsDown \/ (\E tags \in scene.tags : Daemon(tags)) => scene' = scene
  BY DEF DaemonIsDown, Daemon
<1>8. (\E c \in scene.configs : Edits(c)) \/ RegistryChanges \/ OthersSave => scene' = scene
  BY DEF Edits, RegistryChanges, OthersSave
<1>9. (\E fits \in BOOLEAN : SessionStart(fits)) => scene' = scene
  BY DEF SessionStart
<1>10. QED
  BY <1>1, <1>2, <1>3, <1>4, <1>5, <1>6, <1>7, <1>8, <1>9 DEF Step

LEMMA RegInvStep ==
    ASSUME RegInv, [RegNext]_allVars
    PROVE  RegInv'
<1>1. PricesInv'
  BY PricesInvStep DEF RegInv
<1>2. ASSUME NEW fits \in BOOLEAN, StartsSession(fits) PROVE RegInv'
  <2>1. /\ SessionStart(fits) /\ RegisterGroupModels /\ RegisterGroupProviders(file.groups)
        /\ models' = models
    BY <1>2 DEF StartsSession
  <2>2. scene' = scene
    BY <2>1, SceneStays
  <2>3. found' = found /\ scan' = scan
    BY <2>1 DEF SessionStart
  <2>4. models' \in scene'.models
    BY <2>1, <2>2 DEF RegInv
  <2>5. Locals(found)' \subseteq Spelled(scene)' /\ Locals(scan.new)' \subseteq Spelled(scene)'
    BY <2>2, <2>3 DEF RegInv
  <2>6. overlay' = None \/ overlay' \subseteq EntryOf
    BY <2>1, Registers
  <2>7. DOMAIN owner' = Names /\ \A n \in Names : owner'[n] = "pi" => n \in PiOwn
    BY <2>1, Takes
  <2>8. QED
    BY <1>1, <2>4, <2>5, <2>6, <2>7 DEF RegInv
<1>3. CASE Step /\ UNCHANGED regVars
  <2>1. scene' = scene
    BY <1>3, SceneStays
  <2>2. Locals(found)' \subseteq Spelled(scene)' /\ Locals(scan.new)' \subseteq Spelled(scene)'
    BY <1>3, <2>1, ScansSpell
  <2>3. QED
    BY <1>1, <1>3, <2>1, <2>2 DEF RegInv, regVars
<1>4. CASE EditsModels
  <2>1. scene' = scene /\ found' = found /\ scan' = scan
    BY <1>4 DEF EditsModels, metricsVars, costVars
  <2>2. QED
    BY <1>1, <1>4, <2>1 DEF RegInv, EditsModels
<1>5. ASSUME NEW n \in scene.others, OtherRegisters(n) PROVE RegInv'
  <2>1. scene' = scene /\ found' = found /\ scan' = scan
    BY <1>5 DEF OtherRegisters, metricsVars, costVars
  <2>2. DOMAIN owner' = Names /\ \A m \in Names : owner'[m] = "pi" => m \in PiOwn
    BY <1>5 DEF RegInv, OtherRegisters
  <2>3. QED
    BY <1>1, <1>5, <2>1, <2>2 DEF RegInv, OtherRegisters
<1>6. CASE UNCHANGED allVars
  BY <1>6 DEF RegInv, PricesInv, allVars, regVars, metricsVars, costVars
<1>7. QED
  BY <1>2, <1>3, <1>4, <1>5, <1>6 DEF RegNext

\* What pi knows of the daemon stays, entry for entry; the router puts no model
\* there twice, and takes no name that is pi's or was never a group's before
\* (registerGroupModels, registerGroupProviders).
THEOREM RegistrationKeeps == RegSpec => PiKeeps
<1> DEFINE Keeping ==
        /\ overlay' # overlay /\ scene.lists => Known \subseteq Known'
        /\ \A e \in Known' : \A f \in Known' \ Known :
              overlay' # overlay /\ e # f => Plain[e.id] # Plain[f.id]
        /\ \A n \in Names :
              /\ owner[n] = "pi" => owner'[n] = "pi"
              /\ owner[n] = "other" /\ owner'[n] = "router" => n \in ours
<1>1. RegInit => RegInv
  BY RegInvInit
<1>2. RegInv /\ [RegNext]_allVars => RegInv'
  BY RegInvStep
<1>3. RegInv /\ [RegNext]_allVars => [Keeping]_allVars
  <2> SUFFICES ASSUME RegInv, RegNext PROVE Keeping
    OBVIOUS
  <2>1. ASSUME NEW fits \in BOOLEAN, StartsSession(fits) PROVE Keeping
    BY <2>1, Registers, Takes DEF StartsSession
  <2>2. CASE Step /\ UNCHANGED regVars
    BY <2>2 DEF regVars
  <2>3. CASE EditsModels
    BY <2>3 DEF EditsModels
  <2>4. ASSUME NEW n \in scene.others, OtherRegisters(n) PROVE Keeping
    <3>1. overlay' = overlay /\ owner' = [owner EXCEPT ![n] = "other"] /\ n \notin PiOwn
      BY <2>4 DEF OtherRegisters
    <3>2. \A m \in Names : owner'[m] = IF m = n THEN "other" ELSE owner[m]
      BY <3>1 DEF RegInv
    <3>3. \A m \in Names : owner[m] = "pi" => m # n
      BY <3>1 DEF RegInv
    <3>4. QED
      BY <3>1, <3>2, <3>3
  <2>5. QED
    BY <2>1, <2>2, <2>3, <2>4 DEF RegNext
<1>4. QED
  BY <1>1, <1>2, <1>3, PTL DEF RegSpec, PiKeeps

-----------------------------------------------------------------------------
(***************************************************************************)
(* Scores: what each handler does to the pair of mirror and cache, then the*)
(* steps that leave such a pair, one by one.                               *)
(***************************************************************************)

\* Scores a lookup may find after a page: the page's own, a curated one, or an
\* estimate where the page gives none.
Fits(page, s, score) ==
    IF RatedBy(page, s) = None THEN score \in {None, "builtin", "estimate"}
    ELSE score \in {"builtin", RatedBy(page, s)}
AllFit(page, scores) == \A s \in Slugs : Fits(page, s, scores[s])

\* The mirror and the cache as a pair, whoever holds it.
Tidy(st) == st.mirror = [s \in Slugs |-> st.mirror[s]] /\ (st.alias => st.cached = st.mirror)
Whole(st, c) == \A x \in c.builtin : st.mirror[x] = "builtin"
\* All the curated scores are there, or a lookup notices that one is not.
Curated(st, c) == Whole(st, c) \/ (st.mirror # NoScores /\ \E x \in c.builtin : st.mirror[x] = None)
Fitting(st, page) == AllFit(page, st.mirror) /\ AllFit(page, st.cached)

ScoresInv ==
    /\ PricesInv
    /\ Tidy(Here) /\ cached = Here.cached
    /\ ~revived =>
          /\ Curated(Here, cfg)
          /\ latest # None => \E page \in scene.pages : page.name = latest /\ Fitting(Here, page)

-----------------------------------------------------------------------------
LEMMA ScoresFields ==
    ASSUME NEW m, NEW c, NEW same
    PROVE  /\ Scores(m, c, same).mirror = m
           /\ Scores(m, c, same).cached = IF same THEN m ELSE c
           /\ Scores(m, c, same).alias = same
BY DEF Scores

\* One source laid over another fits when both do.
LEMMA AssignFits ==
    ASSUME NEW page, NEW target, NEW source,
           \A s \in Slugs : source[s] # None => Fits(page, s, source[s]),
           AllFit(page, target)
    PROVE  AllFit(page, Assign(target, source))
BY DEF AllFit, Assign

LEMMA BuiltinFits ==
    ASSUME NEW page, NEW c
    PROVE  \A s \in Slugs : Builtin(c)[s] # None => Fits(page, s, Builtin(c)[s])
BY DEF Builtin, Fits

\* The curated scores laid over others are all there.
LEMMA BuiltinWins ==
    ASSUME NEW c, c.builtin \subseteq Slugs, NEW target
    PROVE  \A x \in c.builtin : Assign(target, Builtin(c))[x] = "builtin"
BY PagesAssumption DEF Assign, Builtin

LEMMA AssignIsTidy ==
    ASSUME NEW target, NEW source, NEW m, m = Assign(target, source)
    PROVE  m = [s \in Slugs |-> m[s]]
BY DEF Assign

LEMMA SetConfigKeeps ==
    ASSUME NEW st, NEW c, c.builtin \subseteq Slugs, Tidy(st)
    PROVE  /\ Tidy(SetConfig(st, c)) /\ Whole(SetConfig(st, c), c)
           /\ \A page : Fitting(st, page) => Fitting(SetConfig(st, c), page)
<1> DEFINE m == Assign(st.mirror, Builtin(c))
           new == SetConfig(st, c)
<1>1. new.mirror = m /\ new.cached = (IF st.alias THEN m ELSE st.cached) /\ new.alias = st.alias
  BY ScoresFields DEF SetConfig
<1>2. m = [s \in Slugs |-> m[s]]
  BY AssignIsTidy
<1>3. \A x \in c.builtin : m[x] = "builtin"
  BY BuiltinWins
<1>4. \A page : AllFit(page, st.mirror) => AllFit(page, m)
  BY AssignFits, BuiltinFits
<1> HIDE DEF m, new
<1>5. QED
  BY <1>1, <1>2, <1>3, <1>4 DEF Tidy, Whole, Fitting, new

LEMMA SetCacheKeeps ==
    ASSUME NEW st, NEW c, c.builtin \subseteq Slugs, Tidy(st)
    PROVE  /\ Tidy(SetCache(st, c))
           /\ Whole(st, c) => Whole(SetCache(st, c), c)
           /\ Curated(st, c) => Curated(SetCache(st, c), c)
           /\ st.cached # NoScores => Whole(SetCache(st, c), c)
           /\ \A page : Fitting(st, page) => Fitting(SetCache(st, c), page)
<1>1. CASE st.cached = NoScores
  BY <1>1 DEF SetCache
<1>2. CASE st.cached # NoScores
  <2> DEFINE filled == Assign(st.mirror, st.cached)
             m == Assign(filled, Builtin(c))
             new == SetCache(st, c)
  <2>1. new.mirror = m /\ new.cached = (IF st.alias THEN m ELSE st.cached) /\ new.alias = st.alias
    BY <1>2, ScoresFields DEF SetCache
  <2>2. m = [s \in Slugs |-> m[s]]
    BY AssignIsTidy
  <2>3. \A x \in c.builtin : m[x] = "builtin"
    BY BuiltinWins
  <2>4. \A page : AllFit(page, st.cached) /\ AllFit(page, st.mirror) => AllFit(page, filled)
    BY AssignFits DEF AllFit
  <2>5. \A page : AllFit(page, filled) => AllFit(page, m)
    BY AssignFits, BuiltinFits
  <2> HIDE DEF filled, m, new
  <2>6. Tidy(new) /\ Whole(new, c)
    BY <2>1, <2>2, <2>3 DEF Tidy, Whole
  <2>7. \A page : Fitting(st, page) => Fitting(new, page)
    BY <2>1, <2>4, <2>5 DEF Fitting
  <2>8. QED
    BY <2>6, <2>7 DEF new, Curated
<1>3. QED
  BY <1>1, <1>2

\* A lookup finds every curated score in its place.
LEMMA HealedKeeps ==
    ASSUME NEW st, NEW c, c.builtin \subseteq Slugs, Tidy(st)
    PROVE  /\ Tidy(Healed(st, c))
           /\ Curated(st, c) => Whole(Healed(st, c), c)
           /\ \A page : Fitting(st, page) => Fitting(Healed(st, c), page)
<1> DEFINE filled == IF st.mirror = NoScores THEN Assign(st.mirror, st.cached) ELSE st.mirror
           missing == \E x \in c.builtin : filled[x] = None
           m == IF missing THEN Assign(filled, Builtin(c)) ELSE filled
           new == Healed(st, c)
<1>1. new.mirror = m /\ new.cached = (IF st.alias THEN m ELSE st.cached) /\ new.alias = st.alias
  BY ScoresFields DEF Healed
<1>2. filled = [s \in Slugs |-> filled[s]]
  BY AssignIsTidy DEF Tidy
<1>3. m = [s \in Slugs |-> m[s]]
  <2>1. Assign(filled, Builtin(c)) = [s \in Slugs |-> Assign(filled, Builtin(c))[s]]
    BY AssignIsTidy
  <2> HIDE DEF filled
  <2>2. QED
    BY <1>2, <2>1
<1>4. ASSUME NEW page, Fitting(st, page) PROVE AllFit(page, m)
  <2>1. AllFit(page, st.mirror) /\ AllFit(page, st.cached)
    BY <1>4 DEF Fitting
  <2>2. AllFit(page, Assign(st.mirror, st.cached))
    BY <2>1, AssignFits DEF AllFit
  <2>3. AllFit(page, filled)
    BY <2>1, <2>2
  <2> HIDE DEF filled
  <2>4. AllFit(page, Assign(filled, Builtin(c)))
    BY <2>3, AssignFits, BuiltinFits
  <2>5. QED
    BY <2>3, <2>4
<1>5. ASSUME Curated(st, c) PROVE \A x \in c.builtin : m[x] = "builtin"
  <2>1. \A x \in c.builtin : Assign(filled, Builtin(c))[x] = "builtin"
    BY BuiltinWins
  <2>2. CASE missing
    BY <2>1, <2>2
  <2>3. CASE ~missing
    <3>1. CASE st.mirror # NoScores
      <4>1. filled = st.mirror
        BY <3>1
      <4>2. \A x \in c.builtin : st.mirror[x] # None
        BY <2>3, <4>1
      <4>3. Whole(st, c)
        BY <1>5, <4>2 DEF Curated
      <4>4. QED
        BY <2>3, <4>1, <4>3 DEF Whole
    <3>2. CASE st.mirror = NoScores
      <4>1. Whole(st, c)
        BY <1>5, <3>2 DEF Curated
      <4>2. \A x \in c.builtin : st.mirror[x] = None
        BY <3>2 DEF NoScores
      <4>3. c.builtin = {}
        BY <4>1, <4>2, PagesAssumption DEF Whole
      <4>4. QED
        BY <4>3
    <3>3. QED
      BY <3>1, <3>2
  <2>4. QED
    BY <2>2, <2>3
<1> HIDE DEF m, new
<1>6. Tidy(new)
  BY <1>1, <1>3 DEF Tidy
<1>7. Curated(st, c) => Whole(new, c)
  BY <1>1, <1>5 DEF Whole
<1>8. \A page : Fitting(st, page) => Fitting(new, page)
  BY <1>1, <1>4 DEF Fitting
<1>9. QED
  BY <1>6, <1>7, <1>8 DEF new

\* A load lays the curated scores on last, whatever came before.
LEMMA LoadedKeeps ==
    ASSUME file.builtin \subseteq Slugs, Tidy(Here), NEW fits
    PROVE  /\ Tidy(LoadedScores(fits)) /\ Whole(LoadedScores(fits), file)
           /\ \A page : Fitting(Here, page) => Fitting(LoadedScores(fits), page)
<1> DEFINE set == SetConfig(Here, file)
           first == SetCache(set, file)
           m == Assign(first.mirror, Builtin(file))
           copied == IF fits THEN SetGdpval(first, m) ELSE first
<1>1. Tidy(set) /\ Whole(set, file) /\ \A page : Fitting(Here, page) => Fitting(set, page)
  BY SetConfigKeeps
<1> HIDE DEF set
<1>2. Tidy(first) /\ Whole(first, file) /\ \A page : Fitting(set, page) => Fitting(first, page)
  BY <1>1, SetCacheKeeps
<1> HIDE DEF first
<1>3. m = [s \in Slugs |-> m[s]] /\ \A x \in file.builtin : m[x] = "builtin"
  BY AssignIsTidy, BuiltinWins
<1>4. \A page : AllFit(page, first.mirror) => AllFit(page, m)
  BY AssignFits, BuiltinFits
<1> HIDE DEF m
<1>5. /\ SetGdpval(first, m).mirror = m /\ SetGdpval(first, m).cached = first.cached
      /\ SetGdpval(first, m).alias = FALSE
  BY DEF SetGdpval, Scores
<1>6. Tidy(copied) /\ Whole(copied, file) /\ \A page : Fitting(first, page) => Fitting(copied, page)
  <2>1. CASE fits
    BY <1>3, <1>4, <1>5, <2>1 DEF Tidy, Whole, Fitting
  <2>2. CASE ~fits
    BY <1>2, <2>2
  <2>3. QED
    BY <2>1, <2>2
<1>7. LoadedScores(fits) = SetCache(copied, file)
  BY DEF LoadedScores, copied, m, first, set
<1> HIDE DEF copied
<1>8. /\ Tidy(SetCache(copied, file)) /\ Whole(SetCache(copied, file), file)
      /\ \A page : Fitting(copied, page) => Fitting(SetCache(copied, file), page)
  BY <1>6, SetCacheKeeps
<1>9. QED
  BY <1>1, <1>2, <1>6, <1>7, <1>8

\* An estimate fills only what no page and nobody's hand has filled.
LEMMA EstimatedKeeps ==
    ASSUME NEW st, cfg.builtin \subseteq Slugs, Tidy(st), NEW slugs
    PROVE  /\ Tidy(Estimated(st, slugs))
           /\ Curated(st, cfg) => Whole(Estimated(st, slugs), cfg)
           /\ \A page : Fitting(st, page) => Fitting(Estimated(st, slugs), page)
<1> DEFINE healed == Healed(st, cfg)
           new == [x \in Slugs |-> IF x \in slugs /\ healed.mirror[x] = None THEN "estimate" ELSE None]
           filled == Assign(new, healed.cached)
           m == IF healed.alias THEN filled ELSE healed.mirror
           mid == Scores(m, filled, healed.alias)
<1>1. /\ Curated(st, cfg) => Whole(healed, cfg)
      /\ \A page : Fitting(st, page) => Fitting(healed, page)
  BY HealedKeeps
<1>2. Tidy(healed)
  BY HealedKeeps
<1>3. Estimated(st, slugs) = IF new = NoScores THEN healed ELSE SetCache(mid, cfg)
  BY DEF Estimated
<1> HIDE DEF healed
<1>4. \A x \in Slugs : filled[x] = IF healed.cached[x] # None THEN healed.cached[x] ELSE new[x]
  BY DEF Assign
<1>5. filled = [s \in Slugs |-> filled[s]]
  BY AssignIsTidy
<1>6. /\ mid.mirror = m /\ mid.alias = healed.alias
      /\ mid.cached = filled
  BY ScoresFields
<1>7. \A x \in Slugs : new[x] \in {None, "estimate"}
  OBVIOUS
<1> HIDE DEF new, filled, mid
<1>8. Tidy(mid)
  BY <1>2, <1>5, <1>6 DEF Tidy
<1>9. ASSUME Whole(healed, cfg) PROVE Whole(mid, cfg)
  <2>1. CASE healed.alias
    <3>1. \A x \in cfg.builtin : x \in Slugs /\ healed.cached[x] = "builtin"
      BY <1>2, <1>9, <2>1 DEF Tidy, Whole
    <3>2. \A x \in cfg.builtin : filled[x] = "builtin"
      BY <1>4, <3>1, PagesAssumption
    <3>3. QED
      BY <1>6, <2>1, <3>2 DEF Whole
  <2>2. CASE ~healed.alias
    BY <1>6, <1>9, <2>2 DEF Whole
  <2>3. QED
    BY <2>1, <2>2
<1>10. ASSUME NEW page, Fitting(healed, page) PROVE Fitting(mid, page)
  <2>1. AllFit(page, healed.mirror) /\ AllFit(page, healed.cached)
    BY <1>10 DEF Fitting
  <2>2. \A x \in Slugs : Fits(page, x, filled[x])
    <3> SUFFICES ASSUME NEW x \in Slugs PROVE Fits(page, x, filled[x])
      OBVIOUS
    <3>1. Fits(page, x, healed.cached[x])
      BY <2>1 DEF AllFit
    <3>2. CASE healed.cached[x] # None
      BY <1>4, <3>1, <3>2
    <3>3. CASE healed.cached[x] = None
      <4>1. RatedBy(page, x) = None
        BY <3>1, <3>3, PagesAssumption DEF Fits
      <4>2. filled[x] = new[x]
        BY <1>4, <3>3
      <4>3. filled[x] \in {None, "estimate"}
        BY <1>7, <4>2
      <4>4. QED
        BY <4>1, <4>3 DEF Fits
    <3>4. QED
      BY <3>2, <3>3
  <2>3. AllFit(page, filled)
    BY <2>2 DEF AllFit
  <2>4. QED
    BY <1>6, <2>1, <2>3 DEF Fitting
<1> HIDE DEF m
<1>11. /\ Whole(mid, cfg) => Whole(SetCache(mid, cfg), cfg)
       /\ \A page : Fitting(mid, page) => Fitting(SetCache(mid, cfg), page)
  BY <1>8, SetCacheKeeps
<1>12. Tidy(SetCache(mid, cfg))
  BY <1>8, SetCacheKeeps
<1>13. CASE new = NoScores
  BY <1>1, <1>2, <1>3, <1>13
<1>14. CASE new # NoScores
  BY <1>1, <1>2, <1>3, <1>9, <1>10, <1>11, <1>12, <1>14
<1>15. QED
  BY <1>13, <1>14

\* What another process has saved shares an object with nothing new.
LEMMA SyncedKeeps ==
    ASSUME NEW st, Tidy(st)
    PROVE  Tidy(Synced(st)) /\ (~foreign => Synced(st) = st)
<1> DEFINE merged == Assign(disk, st.cached)
           m == IF st.alias THEN merged ELSE st.mirror
<1>1. CASE ~foreign
  BY <1>1 DEF Synced
<1>2. CASE foreign
  <2>1. Synced(st) = Scores(m, merged, st.alias)
    BY <1>2 DEF Synced
  <2>2. merged = [s \in Slugs |-> merged[s]]
    BY AssignIsTidy
  <2> HIDE DEF merged
  <2>3. m = [s \in Slugs |-> m[s]] /\ (st.alias => m = merged)
    BY <2>2 DEF Tidy
  <2> HIDE DEF m
  <2>4. Tidy(Scores(m, merged, st.alias))
    BY <2>3 DEF Tidy, Scores
  <2>5. QED
    BY <1>2, <2>1, <2>4
<1>3. QED
  BY <1>1, <1>2

-----------------------------------------------------------------------------
\* The pair a handler leaves is the pair the next one finds.
LEMMA Handed ==
    ASSUME NEW st, Tidy(st), Keeps(st)
    PROVE  /\ Tidy(Here)' /\ cached' = (Here.cached)'
           /\ \A c : (Curated(st, c) => Curated(Here', c))
           /\ \A page : Fitting(st, page) => Fitting(Here', page)
<1>1. Here'.mirror = st.mirror /\ Here'.cached = st.cached /\ Here'.alias = st.alias
  BY ScoresFields DEF Here, Keeps, Tidy
<1>2. cached' = st.cached
  BY DEF Keeps
<1>3. Tidy(Here')
  BY <1>1 DEF Tidy
<1>4. \A c : (Curated(st, c) => Curated(Here', c))
  BY <1>1 DEF Curated, Whole
<1>5. \A page : Fitting(st, page) => Fitting(Here', page)
  BY <1>1 DEF Fitting
<1>6. QED
  BY <1>1, <1>2, <1>3, <1>4, <1>5

LEMMA Carries ==
    ASSUME ScoresInv, PricesInv', scene' = scene, latest' = latest,
           NEW st, Tidy(st), Keeps(st),
           ~revived' => /\ ~revived
                        /\ Curated(st, cfg')
                        /\ \A page : Fitting(Here, page) => Fitting(st, page)
    PROVE  ScoresInv'
<1>1. /\ Tidy(Here)' /\ cached' = (Here.cached)'
      /\ \A c : (Curated(st, c) => Curated(Here', c))
      /\ \A page : Fitting(st, page) => Fitting(Here', page)
  BY Handed
<1>2. ASSUME ~revived', latest' # None
      PROVE  \E page \in scene'.pages : page.name = latest' /\ Fitting(Here', page)
  <2>1. PICK page \in scene.pages : page.name = latest /\ Fitting(Here, page)
    BY <1>2 DEF ScoresInv
  <2>2. Fitting(Here', page)
    BY <1>1, <1>2, <2>1
  <2>3. QED
    BY <2>1, <2>2
<1>3. ~revived' => Curated(Here', cfg')
  BY <1>1
<1>4. QED
  BY <1>1, <1>2, <1>3 DEF ScoresInv

LEMMA CuratedSlugs == PricesInv => cfg.builtin \subseteq Slugs /\ file.builtin \subseteq Slugs
BY PagesAssumption DEF PricesInv

LEMMA ScoresInvInit == RegInit => ScoresInv
<1> SUFFICES ASSUME RegInit PROVE ScoresInv
  OBVIOUS
<1>1. PricesInv
  BY PricesInvInit
<1>2. mirror = Assign(disk, Builtin(cfg)) /\ alias = FALSE /\ latest = None
  BY DEF RegInit, MetricsInit
<1>3. Here.mirror = mirror /\ Here.cached = cached /\ Here.alias = FALSE
  BY <1>2, ScoresFields DEF Here
<1>4. mirror = [s \in Slugs |-> mirror[s]]
  BY <1>2, AssignIsTidy
<1>5. \A x \in cfg.builtin : mirror[x] = "builtin"
  BY <1>1, <1>2, CuratedSlugs, BuiltinWins
<1>6. Tidy(Here) /\ Curated(Here, cfg)
  BY <1>3, <1>4, <1>5 DEF Tidy, Curated, Whole
<1>7. QED
  BY <1>1, <1>2, <1>3, <1>6 DEF ScoresInv

\* A scrape that finds scores replaces what there was, and a lookup will notice.
LEMMA ScrapeKeepsScores ==
    ASSUME ScoresInv, PricesInv', NEW force, Scrape(force)
    PROVE  ScoresInv'
<1>1. PICK page \in scene.pages :
         LET scores == ExtractGdpvalScores(page)
             profiles == {ExtractCapabilityProfiles(page)[s] : s \in Slugs}
             before == IF profiles # {Unmeasured} THEN SetCache(Here, cfg) ELSE Here
             fresh == scores # NoScores
         IN
         /\ Keeps(IF fresh THEN Scraped(before, scores) ELSE before)
         /\ latest' = IF fresh THEN page.name ELSE latest
         /\ revived' = (revived /\ ~fresh)
  BY DEF Scrape
<1> DEFINE scores == ExtractGdpvalScores(page)
           profiles == {ExtractCapabilityProfiles(page)[s] : s \in Slugs}
           before == IF profiles # {Unmeasured} THEN SetCache(Here, cfg) ELSE Here
<1>2. /\ Keeps(IF scores # NoScores THEN Scraped(before, scores) ELSE before)
      /\ latest' = IF scores # NoScores THEN page.name ELSE latest
      /\ revived' = (revived /\ scores = NoScores)
  BY <1>1
<1>3. scene' = scene /\ cfg' = cfg /\ PricesInv /\ cfg.builtin \subseteq Slugs /\ Tidy(Here)
  BY CuratedSlugs DEF Scrape, ScoresInv
<1>4. /\ Tidy(before)
      /\ Curated(Here, cfg) => Curated(before, cfg)
      /\ \A p : Fitting(Here, p) => Fitting(before, p)
  BY <1>3, SetCacheKeeps
<1>5. IsPage(page) /\ page.name # None /\ None \notin Slugs
  BY PagesAssumption DEF ScoresInv, PricesInv
<1>6. scores = [s \in Slugs |-> RatedBy(page, s)]
  BY <1>5, PagesReadAsRated
<1> HIDE DEF before, scores
<1>8. CASE scores = NoScores
  <2>1. ~revived' => ~revived /\ Curated(before, cfg)
    BY <1>2, <1>4, <1>8 DEF ScoresInv
  <2>2. QED
    BY <1>2, <1>3, <1>4, <1>8, <2>1, Carries
<1>9. CASE scores # NoScores
  <2> DEFINE st == Scraped(before, scores)
  <2>1. st.mirror = scores /\ st.cached = scores /\ st.alias = TRUE
    BY DEF Scraped, SetGdpval, Scores
  <2>2. Tidy(st)
    <3>1. scores = [s \in Slugs |-> scores[s]]
      BY <1>6
    <3>2. QED
      BY <2>1, <3>1 DEF Tidy
  <2>3. Fitting(st, page)
    BY <1>6, <2>1 DEF Fitting, AllFit, Fits
  <2>4. Curated(st, cfg)
    <3>1. CASE cfg.builtin = {}
      BY <3>1 DEF Curated, Whole
    <3>2. CASE cfg.builtin # {}
      <4>1. PICK x \in cfg.builtin : RatedBy(page, x) = None
        BY <1>3, <3>2, PagesAssumption DEF PricesInv
      <4>2. st.mirror[x] = None
        BY <1>3, <1>6, <2>1, <4>1
      <4>3. QED
        BY <1>9, <2>1, <4>2 DEF Curated
    <3>3. QED
      BY <3>1, <3>2
  <2>5. Keeps(st) /\ latest' = page.name
    BY <1>2, <1>9
  <2> HIDE DEF st
  <2>6. /\ Tidy(Here)' /\ cached' = (Here.cached)'
        /\ Curated(Here', cfg) /\ Fitting(Here', page)
    BY <2>2, <2>3, <2>4, <2>5, Handed
  <2>7. QED
    BY <1>3, <2>5, <2>6 DEF ScoresInv
<1>10. QED
  BY <1>8, <1>9

LEMMA ScoresInvStep ==
    ASSUME ScoresInv, [RegNext]_allVars
    PROVE  ScoresInv'
<1>1. PricesInv' /\ PricesInv /\ cfg.builtin \subseteq Slugs /\ file.builtin \subseteq Slugs
  BY PricesInvStep, CuratedSlugs DEF ScoresInv
<1>2. Tidy(Here) /\ (~revived => Curated(Here, cfg))
  BY DEF ScoresInv
<1>3. ASSUME scene' = scene, UNCHANGED <<mirror, cached, alias, latest, revived, cfg>>
      PROVE  ScoresInv'
  BY <1>1, <1>3 DEF ScoresInv, Here
<1>4. ASSUME NEW fits \in BOOLEAN, StartsSession(fits) PROVE ScoresInv'
  <2> DEFINE loaded == LoadedScores(fits)
             st == SetCache(Synced(loaded), file)
  <2>1. SessionStart(fits)
    BY <1>4 DEF StartsSession
  <2>2. Keeps(st) /\ cfg' = file /\ latest' = latest /\ revived' = (revived \/ foreign) /\ scene' = scene
    BY <2>1 DEF SessionStart
  <2>3. Tidy(loaded) /\ Whole(loaded, file) /\ \A page : Fitting(Here, page) => Fitting(loaded, page)
    BY <1>1, <1>2, LoadedKeeps
  <2> HIDE DEF loaded
  <2>4. Tidy(Synced(loaded)) /\ (~foreign => Synced(loaded) = loaded)
    BY <2>3, SyncedKeeps
  <2>5. Tidy(st)
    BY <1>1, <2>4, SetCacheKeeps
  <2>6. ASSUME ~revived'
        PROVE  ~revived /\ Curated(st, file) /\ \A page : Fitting(Here, page) => Fitting(st, page)
    <3>1. ~revived /\ Synced(loaded) = loaded
      BY <2>2, <2>4, <2>6
    <3>2. Whole(SetCache(loaded, file), file)
          /\ \A page : Fitting(loaded, page) => Fitting(SetCache(loaded, file), page)
      BY <1>1, <2>3, SetCacheKeeps
    <3>3. QED
      BY <2>3, <3>1, <3>2 DEF Curated
  <2> HIDE DEF st
  <2>7. QED
    BY <1>1, <2>2, <2>5, <2>6, Carries
<1>5. ASSUME NEW fits \in BOOLEAN, Load(fits) PROVE ScoresInv'
  <2> DEFINE st == LoadedScores(fits)
  <2>1. Keeps(st) /\ cfg' = file /\ latest' = latest /\ revived' = revived /\ scene' = scene
    BY <1>5 DEF Load
  <2>2. Tidy(st) /\ Whole(st, file) /\ \A page : Fitting(Here, page) => Fitting(st, page)
    BY <1>1, <1>2, LoadedKeeps
  <2> HIDE DEF st
  <2>3. Curated(st, file)
    BY <2>2 DEF Curated
  <2>4. QED
    BY <1>1, <2>1, <2>2, <2>3, Carries
<1>6. ASSUME NEW r \in Refs, NEW fits \in BOOLEAN, ToolReports(r, fits) PROVE ScoresInv'
  <2> DEFINE loaded == LoadedScores(fits)
             st == Healed(loaded, file)
  <2>1. Keeps(st) /\ cfg' = file /\ latest' = latest /\ revived' = revived /\ scene' = scene
    BY <1>6 DEF ToolReports
  <2>2. Tidy(loaded) /\ Whole(loaded, file) /\ \A page : Fitting(Here, page) => Fitting(loaded, page)
    BY <1>1, <1>2, LoadedKeeps
  <2> HIDE DEF loaded
  <2>3. Curated(loaded, file)
    BY <2>2 DEF Curated
  <2>4. Tidy(st) /\ Whole(st, file) /\ \A page : Fitting(loaded, page) => Fitting(st, page)
    BY <1>1, <2>2, <2>3, HealedKeeps
  <2> HIDE DEF st
  <2>5. Curated(st, file)
    BY <2>4 DEF Curated
  <2>6. QED
    BY <1>1, <2>1, <2>2, <2>4, <2>5, Carries
<1>7. ASSUME NEW r \in Refs, Looks(r) PROVE ScoresInv'
  <2> DEFINE st == Healed(Here, cfg)
  <2>1. Keeps(st) /\ cfg' = cfg /\ latest' = latest /\ revived' = revived /\ scene' = scene
    BY <1>7 DEF Looks
  <2>2. /\ Tidy(st)
        /\ Curated(Here, cfg) => Whole(st, cfg)
        /\ \A page : Fitting(Here, page) => Fitting(st, page)
    BY <1>1, <1>2, HealedKeeps
  <2> HIDE DEF st
  <2>3. ~revived => Curated(st, cfg)
    BY <1>2, <2>2 DEF Curated
  <2>4. QED
    BY <1>1, <2>1, <2>2, <2>3, Carries
<1>8. ASSUME NEW force \in BOOLEAN, Scrape(force) PROVE ScoresInv'
  BY <1>1, <1>8, ScrapeKeepsScores
<1>9. CASE NoScrape \/ Prices \/ CatalogsAreFresh \/ DaemonIsDown
  BY <1>3, <1>9 DEF NoScrape, Prices, CatalogsAreFresh, DaemonIsDown, scoreVars
<1>10. ASSUME NEW tags \in scene.tags, Daemon(tags) PROVE ScoresInv'
  <2> DEFINE st == Estimated(Here, scene.estimates)
  <2>1. Keeps(st) /\ cfg' = cfg /\ latest' = latest /\ revived' = revived /\ scene' = scene
    BY <1>10 DEF Daemon
  <2>2. /\ Tidy(st)
        /\ Curated(Here, cfg) => Whole(st, cfg)
        /\ \A page : Fitting(Here, page) => Fitting(st, page)
    BY <1>1, <1>2, EstimatedKeeps
  <2> HIDE DEF st
  <2>3. ~revived => Curated(st, cfg)
    BY <1>2, <2>2 DEF Curated
  <2>4. QED
    BY <1>1, <2>1, <2>2, <2>3, Carries
<1>11. CASE ScanSaves \/ Saves
  <2>1. /\ Keeps(Synced(Here)) /\ cfg' = cfg /\ latest' = latest /\ revived' = (revived \/ foreign)
        /\ scene' = scene
    BY <1>11 DEF ScanSaves, Saves, Saved
  <2>2. Tidy(Synced(Here)) /\ (~foreign => Synced(Here) = Here)
    BY <1>2, SyncedKeeps
  <2>3. ~revived' => ~revived /\ Synced(Here) = Here
    BY <2>1, <2>2
  <2>4. QED
    BY <1>1, <1>2, <2>1, <2>2, <2>3, Carries
<1>12. CASE Generate
  <2>1. cfg' = cfg /\ latest' = latest /\ revived' = revived /\ scene' = scene
    BY <1>12 DEF Generate
  <2>2. CASE Keeps(Here)
    BY <1>1, <1>2, <2>1, <2>2, Carries
  <2>3. CASE Keeps(SetConfig(Here, cfg))
    <3> DEFINE st == SetConfig(Here, cfg)
    <3>1. Tidy(st) /\ Whole(st, cfg) /\ \A page : Fitting(Here, page) => Fitting(st, page)
      BY <1>1, <1>2, SetConfigKeeps
    <3>2. Keeps(st)
      BY <2>3
    <3> HIDE DEF st
    <3>3. Curated(st, cfg)
      BY <3>1 DEF Curated
    <3>4. QED
      BY <1>1, <2>1, <3>1, <3>2, <3>3, Carries
  <2>4. QED
    BY <1>12, <2>2, <2>3 DEF Generate
<1>13. ASSUME NEW c \in scene.configs, Edits(c) PROVE ScoresInv'
  BY <1>3, <1>13 DEF Edits, scoreVars
<1>14. CASE RegistryChanges \/ OthersSave
  BY <1>3, <1>14 DEF RegistryChanges, OthersSave, scoreVars
<1>15. CASE EditsModels
  BY <1>3, <1>15 DEF EditsModels, metricsVars, scoreVars
<1>16. ASSUME NEW n \in scene.others, OtherRegisters(n) PROVE ScoresInv'
  BY <1>3, <1>16 DEF OtherRegisters, metricsVars, scoreVars
<1>17. CASE UNCHANGED allVars
  BY <1>3, <1>17 DEF allVars, metricsVars, scoreVars
<1>18. Step => ScoresInv'
  BY <1>5, <1>6, <1>7, <1>8, <1>9, <1>10, <1>11, <1>12, <1>13, <1>14 DEF Step
<1>19. QED
  BY <1>4, <1>15, <1>16, <1>17, <1>18 DEF RegNext

LEMMA RankedState == ScoresInv => ScoresRank
<1> SUFFICES ASSUME ScoresInv, ~revived, NEW s \in Slugs
             PROVE  /\ s \in cfg.builtin => Believed(s) = "builtin"
                    /\ latest # None =>
                          IF RatedBy(Newest, s) = None THEN Believed(s) \in {None, "builtin", "estimate"}
                          ELSE Believed(s) \in {"builtin", RatedBy(Newest, s)}
  BY DEF ScoresRank
<1> DEFINE healed == Healed(Here, cfg)
<1>1. cfg.builtin \subseteq Slugs /\ Tidy(Here) /\ Curated(Here, cfg)
  BY CuratedSlugs DEF ScoresInv
<1>2. Whole(healed, cfg) /\ \A page : Fitting(Here, page) => Fitting(healed, page)
  BY <1>1, HealedKeeps
<1>3. Believed(s) = healed.mirror[s]
  BY DEF Believed
<1> HIDE DEF healed
<1>4. s \in cfg.builtin => Believed(s) = "builtin"
  BY <1>2, <1>3 DEF Whole
<1>5. ASSUME latest # None PROVE Fits(Newest, s, Believed(s))
  <2>1. PICK page \in scene.pages : page.name = latest /\ Fitting(Here, page)
    BY <1>5 DEF ScoresInv
  <2>2. Newest \in scene.pages /\ Newest.name = latest
    BY <2>1 DEF Newest
  <2>3. Newest = page
    BY <2>1, <2>2, PagesAssumption DEF ScoresInv, PricesInv
  <2>4. Fitting(healed, page)
    BY <1>2, <2>1
  <2>5. Fits(page, s, healed.mirror[s])
    BY <2>4 DEF Fitting, AllFit
  <2>6. QED
    BY <1>3, <2>3, <2>5
<1>6. QED
  BY <1>4, <1>5 DEF Fits

\* The curated score always wins and the newest page comes next, whatever loads,
\* lookups, scans and saves come between (resolveSlug, setCache, setGdpval).
THEOREM CuratedScoresWin == RegSpec => []ScoresRank
<1>1. RegInit => ScoresInv
  BY ScoresInvInit
<1>2. ScoresInv /\ [RegNext]_allVars => ScoresInv'
  BY ScoresInvStep
<1>3. ScoresInv => ScoresRank
  BY RankedState
<1>4. QED
  BY <1>1, <1>2, <1>3, PTL DEF RegSpec

-----------------------------------------------------------------------------
(***************************************************************************)
(* The breaker of a provider.  One lemma states that each action keeps     *)
(* BreakerInv; the refinement of CircuitBreaker is proved one provider at a*)
(* time, by the action taken.                                              *)
(***************************************************************************)

\* The ladder step a trip selects is a rung of the ladder, and positive.
LEMMA StepIsARung ==
    ASSUME BreakerInv, NEW p \in Providers
    PROVE  /\ NextStep(p) \in 1 .. Len(Ladder)
           /\ Ladder[NextStep(p)] \in 1 .. LadderTop
           /\ TripBase(p) \in 0 .. Len(Ladder)
<1>1. Len(Ladder) \in Nat /\ Len(Ladder) > 0
  BY TuningAssumption
<1>2. TripBase(p) \in 0 .. Len(Ladder)
  BY <1>1 DEF BreakerInv, TripBase
<1>3. NextStep(p) \in 1 .. Len(Ladder)
  BY <1>1, <1>2 DEF NextStep
<1>4. Ladder[NextStep(p)] \in 1 .. LadderTop
  BY <1>3, TuningAssumption
<1>5. QED
  BY <1>2, <1>3, <1>4

LEMMA InitInv == Init => BreakerInv
BY ProvidersAssumption, TuningAssumption DEF Init, BreakerInv

\* A recorded failure keeps the invariant, whether or not it trips.
LEMMA FailureInv ==
    ASSUME BreakerInv, NEW m \in Models, NEW kind, NEW text,
           RecordProviderFailure(m, kind, text)
    PROVE  BreakerInv'
<1> DEFINE p == ProviderOf[m]
<1>1. p \in Providers
  BY ProvidersAssumption
<1>2. /\ NextStep(p) \in 1 .. Len(Ladder)
      /\ Ladder[NextStep(p)] \in 1 .. LadderTop
      /\ TripBase(p) \in 0 .. Len(Ladder)
  BY <1>1, StepIsARung
<1>3. age' \in [Models -> 0 .. Window]
  BY TuningAssumption DEF RecordProviderFailure, BreakerInv
<1>4. cloudEnabled' \in BOOLEAN
  BY DEF RecordProviderFailure, BreakerInv
<1> HIDE DEF p
<1>5. CASE Opens(m)
  <2>1. tripCount' = [tripCount EXCEPT ![p] = NextStep(p)]
    BY <1>5 DEF RecordProviderFailure, p
  <2>2. since' = [since EXCEPT ![p] = -Ladder[NextStep(p)]]
    BY <1>5 DEF RecordProviderFailure, p
  <2>3. tripCount' \in [Providers -> 0 .. Len(Ladder)]
    BY <1>1, <1>2, <2>1 DEF BreakerInv
  <2>4. since' \in [Providers -> -LadderTop .. Window]
    BY <1>1, <1>2, <2>2, TuningAssumption DEF BreakerInv
  <2>5. \A q \in Providers : since'[q] < Window => tripCount'[q] > 0
    BY <1>1, <1>2, <2>1, <2>2, TuningAssumption DEF BreakerInv
  <2>6. QED
    BY <1>3, <1>4, <2>3, <2>4, <2>5 DEF BreakerInv
<1>6. CASE ~Opens(m)
  <2>1. since' = since
    BY <1>6 DEF RecordProviderFailure, p
  <2>2. tripCount' = [tripCount EXCEPT ![p] =
                        IF IsProviderOpen(p) THEN @ ELSE TripBase(p)]
    BY <1>6 DEF RecordProviderFailure, p
  <2>3. tripCount' \in [Providers -> 0 .. Len(Ladder)]
    BY <1>1, <1>2, <2>2 DEF BreakerInv
  <2>4. \A q \in Providers : since'[q] < Window => tripCount'[q] > 0
    BY <1>1, <2>1, <2>2, TuningAssumption DEF BreakerInv, TripBase, IsProviderOpen
  <2>5. QED
    BY <1>3, <1>4, <2>1, <2>3, <2>4 DEF BreakerInv
<1>7. QED
  BY <1>5, <1>6

\* Every step keeps the invariant.
LEMMA NextInv == BreakerInv /\ [Next]_vars => BreakerInv'
<1> SUFFICES ASSUME BreakerInv, [Next]_vars
             PROVE  BreakerInv'
  OBVIOUS
<1>1. ASSUME NEW m \in Models, NEW kind \in Kinds, NEW text \in Texts,
             RecordProviderFailure(m, kind, text)
      PROVE  BreakerInv'
  BY <1>1, FailureInv
<1>2. ASSUME NEW m \in Models, RecordProviderSuccess(m)
      PROVE  BreakerInv'
  BY <1>2, ProvidersAssumption, TuningAssumption DEF RecordProviderSuccess, BreakerInv
<1>3. CASE ClearBreakers
  BY <1>3, TuningAssumption DEF ClearBreakers, BreakerInv
<1>4. CASE Reload
  BY <1>4 DEF Reload, BreakerInv
<1>5. CASE Tick
  <2>1. age' \in [Models -> 0 .. Window]
    BY <1>5, TuningAssumption DEF Tick, BreakerInv
  <2>2. since' \in [Providers -> -LadderTop .. Window]
    BY <1>5, TuningAssumption DEF Tick, BreakerInv
  <2>3. \A p \in Providers : since'[p] < Window => tripCount'[p] > 0
    BY <1>5, TuningAssumption DEF Tick, BreakerInv
  <2>4. QED
    BY <1>5, <2>1, <2>2, <2>3 DEF Tick, BreakerInv
<1>6. CASE UNCHANGED vars
  BY <1>6 DEF vars, BreakerInv
<1>7. QED
  BY <1>1, <1>2, <1>3, <1>4, <1>5, <1>6 DEF Next

(* The breaker is type correct, and whatever is open or half open has a    *)
(* trip on record that justifies it.                                       *)
THEOREM BreakerInvariant == Spec => []BreakerInv
<1>1. Init => BreakerInv
  BY InitInv
<1>2. BreakerInv /\ [Next]_vars => BreakerInv'
  BY NextInv
<1>3. QED
  BY <1>1, <1>2, PTL DEF Spec

\* A step never moves the end of a running cooldown away.
LEMMA NotProlonged ==
    ASSUME BreakerInv, [Next]_vars, NEW p \in Providers, since[p] < 0, since'[p] < 0
    PROVE  since'[p] >= since[p]
<1>0. since[p] \in Int
  BY DEF BreakerInv
<1>1. ASSUME NEW m \in Models, NEW kind \in Kinds, NEW text \in Texts,
             RecordProviderFailure(m, kind, text)
      PROVE  since'[p] >= since[p]
  <2>1. CASE Opens(m)
    <3>1. ProviderOf[m] # p
      BY <2>1 DEF Opens, IsProviderOpen
    <3>2. QED
      BY <1>0, <1>1, <2>1, <3>1 DEF RecordProviderFailure, BreakerInv
  <2>2. CASE ~Opens(m)
    BY <1>0, <1>1, <2>2 DEF RecordProviderFailure
  <2>3. QED
    BY <2>1, <2>2
<1>2. ASSUME NEW m \in Models, RecordProviderSuccess(m)
      PROVE  since'[p] >= since[p]
  BY <1>0, <1>2, TuningAssumption DEF RecordProviderSuccess, BreakerInv
<1>3. CASE ClearBreakers
  BY <1>0, <1>3, TuningAssumption DEF ClearBreakers
<1>4. CASE Reload \/ UNCHANGED vars
  BY <1>0, <1>4 DEF Reload, vars
<1>5. CASE Tick
  BY <1>0, <1>5, TuningAssumption DEF Tick
<1>6. QED
  BY <1>1, <1>2, <1>3, <1>4, <1>5 DEF Next

(* Late failures of walks that were already streaming never extend the     *)
(* time a provider is skipped, for any number of models and any ladder.    *)
THEOREM BreakerNeverProlonged == Spec => NeverProlonged
<1>1. BreakerInv /\ [Next]_vars =>
        [\A p \in Providers : since[p] < 0 /\ since'[p] < 0 => since'[p] >= since[p]]_vars
  BY NotProlonged
<1>2. QED
  BY <1>1, BreakerInvariant, PTL DEF Spec, NeverProlonged

-----------------------------------------------------------------------------
(* The refinement.  The abstract state of one provider, and the abstract   *)
(* step each concrete action takes for it.                                 *)

PhaseMap == [p \in Providers |-> PhaseOf(p)]
RungMap == [p \in Providers |-> IF since[p] < Window THEN tripCount[p] ELSE 0]
SuspectMap == [p \in Providers |-> {m \in ModelsOf(p) : age[m] < Window}]

LEMMA InitMaps == Init => CB!Init
BY TuningAssumption, ProvidersAssumption
   DEF Init, CB!Init, PhaseOf, ModelsOf

\* Nothing about q is touched: the abstract breaker of q holds still.
LEMMA Untouched ==
    ASSUME NEW q \in Providers, since'[q] = since[q], tripCount'[q] = tripCount[q],
           \A m \in ModelsOf(q) : age'[m] = age[m]
    PROVE  CB!Step(q)
<1>1. PhaseMap'[q] = PhaseMap[q] /\ RungMap'[q] = RungMap[q]
  BY DEF PhaseMap, RungMap, PhaseOf
<1>2. SuspectMap'[q] = SuspectMap[q]
  BY DEF SuspectMap, ModelsOf
<1>3. QED
  BY <1>1, <1>2 DEF CB!Step, CB!Hold, CB!Suspicion, PhaseMap, RungMap, SuspectMap

\* A recorded failure trips, re-trips or leaves the breaker of its provider.
LEMMA FailureMaps ==
    ASSUME BreakerInv, NEW m \in Models, NEW kind, NEW text,
           RecordProviderFailure(m, kind, text), NEW q \in Providers
    PROVE  CB!Step(q)
<1> DEFINE p == ProviderOf[m]
<1>1. p \in Providers /\ m \in ModelsOf(p)
  BY ProvidersAssumption DEF ModelsOf
<1>2. /\ NextStep(p) \in 1 .. Len(Ladder)
      /\ Ladder[NextStep(p)] \in 1 .. LadderTop
  BY <1>1, StepIsARung
<1>3. age' = [age EXCEPT ![m] = 0]
  BY DEF RecordProviderFailure
<1> HIDE DEF p
<1>4. CASE q # p
  <2>1. since'[q] = since[q] /\ tripCount'[q] = tripCount[q]
    BY <1>4 DEF RecordProviderFailure, BreakerInv, p
  <2>2. \A n \in ModelsOf(q) : age'[n] = age[n]
    BY <1>3, <1>4 DEF ModelsOf, BreakerInv, p
  <2>3. QED
    BY <2>1, <2>2, Untouched
<1>5. CASE q = p
  <2>1. SuspectMap'[p] = EvidenceWith(m)
    BY <1>1, <1>3, TuningAssumption DEF SuspectMap, EvidenceWith, ModelsOf, BreakerInv, p
  <2>2. SuspectMap'[p] \subseteq SuspectMap[p] \cup {m}
    BY <1>1, <2>1 DEF SuspectMap, EvidenceWith, ModelsOf, p
  <2>3. CASE Opens(m)
    <3>1. since'[p] = -Ladder[NextStep(p)] /\ tripCount'[p] = NextStep(p)
      BY <1>1, <2>3 DEF RecordProviderFailure, BreakerInv, p
    <3>2. PhaseMap'[p] = "open" /\ RungMap'[p] = NextStep(p)
      BY <1>1, <1>2, <3>1, TuningAssumption DEF PhaseMap, RungMap, PhaseOf
    <3>3. ~(since[p] < 0)
      BY <2>3 DEF Opens, IsProviderOpen, p
    <3>4. CASE since[p] < Window
      <4>1. PhaseMap[p] = "half_open" /\ RungMap[p] = tripCount[p]
        BY <1>1, <3>3, <3>4 DEF PhaseMap, RungMap, PhaseOf
      <4>2. NextStep(p) = IF tripCount[p] < Len(Ladder) THEN tripCount[p] + 1 ELSE Len(Ladder)
        BY <1>1, <3>4, TuningAssumption DEF NextStep, TripBase, BreakerInv
      <4>3. SuspectMap'[p] # {}
        BY <2>1 DEF EvidenceWith
      <4>4. CB!Retrip(p)
        BY <3>2, <4>1, <4>2, <4>3 DEF CB!Retrip, PhaseMap, RungMap, SuspectMap
      <4>5. QED
        BY <1>5, <4>4 DEF CB!Step
    <3>5. CASE ~(since[p] < Window)
      <4>1. PhaseMap[p] = "closed" /\ TripBase(p) = 0
        BY <1>1, <3>3, <3>5, TuningAssumption DEF PhaseMap, PhaseOf, TripBase, BreakerInv
      <4>2. NextStep(p) = 1
        BY <4>1, TuningAssumption DEF NextStep
      <4>3. Cardinality(SuspectMap'[p]) >= MinModels[p]
        BY <2>1, <2>3, <4>1 DEF Opens, p
      <4>4. CB!Suspicion(p)
        BY <2>2 DEF CB!Suspicion, SuspectMap
      <4>5. CB!Cardinality(SuspectMap'[p]) >= MinModels[p]
        BY <4>3 DEF Cardinality, CB!Cardinality
      <4>6. CB!Trip(p)
        BY <3>2, <4>1, <4>2, <4>4, <4>5 DEF CB!Trip, PhaseMap, RungMap, SuspectMap
      <4>7. QED
        BY <1>5, <4>6 DEF CB!Step
    <3>6. QED
      BY <3>4, <3>5
  <2>4. CASE ~Opens(m)
    <3>1. since' = since
      BY <2>4 DEF RecordProviderFailure
    <3>2. tripCount'[p] = IF IsProviderOpen(p) THEN tripCount[p] ELSE TripBase(p)
      BY <1>1, <2>4 DEF RecordProviderFailure, BreakerInv, p
    <3>3. since[p] < 0 \/ ~(since[p] < Window)
      BY <1>1, <2>4, TuningAssumption
         DEF Opens, IsProviderOpen, TripBase, BreakerInv, p
    <3>4. RungMap'[p] = RungMap[p]
      BY <1>1, <3>1, <3>2, <3>3 DEF RungMap, IsProviderOpen
    <3>5. PhaseMap'[p] = PhaseMap[p]
      BY <1>1, <3>1 DEF PhaseMap, PhaseOf
    <3>6. CB!Hold(p)
      BY <2>2, <3>4, <3>5 DEF CB!Hold, CB!Suspicion, PhaseMap, RungMap, SuspectMap
    <3>7. QED
      BY <1>5, <3>6 DEF CB!Step
  <2>5. QED
    BY <2>3, <2>4
<1>6. QED
  BY <1>4, <1>5

\* A provider whose state is forgotten is closed.
LEMMA ForgottenMaps ==
    ASSUME NEW q \in Providers, since'[q] = Window, tripCount'[q] = 0,
           \A m \in ModelsOf(q) : age'[m] = Window
    PROVE  CB!Step(q)
<1>1. PhaseMap'[q] = "closed" /\ RungMap'[q] = 0 /\ SuspectMap'[q] = {}
  BY TuningAssumption DEF PhaseMap, RungMap, SuspectMap, PhaseOf, ModelsOf
<1>2. QED
  BY <1>1 DEF CB!Step, CB!Close, PhaseMap, RungMap, SuspectMap

\* A tick ends the cooldown, lets a trip lapse, or only ages the evidence.
LEMMA TickMaps ==
    ASSUME BreakerInv, Tick, NEW q \in Providers
    PROVE  CB!Step(q)
<1>1. /\ since[q] \in Int
      /\ since'[q] = IF since[q] < Window THEN since[q] + 1 ELSE Window
      /\ tripCount'[q] = tripCount[q]
  BY DEF Tick, BreakerInv
<1>2. since[q] <= Window
  BY TuningAssumption DEF BreakerInv
<1>3. SuspectMap'[q] \subseteq SuspectMap[q]
  BY TuningAssumption DEF SuspectMap, ModelsOf, Tick, BreakerInv
<1>4. CASE since[q] = -1
  <2>1. CB!Expire(q)
    BY <1>1, <1>3, <1>4, TuningAssumption
       DEF CB!Expire, PhaseMap, RungMap, SuspectMap, PhaseOf
  <2>2. QED
    BY <2>1 DEF CB!Step
<1>5. CASE since[q] = Window - 1
  <2>1. CB!Lapse(q)
    BY <1>1, <1>3, <1>5, TuningAssumption
       DEF CB!Lapse, PhaseMap, RungMap, SuspectMap, PhaseOf
  <2>2. QED
    BY <2>1 DEF CB!Step
<1>6. CASE since[q] # -1 /\ since[q] # Window - 1
  <2>1. PhaseMap'[q] = PhaseMap[q]
    BY <1>1, <1>2, <1>6, TuningAssumption DEF PhaseMap, PhaseOf
  <2>2. RungMap'[q] = RungMap[q]
    BY <1>1, <1>2, <1>6, TuningAssumption DEF RungMap
  <2>3. CB!Hold(q)
    BY <1>3, <2>1, <2>2 DEF CB!Hold, CB!Suspicion, PhaseMap, RungMap, SuspectMap
  <2>4. QED
    BY <2>3 DEF CB!Step
<1>7. QED
  BY <1>4, <1>5, <1>6

LEMMA NextMaps == BreakerInv /\ [Next]_vars => [CB!Next]_(CB!vars)
<1> SUFFICES ASSUME BreakerInv, [Next]_vars
             PROVE  CB!Next \/ UNCHANGED CB!vars
  OBVIOUS
<1>1. ASSUME NEW m \in Models, NEW kind \in Kinds, NEW text \in Texts,
             RecordProviderFailure(m, kind, text)
      PROVE  CB!Next
  BY <1>1, FailureMaps DEF CB!Next
<1>2. ASSUME NEW m \in Models, RecordProviderSuccess(m)
      PROVE  CB!Next
  <2>1. ASSUME NEW q \in Providers PROVE CB!Step(q)
    <3>1. CASE q = ProviderOf[m]
      <4>1. since'[q] = Window /\ tripCount'[q] = 0
        BY <1>2, <3>1 DEF RecordProviderSuccess, BreakerInv
      <4>2. \A n \in ModelsOf(q) : age'[n] = Window
        BY <1>2, <3>1 DEF RecordProviderSuccess, ModelsOf
      <4>3. QED
        BY <4>1, <4>2, ForgottenMaps
    <3>2. CASE q # ProviderOf[m]
      <4>1. since'[q] = since[q] /\ tripCount'[q] = tripCount[q]
        BY <1>2, <3>2 DEF RecordProviderSuccess, BreakerInv
      <4>2. \A n \in ModelsOf(q) : age'[n] = age[n]
        BY <1>2, <3>2 DEF RecordProviderSuccess, ModelsOf
      <4>3. QED
        BY <4>1, <4>2, Untouched
    <3>3. QED
      BY <3>1, <3>2
  <2>2. QED
    BY <2>1 DEF CB!Next
<1>3. CASE ClearBreakers
  <2>1. ASSUME NEW q \in Providers PROVE CB!Step(q)
    BY <1>3, ForgottenMaps DEF ClearBreakers, ModelsOf
  <2>2. QED
    BY <2>1 DEF CB!Next
<1>4. CASE Reload \/ UNCHANGED vars
  BY <1>4 DEF Reload, vars, CB!vars, PhaseOf
<1>5. CASE Tick
  BY <1>5, TickMaps DEF CB!Next
<1>6. QED
  BY <1>1, <1>2, <1>3, <1>4, <1>5 DEF Next

(* For every set of providers and models, every window and every ladder,   *)
(* the code's timestamps and counters implement the breaker of ADR-0026.   *)
THEOREM BreakerRefinement == Spec => ImplementsCircuitBreaker
<1>1. Init => CB!Init
  BY InitMaps
<1>2. BreakerInv /\ [Next]_vars => [CB!Next]_(CB!vars)
  BY NextMaps
<1>3. QED
  BY <1>1, <1>2, BreakerInvariant, PTL DEF Spec, ImplementsCircuitBreaker, CB!Spec
=============================================================================
