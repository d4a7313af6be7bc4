---------------------------- MODULE RoutingProofs ----------------------------
(***************************************************************************)
(* BlocksEarned for any models, texts and number of failures, of the        *)
(* learned blocklist alone and of the router.  It is not inductive: a       *)
(* failure may block on the word of the streak, so the streak must be       *)
(* covered by the history as a block is.  Routing drives the blocklist by   *)
(* the blocklist's operations only, so what holds of the list for every     *)
(* order of them holds of the router.                                       *)
(*                                                                          *)
(* TurnsServed and ListsServe for any models, groups and scenes.  The       *)
(* invariant of both is RoutingShape, which only says what the variables    *)
(* are; the rest is about the operators, one resolution after another:      *)
(* every sort of a pipeline is a stable sort by a comparison, every         *)
(* demotion keeps the entries, a chain of fallbacks is read group by group  *)
(* and a turn gathers what each of them resolves to.                        *)
(***************************************************************************)
EXTENDS Routing, ListsProofs

\* A streak is of an unknown text of a cloud model, and counts nothing the
\* history does not hold.
Covered(r) ==
    LET t == streak[r].signature IN
    /\ t \in Unknown /\ r \notin LocalRefs
    /\ streak[r].count <= seen[r][t].n
    /\ streak[r].long => seen[r][t].long
StreaksCovered == \A r \in Refs : streak[r] # NoStreak => Covered(r)

IInv == BlocksEarned /\ StreaksCovered

\* A count stays within its bound, and a longer one stays the longer one.
LEMMA UpToBounds ==
    ASSUME NEW n \in Nat, NEW k \in Nat, k <= n
    PROVE  UpTo(n) \in 0..MinFailures /\ UpTo(k) <= UpTo(n) /\ (n >= 1 => UpTo(n) >= 1)
BY BlocklistAssumption DEF UpTo

\* The empty lists hold nothing against anybody.
LEMMA InitIInv == BlocklistInit => IInv
<1> SUFFICES ASSUME BlocklistInit PROVE IInv
  OBVIOUS
<1>1. BlocklistType
  BY BlocklistAssumption DEF BlocklistInit, BlocklistType, Unseen
<1> QED
  BY <1>1 DEF IInv, BlocksEarned, StreaksCovered, BlocklistInit

\* What one failure does to the history of its model.
LEMMA SeenStep ==
    ASSUME BlocklistType, NEW r \in Refs, NEW t \in Texts, Seen(r, t)
    PROVE  /\ seen' \in [Refs -> [Texts -> [n : 0..MinFailures, long : BOOLEAN]]]
           /\ \A q \in Refs : q # r => seen'[q] = seen[q]
           /\ \A u \in Texts : /\ seen'[r][u].n >= seen[r][u].n
                               /\ seen'[r][u].long = seen[r][u].long
           /\ seen'[r][t].n = UpTo(seen[r][t].n + 1)
           /\ \A q \in Refs, u \in Texts : /\ seen'[q][u].n >= seen[q][u].n
                                          /\ seen'[q][u].long = seen[q][u].long
<1> USE BlocklistAssumption
<1>1. seen[r][t].n \in Nat /\ seen[r][t].n <= MinFailures /\ seen[r][t].long \in BOOLEAN
  BY DEF BlocklistType
<1>2. UpTo(seen[r][t].n + 1) \in 0..MinFailures /\ UpTo(seen[r][t].n + 1) >= seen[r][t].n
  BY <1>1 DEF UpTo
<1>3. seen' = [seen EXCEPT ![r] = [seen[r] EXCEPT ![t] =
                 [seen[r][t] EXCEPT !.n = UpTo(seen[r][t].n + 1)]]]
  BY DEF Seen, BlocklistType
<1>4. [seen[r][t] EXCEPT !.n = UpTo(seen[r][t].n + 1)]
        = [n |-> UpTo(seen[r][t].n + 1), long |-> seen[r][t].long]
  BY DEF BlocklistType
<1>5. seen'[r] = [seen[r] EXCEPT ![t] = [n |-> UpTo(seen[r][t].n + 1), long |-> seen[r][t].long]]
  BY <1>3, <1>4 DEF BlocklistType
<1>6. \A u \in Texts : u # t => seen'[r][u] = seen[r][u]
  BY <1>5 DEF BlocklistType
<1>7. seen'[r][t] = [n |-> UpTo(seen[r][t].n + 1), long |-> seen[r][t].long]
  BY <1>5 DEF BlocklistType
<1>8. \A q \in Refs : q # r => seen'[q] = seen[q]
  BY <1>3 DEF BlocklistType
<1>9. seen' \in [Refs -> [Texts -> [n : 0..MinFailures, long : BOOLEAN]]]
  BY <1>1, <1>2, <1>3, <1>4 DEF BlocklistType
<1>10. \A q \in Refs, u \in Texts : seen[q][u].n \in Nat
  BY DEF BlocklistType
<1>11. \A u \in Texts : /\ seen'[r][u].n >= seen[r][u].n
                        /\ seen'[r][u].long = seen[r][u].long
  BY <1>2, <1>6, <1>7, <1>10
<1>12. \A q \in Refs, u \in Texts : /\ seen'[q][u].n >= seen[q][u].n
                                    /\ seen'[q][u].long = seen[q][u].long
  BY <1>8, <1>10, <1>11
<1> QED
  BY <1>2, <1>7, <1>8, <1>9, <1>11, <1>12

\* The history only grows, so what it held against a model it still holds.
LEMMA StillConvicted ==
    ASSUME BlocklistType, NEW r \in Refs, NEW t \in Texts, Seen(r, t),
           NEW q \in Refs, NEW u \in Texts, Convicted(q, u)
    PROVE  Convicted(q, u)'
<1> USE BlocklistAssumption
<1>1. seen[q][u].n \in Nat /\ seen'[q][u].n \in Nat
  BY SeenStep DEF BlocklistType
<1>2. seen'[q][u].n >= seen[q][u].n /\ seen'[q][u].long = seen[q][u].long
  BY <1>1, SeenStep
<1> QED
  BY <1>1, <1>2 DEF Convicted

\* A block for a text that convicts is earned, and ends the streak.
LEMMA BlockIInv ==
    ASSUME IInv, NEW r \in Refs, NEW t \in Texts, Seen(r, t), Block(r, t), Convicted(r, t)'
    PROVE  IInv'
<1>1. BlocklistType'
  BY SeenStep DEF IInv, BlocksEarned, BlocklistType, Block, Blocks
<1>2. ASSUME NEW q \in Refs, block'[q] # NoBlock PROVE Convicted(q, block[q].signature)'
  <2>1. CASE q = r
    BY <2>1 DEF Block, IInv, BlocksEarned, BlocklistType, Convicted
  <2>2. CASE q # r
    <3>1. block'[q] = block[q] /\ block[q] \in Blocks
      BY <1>2, <2>2 DEF Block, IInv, BlocksEarned, BlocklistType
    <3>2. PICK u \in Texts : block[q].signature = u /\ block'[q].signature = u
      BY <3>1 DEF Blocks
    <3>3. Convicted(q, u)'
      BY <1>2, <3>1, <3>2, StillConvicted DEF IInv, BlocksEarned
    <3> QED
      BY <3>2, <3>3 DEF Convicted
  <2> QED
    BY <2>1, <2>2
<1>3. StreaksCovered'
  BY SeenStep DEF IInv, BlocksEarned, BlocklistType, StreaksCovered, Covered, Block
<1> QED
  BY <1>1, <1>2, <1>3 DEF IInv, BlocksEarned

\* A failure that neither blocks nor counts changes the history only.
LEMMA HistoryIInv ==
    ASSUME IInv, NEW r \in Refs, NEW t \in Texts, Seen(r, t), UNCHANGED <<block, streak>>
    PROVE  IInv'
<1>1. BlocklistType'
  BY SeenStep DEF IInv, BlocksEarned, BlocklistType
<1>2. ASSUME NEW q \in Refs, block'[q] # NoBlock PROVE Convicted(q, block[q].signature)'
  <2>1. block[q] \in Blocks
    BY <1>2 DEF IInv, BlocksEarned, BlocklistType
  <2>2. PICK u \in Texts : block[q].signature = u /\ block'[q].signature = u
    BY <2>1 DEF Blocks
  <2>3. Convicted(q, u)'
    BY <1>2, <2>2, StillConvicted DEF IInv, BlocksEarned
  <2> QED
    BY <2>2, <2>3 DEF Convicted
<1>3. ASSUME NEW q \in Refs, streak'[q] # NoStreak PROVE Covered(q)'
  <2>1. Covered(q) /\ streak[q] \in Streaks
    BY <1>3 DEF IInv, BlocksEarned, BlocklistType, StreaksCovered
  <2> DEFINE u == streak[q].signature
  <2>2. u \in Texts /\ seen[q][u].n \in Nat /\ seen'[q][u].n \in Nat /\ streak[q].count \in Nat
    BY <2>1, SeenStep DEF IInv, BlocksEarned, BlocklistType, Streaks
  <2>3. seen'[q][u].n >= seen[q][u].n /\ seen'[q][u].long = seen[q][u].long
    BY <2>2, SeenStep DEF IInv, BlocksEarned
  <2> QED
    BY <2>1, <2>2, <2>3 DEF Covered
<1> QED
  BY <1>1, <1>2, <1>3 DEF IInv, BlocksEarned, StreaksCovered

\* An unknown text of a cloud model: the streak decides, and its count never
\* runs ahead of the history.
LEMMA SuspectsIInv ==
    ASSUME IInv, NEW r \in Refs, NEW t \in Unknown, r \notin LocalRefs, Seen(r, t), Suspects(r, t)
    PROVE  IInv'
<1> USE BlocklistAssumption
<1> DEFINE c == Counted(r, t)
<1>1. t \in Texts /\ BlocklistType
  BY DEF Texts, IInv, BlocksEarned
<1>2. /\ seen[r][t].n \in 0..MinFailures /\ seen[r][t].long \in BOOLEAN
      /\ seen'[r][t].n = UpTo(seen[r][t].n + 1) /\ seen'[r][t].long = seen[r][t].long
  BY <1>1, SeenStep DEF BlocklistType
<1>3. c \in Streaks /\ c.signature = t /\ c.count <= seen'[r][t].n /\ (c.long => seen'[r][t].long)
  <2>1. CASE streak[r].signature # t \/ streak[r].stale
    <3>1. c = [signature |-> t, count |-> 1, long |-> FALSE, stale |-> FALSE]
      BY <2>1 DEF Counted
    <3> QED
      BY <1>1, <1>2, <3>1 DEF Streaks, UpTo
  <2>2. CASE streak[r].signature = t /\ ~streak[r].stale
    <3>1. streak[r] # NoStreak /\ streak[r] \in Streaks
      BY <1>1, <2>2 DEF BlocklistType, NoStreak
    <3>2. streak[r].count <= seen[r][t].n /\ (streak[r].long => seen[r][t].long)
      BY <2>2, <3>1 DEF IInv, StreaksCovered, Covered
    <3>3. c = [streak[r] EXCEPT !.count = UpTo(streak[r].count + 1)]
      BY <2>2 DEF Counted
    <3> HIDE DEF c
    <3> QED
      BY <1>1, <1>2, <2>2, <3>1, <3>2, <3>3 DEF Streaks, UpTo
  <2> QED
    BY <2>1, <2>2
<1>4. CASE block[r].signature = t \/ (c.count >= MinFailures /\ c.long)
  <2>1. Convicted(r, t)'
    <3>1. CASE block[r].signature = t
      <4>1. block[r] # NoBlock
        BY <1>1, <3>1 DEF NoBlock
      <4>2. Convicted(r, t)
        BY <3>1, <4>1 DEF IInv, BlocksEarned
      <4> QED
        BY <1>1, <4>2, StillConvicted
    <3>2. CASE c.count >= MinFailures /\ c.long
      <4> HIDE DEF c
      <4> QED
        BY <1>1, <1>2, <1>3, <3>2, SeenStep DEF Convicted, Streaks, UpTo
    <3> QED
      BY <1>4, <3>1, <3>2
  <2>2. Block(r, t)
    BY <1>4 DEF Suspects
  <2> QED
    BY <1>1, <2>1, <2>2, BlockIInv
<1>5. CASE ~(block[r].signature = t \/ (c.count >= MinFailures /\ c.long))
  <2>1. streak' = [streak EXCEPT ![r] = c] /\ block' = block
    BY <1>5 DEF Suspects
  <2> HIDE DEF c
  <2>2. BlocklistType'
    BY <1>1, <1>3, <2>1, SeenStep DEF BlocklistType
  <2>3. ASSUME NEW q \in Refs, block'[q] # NoBlock PROVE Convicted(q, block[q].signature)'
    <3>1. PICK u \in Texts : block[q].signature = u /\ block'[q].signature = u
      BY <1>1, <2>1, <2>3 DEF BlocklistType, Blocks
    <3>2. Convicted(q, u)'
      BY <1>1, <2>1, <2>3, <3>1, StillConvicted DEF IInv, BlocksEarned
    <3> QED
      BY <3>1, <3>2 DEF Convicted
  <2>4. ASSUME NEW q \in Refs, streak'[q] # NoStreak PROVE Covered(q)'
    <3>1. CASE q = r
      <4>1. streak'[r] = c
        BY <1>1, <2>1 DEF BlocklistType
      <4> QED
        BY <1>2, <1>3, <3>1, <4>1 DEF Covered
    <3>2. CASE q # r
      <4>1. streak'[q] = streak[q] /\ seen'[q] = seen[q]
        BY <1>1, <2>1, <3>2, SeenStep DEF BlocklistType
      <4> QED
        BY <2>4, <4>1 DEF IInv, StreaksCovered, Covered
    <3> QED
      BY <3>1, <3>2
  <2> QED
    BY <2>2, <2>3, <2>4 DEF IInv, BlocksEarned, StreaksCovered
<1> QED
  BY <1>4, <1>5

\* recordBlocklistFailure, whatever the text.
LEMMA FailureIInv ==
    ASSUME IInv, NEW r \in Refs, NEW t \in Texts, RecordBlocklistFailure(r, t)
    PROVE  IInv'
<1> USE BlocklistAssumption
<1>1. Seen(r, t) /\ BlocklistType
  BY DEF RecordBlocklistFailure, IInv, BlocksEarned
<1>2. CASE t \in Permanent
  <2>1. Block(r, t)
    BY <1>2 DEF RecordBlocklistFailure
  <2>2. seen[r][t].n \in 0..MinFailures /\ seen'[r][t].n = UpTo(seen[r][t].n + 1)
    BY <1>1, SeenStep DEF BlocklistType
  <2>3. Convicted(r, t)'
    BY <1>2, <2>2 DEF Convicted, UpTo
  <2> QED
    BY <1>1, <2>1, <2>3, BlockIInv
<1>3. CASE t \in Unknown /\ r \notin LocalRefs
  <2>1. t \notin Permanent
    BY <1>3
  <2>2. Suspects(r, t)
    BY <1>3, <2>1 DEF RecordBlocklistFailure
  <2> QED
    BY <1>1, <1>3, <2>2, SuspectsIInv
<1>4. CASE t \notin Permanent /\ ~(t \in Unknown /\ r \notin LocalRefs)
  <2>1. UNCHANGED <<block, streak>>
    BY <1>4 DEF RecordBlocklistFailure
  <2> QED
    BY <1>1, <2>1, HistoryIInv
<1> QED
  BY <1>2, <1>3, <1>4

\* Whatever is untouched but for one model that starts over stays covered.
LEMMA AnswerIInv ==
    ASSUME IInv, NEW r \in Refs, RecordBlocklistSuccess(r)
    PROVE  IInv'
<1> USE BlocklistAssumption
<1>1. BlocklistType
  BY DEF IInv, BlocksEarned
<1>2. Unseen \in [Texts -> [n : 0..MinFailures, long : BOOLEAN]]
  BY DEF Unseen
<1>3. BlocklistType'
  BY <1>1, <1>2 DEF RecordBlocklistSuccess, BlocklistType
<1>4. ASSUME NEW q \in Refs
      PROVE  \/ block'[q] = NoBlock /\ streak'[q] = NoStreak
             \/ block'[q] = block[q] /\ streak'[q] = streak[q] /\ seen'[q] = seen[q]
  BY <1>1 DEF RecordBlocklistSuccess, BlocklistType
<1>5. ASSUME NEW q \in Refs, block'[q] # NoBlock PROVE Convicted(q, block[q].signature)'
  BY <1>4, <1>5 DEF IInv, BlocksEarned, Convicted
<1>6. ASSUME NEW q \in Refs, streak'[q] # NoStreak PROVE Covered(q)'
  BY <1>4, <1>6 DEF IInv, StreaksCovered, Covered
<1> QED
  BY <1>3, <1>5, <1>6 DEF IInv, BlocksEarned, StreaksCovered

LEMMA ClearIInv == IInv /\ ClearBlocklist => IInv'
<1> SUFFICES ASSUME IInv, ClearBlocklist PROVE IInv'
  OBVIOUS
<1>1. BlocklistType'
  BY BlocklistAssumption DEF ClearBlocklist, BlocklistType, Unseen
<1> QED
  BY <1>1 DEF IInv, BlocksEarned, StreaksCovered, ClearBlocklist

\* An expiry forgets no text and convicts nobody.
LEMMA ExpiredBlocks ==
    ASSUME BlocklistType, NEW r \in Refs, block' = block \/ Expired(r)
    PROVE  /\ block' \in [Refs -> Blocks \cup {NoBlock}]
           /\ \A q \in Refs : block'[q] # NoBlock =>
                 block[q] # NoBlock /\ block'[q].signature = block[q].signature
<1>1. CASE block' = block
  BY <1>1 DEF BlocklistType
<1>2. CASE Expired(r)
  <2> DEFINE b == [signature |-> block[r].signature, old |-> TRUE]
  <2>1. block' = [block EXCEPT ![r] = b]
    BY <1>2 DEF Expired
  <2>2. block[r] \in Blocks \/ block[r] = NoBlock
    BY DEF BlocklistType
  <2>3. block[r] = NoBlock => b = NoBlock
    BY DEF NoBlock
  <2>4. block[r] \in Blocks => b \in Blocks /\ b.signature = block[r].signature /\ block[r] # NoBlock
    BY BlocklistAssumption DEF Blocks, NoBlock
  <2> HIDE DEF b
  <2> QED
    BY <2>1, <2>2, <2>3, <2>4 DEF BlocklistType
<1> QED
  BY <1>1, <1>2

\* A streak that grows old keeps its text and its count.
LEMMA AgedStreak ==
    ASSUME BlocklistType, NEW r \in Refs, NEW weeks \in BOOLEAN
    PROVE  \/ streak[r] = NoStreak /\ Aged(r, weeks) = NoStreak
           \/ /\ streak[r] \in Streaks /\ Aged(r, weeks) \in Streaks
              /\ streak[r] # NoStreak
              /\ Aged(r, weeks).signature = streak[r].signature
              /\ Aged(r, weeks).count = streak[r].count
<1>1. CASE streak[r] = NoStreak
  BY <1>1 DEF Aged
<1>2. CASE streak[r] # NoStreak
  <2>1. streak[r] \in Streaks
    BY <1>2 DEF BlocklistType
  <2> DEFINE stale == streak[r].stale \/ weeks
  <2>2. stale \in BOOLEAN
    OBVIOUS
  <2>3. Aged(r, weeks) = [streak[r] EXCEPT !.long = TRUE, !.stale = stale]
    BY <1>2 DEF Aged
  <2> HIDE DEF stale
  <2> QED
    BY <1>2, <2>1, <2>2, <2>3 DEF Streaks
<1> QED
  BY <1>1, <1>2

\* Time: what was enough to convict stays enough, and a failure on a streak
\* that is now an hour old was seen an hour ago.
LEMMA OlderIInv ==
    ASSUME IInv, NEW r \in Refs, NEW weeks \in BOOLEAN, Older(r),
           streak' = [streak EXCEPT ![r] = Aged(r, weeks)], block' = block \/ Expired(r)
    PROVE  IInv'
<1> USE BlocklistAssumption
<1>1. BlocklistType
  BY DEF IInv, BlocksEarned
<1> DEFINE o == [u \in Texts |-> [n |-> seen[r][u].n, long |-> seen[r][u].n > 0]]
<1>2. seen' = [seen EXCEPT ![r] = o]
  BY DEF Older
<1>3. o \in [Texts -> [n : 0..MinFailures, long : BOOLEAN]]
  BY <1>1 DEF BlocklistType
<1>4. \A u \in Texts : o[u].n = seen[r][u].n /\ o[u].n \in Nat /\ (seen[r][u].n > 0 => o[u].long = TRUE)
  <2> SUFFICES ASSUME NEW u \in Texts
               PROVE  o[u].n = seen[r][u].n /\ o[u].n \in Nat /\ (seen[r][u].n > 0 => o[u].long = TRUE)
    OBVIOUS
  <2>1. o[u].n = seen[r][u].n /\ o[u].n \in Nat
    BY <1>1 DEF BlocklistType
  <2>2. o[u].long = (seen[r][u].n > 0)
    BY <1>1 DEF BlocklistType
  <2>3. seen[r][u].n > 0 => (seen[r][u].n > 0) = TRUE
    BY Zenon
  <2> QED
    BY <2>1, <2>2, <2>3, Zenon
<1> HIDE DEF o
<1>5. BlocklistType'
  BY <1>1, <1>2, <1>3, AgedStreak, ExpiredBlocks DEF BlocklistType
<1>6. ASSUME NEW q \in Refs, block'[q] # NoBlock PROVE Convicted(q, block[q].signature)'
  <2>1. block[q] # NoBlock /\ block'[q].signature = block[q].signature
    BY <1>1, <1>6, ExpiredBlocks
  <2>2. PICK u \in Texts : block[q].signature = u
    BY <1>1, <2>1 DEF BlocklistType, Blocks
  <2>3. Convicted(q, u)
    BY <2>1, <2>2 DEF IInv, BlocksEarned
  <2>4. CASE q = r
    <3>1. seen'[q][u] = o[u]
      BY <1>1, <1>2, <2>4 DEF BlocklistType
    <3>2. seen'[q][u].n = seen[q][u].n /\ seen[q][u].n \in Nat
          /\ (seen[q][u].n > 0 => seen'[q][u].long)
      BY <1>4, <2>4, <3>1
    <3>3. Convicted(q, u)'
      BY <2>3, <3>2 DEF Convicted
    <3> QED
      BY <2>1, <2>2, <3>3 DEF Convicted
  <2>5. CASE q # r
    <3>1. seen'[q] = seen[q]
      BY <1>1, <1>2, <2>5 DEF BlocklistType
    <3> QED
      BY <2>1, <2>2, <2>3, <3>1 DEF Convicted
  <2> QED
    BY <2>4, <2>5
<1>7. ASSUME NEW q \in Refs, streak'[q] # NoStreak PROVE Covered(q)'
  <2>1. CASE q = r
    <3>1. streak'[q] = Aged(r, weeks)
      BY <1>1, <2>1 DEF BlocklistType
    <3>2. /\ streak[r] \in Streaks /\ streak[r] # NoStreak
          /\ streak'[q].signature = streak[r].signature /\ streak'[q].count = streak[r].count
      BY <1>1, <1>7, <3>1, AgedStreak
    <3>3. PICK u \in Unknown : streak[r].signature = u
      BY <3>2 DEF IInv, StreaksCovered, Covered
    <3>4. streak[r].count >= 1 /\ streak[r].count \in Nat /\ streak[r].count <= seen[r][u].n
          /\ r \notin LocalRefs
      BY <3>2, <3>3 DEF IInv, StreaksCovered, Covered, Streaks
    <3>5. seen'[q][u] = o[u] /\ u \in Texts
      BY <1>1, <1>2, <2>1, <3>3 DEF BlocklistType, Texts
    <3>6. o[u].n = seen[r][u].n /\ o[u].n >= 1
      BY <1>4, <3>4, <3>5
    <3>7. o[u].long = TRUE
      BY <1>4, <3>5, <3>6
    <3> QED
      BY <2>1, <3>2, <3>3, <3>4, <3>5, <3>6, <3>7 DEF Covered
  <2>2. CASE q # r
    <3>1. streak'[q] = streak[q] /\ seen'[q] = seen[q]
      BY <1>1, <1>2, <2>2 DEF BlocklistType
    <3> QED
      BY <1>7, <3>1 DEF IInv, StreaksCovered, Covered
  <2> QED
    BY <2>1, <2>2
<1> QED
  BY <1>5, <1>6, <1>7 DEF IInv, BlocksEarned, StreaksCovered

\* The block alone expires.
LEMMA ExpireIInv == ASSUME IInv, NEW r \in Refs, Expire(r) PROVE IInv'
<1>1. BlocklistType /\ UNCHANGED <<streak, seen>> /\ Expired(r)
  BY DEF Expire, IInv, BlocksEarned
<1>2. BlocklistType'
  BY <1>1, ExpiredBlocks DEF BlocklistType
<1>3. ASSUME NEW q \in Refs, block'[q] # NoBlock PROVE Convicted(q, block[q].signature)'
  BY <1>1, <1>3, ExpiredBlocks DEF IInv, BlocksEarned, Convicted
<1>4. StreaksCovered'
  BY <1>1 DEF IInv, StreaksCovered, Covered
<1> QED
  BY <1>2, <1>3, <1>4 DEF IInv, BlocksEarned

\* Every step preserves the invariant.
LEMMA NextIInv == IInv /\ [BlocklistNext]_blockVars => IInv'
<1> SUFFICES ASSUME IInv, [BlocklistNext]_blockVars PROVE IInv'
  OBVIOUS
<1>1. ASSUME NEW r \in Refs, NEW t \in Texts, RecordBlocklistFailure(r, t) PROVE IInv'
  BY <1>1, FailureIInv
<1>2. ASSUME NEW r \in Refs, RecordBlocklistSuccess(r) PROVE IInv'
  BY <1>2, AnswerIInv
<1>3. ASSUME NEW r \in Refs, Hour(r) PROVE IInv'
  BY <1>3, OlderIInv DEF Hour
<1>4. ASSUME NEW r \in Refs, Week(r) PROVE IInv'
  BY <1>4, OlderIInv DEF Week
<1>5. ASSUME NEW r \in Refs, Expire(r) PROVE IInv'
  BY <1>5, ExpireIInv
<1>6. CASE ClearBlocklist
  BY <1>6, ClearIInv
<1>7. CASE UNCHANGED blockVars
  BY <1>7 DEF blockVars, IInv, BlocksEarned, BlocklistType, StreaksCovered, Covered, Convicted
<1> QED
  BY <1>1, <1>2, <1>3, <1>4, <1>5, <1>6, <1>7 DEF BlocklistNext

\* No model is ever blocked for less than the blocklist asks for, however its
\* failures, answers and expiries are interleaved with those of others.
THEOREM BlocksAlwaysEarned == BlocklistSpec => []BlocksEarned
<1>1. IInv => BlocksEarned
  BY DEF IInv
<1> QED
  BY InitIInv, NextIInv, <1>1, PTL DEF BlocklistSpec

-----------------------------------------------------------------------------
\* Every step of the router is a step of the blocklist, or leaves it alone.
LEMMA RoutingDrivesBlocklist ==
    ASSUME scene \in Scenes, [Next]_vars
    PROVE  [BlocklistNext]_blockVars /\ (scene \in Scenes)'
<1> USE RoutingAssumption
<1>1. ASSUME NEW n \in Names, Route(n) PROVE UNCHANGED <<blockVars, scene>>
  BY <1>1 DEF Route, tables
<1>2. ASSUME NEW r \in Refs, Fails(r) PROVE [BlocklistNext]_blockVars /\ UNCHANGED scene
  <2>1. scene.texts[r] \subseteq Texts
    BY DEF RoutingAssumption
  <2> QED
    BY <1>2, <2>1 DEF Fails, tables, BlocklistNext
<1>3. ASSUME NEW r \in Refs, Answers(r) \/ Passes(r) \/ Ends(r)
      PROVE  [BlocklistNext]_blockVars /\ UNCHANGED scene
  BY <1>3 DEF Answers, Passes, Ends, tables, BlocklistNext
<1>4. CASE Clears
  BY <1>4 DEF Clears, tables, BlocklistNext
<1>5. CASE Spends \/ Regenerate \/ RegistryChanges
  BY <1>5 DEF Spends, Regenerate, RegistryChanges, tables
<1>6. CASE UNCHANGED vars
  BY <1>6 DEF vars, blockVars, tables
<1> QED
  BY <1>1, <1>2, <1>3, <1>4, <1>5, <1>6 DEF Next

\* No model is ever taken out of the candidate lists for less than the blocklist
\* asks for, whatever is routed, fails, answers, is scanned or cleared meanwhile.
THEOREM RoutedBlocksEarned == Spec => []BlocksEarned
<1>1. Init => IInv /\ scene \in Scenes
  BY InitIInv DEF Init
<1>2. IInv /\ scene \in Scenes /\ [Next]_vars => (IInv /\ scene \in Scenes)'
  BY RoutingDrivesBlocklist, NextIInv
<1>3. IInv => BlocksEarned
  BY DEF IInv
<1> QED
  BY <1>1, <1>2, <1>3, PTL DEF Spec

-----------------------------------------------------------------------------
(***************************************************************************)
(* TurnsServed.  What the catalogs know of a model is enough to compare any *)
(* two of them, so every sort of the router is a stable one.                *)
(***************************************************************************)
LEMMA KnownOf ==
    ASSUME NEW r \in Refs
    PROVE  /\ Model[r].variant \in 0 .. 4
           /\ Model[r].gdp \in Numbers /\ Model[r].cost \in Numbers /\ Model[r].column \in Numbers
           /\ Gdpval(r) \in Nat
           /\ \A x \in Numbers : x # None => x \in Nat
<1>1. Model[r] \in ModelFacts
  BY RoutingAssumption DEF RoutingAssumption
<1>2. Model[r].variant \in 0 .. 4 /\ Model[r].gdp \in Numbers /\ Model[r].cost \in Numbers /\ Model[r].column \in Numbers
  BY <1>1 DEF ModelFacts
<1> QED
  BY <1>2 DEF Numbers, Gdpval

Cheap == {e \in Refs \X Refs : Cheaper(e[1], e[2])}
CheapGood == {e \in Refs \X Refs : CheapThenGood(e[1], e[2])}
Weaker == {e \in Refs \X Refs : Gdpval(e[1]) < Gdpval(e[2])}
Stronger == {e \in Refs \X Refs : Gdpval(e[1]) > Gdpval(e[2])}

LEMMA CheapSorts == StrictWeak(Cheap, Refs)
<1>1. \A a, b \in Refs : <<a, b>> \in Cheap <=>
         Model[a].cost # None /\ (Model[b].cost = None \/ Model[a].cost < Model[b].cost)
  BY DEF Cheap, Cheaper
<1>2. \A a \in Refs : Model[a].cost = None \/ Model[a].cost \in Nat
  BY KnownOf
<1>3. ASSUME NEW a \in Refs PROVE <<a, a>> \notin Cheap
  <2>1. ~(Model[a].cost < Model[a].cost) \/ Model[a].cost = None
    BY <1>2
  <2> QED
    BY <1>1, <2>1
<1>4. \A a, b, c \in Refs : <<a, b>> \in Cheap /\ <<b, c>> \in Cheap => <<a, c>> \in Cheap
  BY <1>1, <1>2
<1>5. \A a, b, c \in Refs : <<a, c>> \in Cheap => <<a, b>> \in Cheap \/ <<b, c>> \in Cheap
  BY <1>1, <1>2
<1> QED
  BY <1>3, <1>4, <1>5 DEF StrictWeak

\* Equal costs are neither cheaper nor dearer.
LEMMA CostsCompare ==
    ASSUME NEW a \in Refs, NEW b \in Refs
    PROVE  SameCost(a, b) <=> <<a, b>> \notin Cheap /\ <<b, a>> \notin Cheap
<1>1. Model[a].cost = None \/ Model[a].cost \in Nat
  BY KnownOf
<1>2. Model[b].cost = None \/ Model[b].cost \in Nat
  BY KnownOf
<1>3. <<a, b>> \in Cheap <=>
         Model[a].cost # None /\ (Model[b].cost = None \/ Model[a].cost < Model[b].cost)
  BY DEF Cheap, Cheaper
<1>4. <<b, a>> \in Cheap <=>
         Model[b].cost # None /\ (Model[a].cost = None \/ Model[b].cost < Model[a].cost)
  BY DEF Cheap, Cheaper
<1> QED
  BY <1>1, <1>2, <1>3, <1>4 DEF SameCost

LEMMA WeakerSorts == StrictWeak(Weaker, Refs) /\ StrictWeak(Stronger, Refs)
<1>1. \A a \in Refs : Gdpval(a) \in Nat
  BY KnownOf
<1>2. \A a, b \in Refs : /\ <<a, b>> \in Weaker <=> Gdpval(a) < Gdpval(b)
                         /\ <<a, b>> \in Stronger <=> Gdpval(b) < Gdpval(a)
  BY <1>1 DEF Weaker, Stronger
<1>3. /\ \A a \in Refs : <<a, a>> \notin Weaker
      /\ \A a, b, c \in Refs : <<a, b>> \in Weaker /\ <<b, c>> \in Weaker => <<a, c>> \in Weaker
      /\ \A a, b, c \in Refs : <<a, c>> \in Weaker => <<a, b>> \in Weaker \/ <<b, c>> \in Weaker
  BY <1>1, <1>2
<1>4. /\ \A a \in Refs : <<a, a>> \notin Stronger
      /\ \A a, b, c \in Refs : <<a, b>> \in Stronger /\ <<b, c>> \in Stronger => <<a, c>> \in Stronger
      /\ \A a, b, c \in Refs : <<a, c>> \in Stronger => <<a, b>> \in Stronger \/ <<b, c>> \in Stronger
  BY <1>1, <1>2
<1> QED
  BY <1>3, <1>4 DEF StrictWeak

LEMMA CheapGoodSorts == StrictWeak(CheapGood, Refs)
<1>1. \A a, b \in Refs : <<a, b>> \in CheapGood <=>
         \/ <<a, b>> \in Cheap
         \/ <<a, b>> \notin Cheap /\ <<b, a>> \notin Cheap /\ <<a, b>> \in Stronger
  <2> SUFFICES ASSUME NEW a \in Refs, NEW b \in Refs
               PROVE  <<a, b>> \in CheapGood <=>
                         \/ <<a, b>> \in Cheap
                         \/ <<a, b>> \notin Cheap /\ <<b, a>> \notin Cheap /\ <<a, b>> \in Stronger
    OBVIOUS
  <2>1. <<a, b>> \in CheapGood <=> <<a, b>> \in Cheap \/ (SameCost(a, b) /\ <<a, b>> \in Stronger)
    BY DEF CheapGood, CheapThenGood, Cheap, Stronger
  <2> QED
    BY <2>1, CostsCompare
<1> QED
  BY <1>1, CheapSorts, WeakerSorts, ThenSorts

\* What every sort gives back: the same refs, each once.
Reordered(s, refs) ==
    s \in Seq(Refs) /\ ToSet(s) = ToSet(refs) /\ (IsInjective(refs) => IsInjective(s))

LEMMA SortReorders ==
    ASSUME NEW refs \in Seq(Refs), NEW W, StrictWeak(W, Refs) \/ StrictWeak(W, ToSet(refs))
    PROVE  Reordered(SortedBy(refs, W), refs) /\ StablyBy(SortedBy(refs, W), refs, W)
<1>1. ToSet(refs) \subseteq Refs
  BY EmptyLists
<1>2. StrictWeak(W, ToSet(refs))
  BY <1>1, SmallerWeak
<1> QED
  BY <1>2, SortedLists DEF Reordered, Permutes

LEMMA Reorders ==
    ASSUME NEW a, NEW b \in Seq(Refs), NEW c, Reordered(b, c), Reordered(a, b)
    PROVE  Reordered(a, c)
BY DEF Reordered

LEMMA MinCostReorders ==
    ASSUME NEW refs \in Seq(Refs)
    PROVE  Reordered(SortByMinCost(refs), refs)
<1>1. \A i \in DOMAIN refs : refs[i] \in Refs
  BY PlacesOf
<1>2. ASSUME NEW i \in DOMAIN refs
      PROVE  {j \in DOMAIN refs : CheapThenGood(refs[j], refs[i]) \/ (j < i /\ ~CheapThenGood(refs[i], refs[j]))}
               = {j \in DOMAIN refs : <<refs[j], refs[i]>> \in CheapGood \/ (j < i /\ <<refs[i], refs[j]>> \notin CheapGood)}
  BY <1>1 DEF CheapGood
<1>3. SortByMinCost(refs) = SortedBy(refs, CheapGood)
  BY <1>2 DEF SortByMinCost, Sorted, SortedBy
<1> QED
  BY <1>3, SortReorders, CheapGoodSorts

LEMMA MaxGdpReorders ==
    ASSUME NEW refs \in Seq(Refs)
    PROVE  Reordered(Sorted(refs, LAMBDA a, b : Gdpval(a) > Gdpval(b)), refs)
<1>1. \A i \in DOMAIN refs : refs[i] \in Refs
  BY PlacesOf
<1>2. ASSUME NEW i \in DOMAIN refs
      PROVE  {j \in DOMAIN refs : Gdpval(refs[j]) > Gdpval(refs[i]) \/ (j < i /\ ~(Gdpval(refs[i]) > Gdpval(refs[j])))}
               = {j \in DOMAIN refs : <<refs[j], refs[i]>> \in Stronger \/ (j < i /\ <<refs[i], refs[j]>> \notin Stronger)}
  BY <1>1 DEF Stronger
<1>3. Sorted(refs, LAMBDA a, b : Gdpval(a) > Gdpval(b)) = SortedBy(refs, Stronger)
  BY <1>2 DEF Sorted, SortedBy
<1> QED
  BY <1>3, SortReorders, WeakerSorts

LEMMA LatencyReorders ==
    ASSUME NEW refs \in Seq(Refs)
    PROVE  Reordered(Sorted(refs, LAMBDA a, b : Model[a].latency < Model[b].latency), refs)
<1> DEFINE key == [r \in Refs |-> Model[r].latency]
           W == {e \in Refs \X Refs : key[e[1]] < key[e[2]]}
<1>1. \A i \in DOMAIN refs : refs[i] \in Refs
  BY PlacesOf
<1>2. \A a \in Refs : key[a] \in Int /\ key[a] = Model[a].latency
  BY RoutingAssumption DEF RoutingAssumption, ModelFacts
<1> HIDE DEF key
<1>3. \A a, b \in Refs : <<a, b>> \in W <=> Model[a].latency < Model[b].latency
  BY <1>2
<1>4. StrictWeak(W, Refs)
  BY <1>2, KeysSort
<1> HIDE DEF W
<1>5. ASSUME NEW i \in DOMAIN refs
      PROVE  {j \in DOMAIN refs : Model[refs[j]].latency < Model[refs[i]].latency
                                   \/ (j < i /\ ~(Model[refs[i]].latency < Model[refs[j]].latency))}
               = {j \in DOMAIN refs : <<refs[j], refs[i]>> \in W \/ (j < i /\ <<refs[i], refs[j]>> \notin W)}
  BY <1>1, <1>3
<1>6. Sorted(refs, LAMBDA a, b : Model[a].latency < Model[b].latency) = SortedBy(refs, W)
  BY <1>5 DEF Sorted, SortedBy
<1> QED
  BY <1>4, <1>6, SortReorders

LEMMA ThroughputReorders ==
    ASSUME NEW refs \in Seq(Refs)
    PROVE  Reordered(Sorted(refs, LAMBDA a, b : Model[a].throughput > Model[b].throughput), refs)
<1> DEFINE key == [r \in Refs |-> 0 - Model[r].throughput]
           W == {e \in Refs \X Refs : key[e[1]] < key[e[2]]}
<1>1. \A i \in DOMAIN refs : refs[i] \in Refs
  BY PlacesOf
<1>2. \A a \in Refs : Model[a].throughput \in Nat
  BY RoutingAssumption DEF RoutingAssumption, ModelFacts
<1>3. ASSUME NEW a \in Refs PROVE key[a] \in Int /\ key[a] = 0 - Model[a].throughput
  <2>1. key[a] = 0 - Model[a].throughput
    OBVIOUS
  <2> HIDE DEF key
  <2> QED
    BY <1>2, <2>1
<1> HIDE DEF key
<1>4. \A a, b \in Refs : <<a, b>> \in W <=> Model[a].throughput > Model[b].throughput
  BY <1>2, <1>3
<1>5. StrictWeak(W, Refs)
  BY <1>3, KeysSort
<1> HIDE DEF W
<1>6. ASSUME NEW i \in DOMAIN refs
      PROVE  {j \in DOMAIN refs : Model[refs[j]].throughput > Model[refs[i]].throughput
                                   \/ (j < i /\ ~(Model[refs[i]].throughput > Model[refs[j]].throughput))}
               = {j \in DOMAIN refs : <<refs[j], refs[i]>> \in W \/ (j < i /\ <<refs[i], refs[j]>> \notin W)}
  BY <1>1, <1>4
<1>7. Sorted(refs, LAMBDA a, b : Model[a].throughput > Model[b].throughput) = SortedBy(refs, W)
  BY <1>6 DEF Sorted, SortedBy
<1> QED
  BY <1>5, <1>7, SortReorders

\* The window of rankByScore makes two groups of the models.
LEMMA ScoreReorders ==
    ASSUME NEW refs \in Seq(Refs), NEW score, \A r \in ToSet(refs) : score[r] \in Nat
    PROVE  Reordered(RankByScore(refs, score), refs)
<1> DEFINE T == ToSet(refs)
           Near(r) == Window > 0 /\ \A x \in ToSet(refs) : 100 * score[r] >= (100 - Window) * score[x]
           N == {r \in T : Near(r)}
           LessNear(a, b) == \/ Cheaper(a, b)
                             \/ SameCost(a, b) /\ Gdpval(a) < Gdpval(b)
                             \/ SameCost(a, b) /\ Gdpval(a) = Gdpval(b) /\ score[a] > score[b]
           Less(a, b) == CASE Near(a) /\ Near(b) -> LessNear(a, b)
                           [] Near(a) # Near(b) -> Near(a)
                           [] OTHER -> score[a] > score[b]
           H == {e \in T \X T : score[e[1]] > score[e[2]]}
           X == {e \in T \X T : Gdpval(e[1]) < Gdpval(e[2]) \/ (Gdpval(e[1]) = Gdpval(e[2]) /\ <<e[1], e[2]>> \in H)}
           L == {e \in T \X T : LessNear(e[1], e[2])}
           U == {e \in T \X T : Less(e[1], e[2])}
<1>1. T \subseteq Refs
  BY EmptyLists
<1>2. \A a \in T : Gdpval(a) \in Nat /\ score[a] \in Nat
  BY <1>1, KnownOf
<1>3. StrictWeak(Cheap, T) /\ StrictWeak(Weaker, T)
  BY <1>1, CheapSorts, WeakerSorts, SmallerWeak
<1>4. \A a, b \in T : <<a, b>> \in H <=> score[b] < score[a]
  BY <1>2
<1>5. \A a, b \in T : <<a, b>> \in Weaker <=> Gdpval(a) < Gdpval(b)
  BY <1>1 DEF Weaker
<1>6. \A a, b \in T : <<a, b>> \in X <=> Gdpval(a) < Gdpval(b) \/ (Gdpval(a) = Gdpval(b) /\ <<a, b>> \in H)
  OBVIOUS
<1>7. \A a, b \in T : <<a, b>> \in L <=> LessNear(a, b)
  OBVIOUS
<1>8. \A a, b \in T : <<a, b>> \in U <=> Less(a, b)
  OBVIOUS
<1>9. StrictWeak(H, T)
  <2> HIDE DEF H, T
  <2>1. \A a \in T : <<a, a>> \notin H
    BY <1>2, <1>4
  <2>2. \A a, b, c \in T : <<a, b>> \in H /\ <<b, c>> \in H => <<a, c>> \in H
    BY <1>2, <1>4
  <2>3. \A a, b, c \in T : <<a, c>> \in H => <<a, b>> \in H \/ <<b, c>> \in H
    BY <1>2, <1>4
  <2> QED
    BY <2>1, <2>2, <2>3 DEF StrictWeak
<1>10. StrictWeak(X, T)
  <2> HIDE DEF H, X, T
  <2>1. \A a, b \in T : <<a, b>> \in X <=>
           \/ <<a, b>> \in Weaker
           \/ <<a, b>> \notin Weaker /\ <<b, a>> \notin Weaker /\ <<a, b>> \in H
    <3> SUFFICES ASSUME NEW a \in T, NEW b \in T
                 PROVE  <<a, b>> \in X <=>
                           \/ <<a, b>> \in Weaker
                           \/ <<a, b>> \notin Weaker /\ <<b, a>> \notin Weaker /\ <<a, b>> \in H
      OBVIOUS
    <3>1. Gdpval(a) \in Nat /\ Gdpval(b) \in Nat
      BY <1>2
    <3>2. <<a, b>> \in Weaker <=> Gdpval(a) < Gdpval(b)
      BY <1>5
    <3>3. <<b, a>> \in Weaker <=> Gdpval(b) < Gdpval(a)
      BY <1>5
    <3>4. <<a, b>> \in X <=> Gdpval(a) < Gdpval(b) \/ (Gdpval(a) = Gdpval(b) /\ <<a, b>> \in H)
      BY <1>6
    <3> QED
      BY <3>1, <3>2, <3>3, <3>4
  <2> QED
    BY <1>3, <1>9, <2>1, ThenSorts
<1>11. StrictWeak(L, T)
  <2>1. \A a, b \in T : LessNear(a, b) <=> <<a, b>> \in Cheap \/ (SameCost(a, b) /\ <<a, b>> \in X)
    <3>1. \A a, b \in T : <<a, b>> \in Cheap <=> Cheaper(a, b)
      BY <1>1 DEF Cheap
    <3> HIDE DEF X, T, H
    <3> QED
      BY <1>2, <1>4, <1>6, <3>1
  <2>2. \A a, b \in T : <<a, b>> \in L <=>
           \/ <<a, b>> \in Cheap
           \/ <<a, b>> \notin Cheap /\ <<b, a>> \notin Cheap /\ <<a, b>> \in X
    <3> HIDE DEF L, T, X, LessNear
    <3> QED
      BY <1>1, <1>7, <2>1, CostsCompare
  <2> HIDE DEF L, X, T
  <2> QED
    BY <1>3, <1>10, <2>2, ThenSorts
<1>12. StrictWeak(U, T)
  <2>1. \A a \in T : a \in N <=> Near(a)
    OBVIOUS
  <2>2. \A a, b \in T : /\ Near(a) /\ Near(b) => (<<a, b>> \in U <=> <<a, b>> \in L)
                        /\ ~Near(a) /\ ~Near(b) => (<<a, b>> \in U <=> <<a, b>> \in H)
                        /\ Near(a) /\ ~Near(b) => <<a, b>> \in U /\ <<b, a>> \notin U
    <3> SUFFICES ASSUME NEW a \in T, NEW b \in T
                 PROVE  /\ Near(a) /\ Near(b) => (<<a, b>> \in U <=> <<a, b>> \in L)
                        /\ ~Near(a) /\ ~Near(b) => (<<a, b>> \in U <=> <<a, b>> \in H)
                        /\ Near(a) /\ ~Near(b) => <<a, b>> \in U /\ <<b, a>> \notin U
      OBVIOUS
    <3>1. <<a, b>> \in U <=> Less(a, b)
      BY <1>8, ZenonT(60)
    <3>2. <<b, a>> \in U <=> Less(b, a)
      BY <1>8, ZenonT(60)
    <3>3. <<a, b>> \in L <=> LessNear(a, b)
      BY <1>7
    <3>4. <<a, b>> \in H <=> score[a] > score[b]
      BY <1>2, <1>4
    <3>5. Near(a) \in BOOLEAN /\ Near(b) \in BOOLEAN
      OBVIOUS
    <3> HIDE DEF U, L, H, T, Near, LessNear
    <3> QED
      BY <3>1, <3>2, <3>3, <3>4, <3>5
  <2>3. InGroups(U, T, N, L, H)
    <3> HIDE DEF U, L, H, T, N, Near
    <3> QED
      BY <2>1, <2>2 DEF InGroups
  <2> HIDE DEF U, L, H, T, N
  <2> QED
    BY <1>9, <1>11, <2>3, GroupsSort
<1>13. ASSUME NEW i \in DOMAIN refs
       PROVE  {j \in DOMAIN refs : Less(refs[j], refs[i]) \/ (j < i /\ ~Less(refs[i], refs[j]))}
                = {j \in DOMAIN refs : <<refs[j], refs[i]>> \in U \/ (j < i /\ <<refs[i], refs[j]>> \notin U)}
  <2>1. \A j \in DOMAIN refs : refs[j] \in T
    BY DEF ToSet
  <2> HIDE DEF Less, U, T
  <2> QED
    BY <1>8, <2>1
<1>14. RankByScore(refs, score) = SortedBy(refs, U)
  <2>1. RankByScore(refs, score) = Sorted(refs, Less)
    BY DEF RankByScore
  <2> HIDE DEF Less, U
  <2> QED
    BY <1>13, <2>1 DEF Sorted, SortedBy
<1> HIDE DEF U
<1> QED
  BY <1>12, <1>14, SortReorders

\* sortBest: the part with a value and the part without one.
LEMMA BestReorders ==
    ASSUME NEW refs \in Seq(Refs), NEW column
    PROVE  Reordered(SortBest(refs, column), refs)
<1>1. ToSet(refs) \subseteq Refs
  BY EmptyLists
<1>2. CASE column = None
  <2> DEFINE score == [r \in Refs |-> Gdpval(r)]
  <2>1. \A r \in ToSet(refs) : score[r] \in Nat
    BY <1>1, KnownOf
  <2>2. SortBest(refs, column) = RankByScore(refs, score)
    BY <1>2 DEF SortBest
  <2> HIDE DEF score
  <2> QED
    BY <2>1, <2>2, ScoreReorders
<1>3. CASE column # None
  <2> DEFINE score == [r \in Refs |-> Model[r].column]
             with == Only(refs, Measured)
             without == Only(refs, Refs \ Measured)
             a == RankByScore(with, score)
             b == Sorted(without, LAMBDA x, y : Gdpval(x) > Gdpval(y))
  <2>1. /\ with \in Seq(Refs) /\ ToSet(with) = ToSet(refs) \cap Measured
        /\ without \in Seq(Refs) /\ ToSet(without) = ToSet(refs) \cap (Refs \ Measured)
        /\ IsInjective(refs) => IsInjective(with) /\ IsInjective(without)
    BY OnlyLists
  <2>2. \A r \in ToSet(with) : score[r] \in Nat
    <3>1. \A r \in Measured : r \in Refs /\ Model[r].column # None
      BY DEF Measured
    <3> HIDE DEF with
    <3> QED
      BY <2>1, <3>1, KnownOf
  <2>3. SortBest(refs, column) = a \o b
    BY <1>3 DEF SortBest
  <2> HIDE DEF score, with, without
  <2>4. Reordered(a, with)
    BY <2>1, <2>2, ScoreReorders
  <2>5. Reordered(b, without)
    BY <2>1, MaxGdpReorders
  <2> HIDE DEF a, b
  <2>6. /\ a \in Seq(Refs) /\ ToSet(a) = ToSet(refs) \cap Measured
        /\ b \in Seq(Refs) /\ ToSet(b) = ToSet(refs) \cap (Refs \ Measured)
        /\ IsInjective(refs) => IsInjective(a) /\ IsInjective(b)
    BY <2>1, <2>4, <2>5 DEF Reordered
  <2>7. ToSet(a) \cap ToSet(b) = {} /\ ToSet(a) \cup ToSet(b) = ToSet(refs)
    BY <1>1, <2>6
  <2>8. /\ a \o b \in Seq(Refs) /\ ToSet(a \o b) = ToSet(refs)
        /\ IsInjective(a) /\ IsInjective(b) => IsInjective(a \o b)
    <3>1. /\ a \o b \in Seq(Refs) /\ ToSet(a \o b) = ToSet(a) \cup ToSet(b)
          /\ IsInjective(a) /\ IsInjective(b) /\ ToSet(a) \cap ToSet(b) = {} => IsInjective(a \o b)
      BY <2>6, JoinedLists
    <3> QED
      BY <2>7, <3>1
  <2> QED
    BY <2>3, <2>6, <2>8 DEF Reordered
<1> QED
  BY <1>2, <1>3

\* The tiers change places, none of them meet.
LEMMA TiersApart ==
    ASSUME NEW preference, NEW x \in 0 .. 3, NEW y \in 0 .. 3
    PROVE  /\ TierRank(preference)[x + 1] \in Nat
           /\ TierRank(preference)[x + 1] = TierRank(preference)[y + 1] => x = y
<1>1. x \in {0, 1, 2, 3} /\ y \in {0, 1, 2, 3}
  OBVIOUS
<1>2. \/ TierRank(preference) = <<1, 2, 0, 3>> \/ TierRank(preference) = <<0, 2, 1, 3>>
      \/ TierRank(preference) = <<0, 1, 3, 2>> \/ TierRank(preference) = <<0, 1, 2, 3>>
  BY DEF TierRank
<1> QED
  BY <1>1, <1>2

LEMMA TieredReorders ==
    ASSUME NEW refs \in Seq(Refs), NEW preference, scene.pressure \in [Refs -> Int]
    PROVE  Reordered(SortByBillingPreference(refs, preference), refs)
<1> DEFINE Tier(r) == TierRank(preference)[BillingTier(r) + 1]
           Pressed(a, b) == BillingTier(a) = 1 /\ scene.pressure[a] # scene.pressure[b]
           Less(a, b) == CASE Tier(a) # Tier(b) -> Tier(a) < Tier(b)
                           [] Tier(a) = Tier(b) /\ Pressed(a, b) -> scene.pressure[a] < scene.pressure[b]
                           [] OTHER -> CheapThenGood(a, b)
           tier == [r \in Refs |-> Tier(r)]
           press == [r \in Refs |-> IF BillingTier(r) = 1 THEN scene.pressure[r] ELSE 0]
           V == {e \in Refs \X Refs : tier[e[1]] < tier[e[2]]}
           P == {e \in Refs \X Refs : press[e[1]] < press[e[2]]}
           W == {e \in Refs \X Refs : \/ <<e[1], e[2]>> \in P
                                      \/ /\ <<e[1], e[2]>> \notin P /\ <<e[2], e[1]>> \notin P
                                         /\ <<e[1], e[2]>> \in CheapGood}
           U == {e \in Refs \X Refs : Less(e[1], e[2])}
<1>1. \A r \in Refs : BillingTier(r) \in 0 .. 3
  BY DEF BillingTier
<1>2. ASSUME NEW r \in Refs PROVE tier[r] \in Int /\ tier[r] = Tier(r)
  <2>1. BillingTier(r) \in 0 .. 3
    BY <1>1
  <2>2. TierRank(preference)[BillingTier(r) + 1] \in Nat
    BY <2>1, TiersApart
  <2>3. tier[r] = TierRank(preference)[BillingTier(r) + 1]
    OBVIOUS
  <2> QED
    BY <2>2, <2>3
<1>3. \A r \in Refs : press[r] \in Int
  OBVIOUS
<1>4. StrictWeak(V, Refs)
  <2> HIDE DEF tier
  <2> QED
    BY <1>2, KeysSort
<1>5. StrictWeak(P, Refs)
  <2> HIDE DEF press
  <2> QED
    BY <1>3, KeysSort
<1>6. StrictWeak(W, Refs)
  <2>1. \A a, b \in Refs : <<a, b>> \in W <=>
           \/ <<a, b>> \in P
           \/ <<a, b>> \notin P /\ <<b, a>> \notin P /\ <<a, b>> \in CheapGood
    OBVIOUS
  <2> HIDE DEF W, P
  <2> QED
    BY <1>5, <2>1, CheapGoodSorts, ThenSorts
<1>7. \A a, b \in Refs : <<a, b>> \in U <=>
         \/ <<a, b>> \in V
         \/ <<a, b>> \notin V /\ <<b, a>> \notin V /\ <<a, b>> \in W
  <2> SUFFICES ASSUME NEW a \in Refs, NEW b \in Refs
               PROVE  <<a, b>> \in U <=> \/ <<a, b>> \in V
                                         \/ <<a, b>> \notin V /\ <<b, a>> \notin V /\ <<a, b>> \in W
    OBVIOUS
  <2>1. <<a, b>> \in U <=> Less(a, b)
    OBVIOUS
  <2>2. /\ <<a, b>> \in V <=> Tier(a) < Tier(b)
        /\ <<b, a>> \in V <=> Tier(b) < Tier(a)
        /\ Tier(a) \in Int /\ Tier(b) \in Int
    BY <1>2
  <2>3. Tier(a) = Tier(b) => BillingTier(a) = BillingTier(b)
    BY <1>1, TiersApart
  <2>4. /\ <<a, b>> \in P <=> press[a] < press[b]
        /\ <<b, a>> \in P <=> press[b] < press[a]
    OBVIOUS
  <2>5. <<a, b>> \in W <=> \/ <<a, b>> \in P
                           \/ <<a, b>> \notin P /\ <<b, a>> \notin P /\ <<a, b>> \in CheapGood
    OBVIOUS
  <2>6. <<a, b>> \in CheapGood <=> CheapThenGood(a, b)
    BY DEF CheapGood
  <2>7. scene.pressure[a] \in Int /\ scene.pressure[b] \in Int
    OBVIOUS
  <2>8. CASE Tier(a) # Tier(b)
    <3>1. Less(a, b) <=> Tier(a) < Tier(b)
      BY <2>8
    <3> HIDE DEF Less, Tier, U, V, W
    <3> QED
      BY <2>1, <2>2, <2>8, <3>1
  <2>9. CASE Tier(a) = Tier(b) /\ Pressed(a, b)
    <3>1. Less(a, b) <=> scene.pressure[a] < scene.pressure[b]
      BY <2>9
    <3>2. press[a] = scene.pressure[a] /\ press[b] = scene.pressure[b]
      BY <2>3, <2>9
    <3>3. scene.pressure[a] # scene.pressure[b]
      BY <2>9
    <3> HIDE DEF Less, Tier, U, V, W, P, press
    <3> QED
      BY <2>1, <2>2, <2>4, <2>5, <2>7, <2>9, <3>1, <3>2, <3>3
  <2>10. CASE Tier(a) = Tier(b) /\ ~Pressed(a, b)
    <3>1. Less(a, b) <=> CheapThenGood(a, b)
      BY <2>10
    <3>2. press[a] = press[b]
      BY <2>3, <2>10
    <3>3. press[a] \in Int
      BY <1>3
    <3> HIDE DEF Less, Tier, U, V, W, P, press
    <3> QED
      BY <2>1, <2>2, <2>4, <2>5, <2>6, <2>10, <3>1, <3>2, <3>3
  <2> HIDE DEF Tier, Pressed
  <2> QED
    BY <2>8, <2>9, <2>10
<1>8. StrictWeak(U, Refs)
  <2> HIDE DEF U, V, W
  <2> QED
    BY <1>4, <1>6, <1>7, ThenSorts
<1>9. \A i \in DOMAIN refs : refs[i] \in Refs
  BY PlacesOf
<1>10. \A a, b \in Refs : <<a, b>> \in U <=> Less(a, b)
  OBVIOUS
<1>11. ASSUME NEW i \in DOMAIN refs
       PROVE  {j \in DOMAIN refs : Less(refs[j], refs[i]) \/ (j < i /\ ~Less(refs[i], refs[j]))}
                = {j \in DOMAIN refs : <<refs[j], refs[i]>> \in U \/ (j < i /\ <<refs[i], refs[j]>> \notin U)}
  <2> HIDE DEF Less, U
  <2> QED
    BY <1>9, <1>10
<1>12. SortByBillingPreference(refs, preference) = SortedBy(refs, U)
  <2>1. SortByBillingPreference(refs, preference) = Sorted(refs, Less)
    BY DEF SortByBillingPreference
  <2> HIDE DEF Less, U
  <2> QED
    BY <1>11, <2>1 DEF Sorted, SortedBy
<1> HIDE DEF U
<1> QED
  BY <1>8, <1>12, SortReorders

\* sortBy, whatever the method.
LEMMA MethodReorders ==
    ASSUME scene.pressure \in [Refs -> Int], NEW refs \in Seq(Refs), NEW method
    PROVE  Reordered(SortBy(refs, method), refs)
<1>1. Reordered(refs, refs)
  BY DEF Reordered
<1>2. CASE method \in {"min_cost", "min_cost_if_all_priced"}
  BY <1>2, MinCostReorders DEF SortBy
<1>3. CASE method = "max_gdpval"
  BY <1>3, MaxGdpReorders DEF SortBy
<1>4. CASE method = "best"
  BY <1>4, BestReorders DEF SortBy
<1>5. CASE method = "min_latency"
  BY <1>5, LatencyReorders DEF SortBy
<1>6. CASE method = "max_throughput"
  BY <1>6, ThroughputReorders DEF SortBy
<1>7. CASE method = "billing_preference"
  BY <1>7, TieredReorders DEF SortBy
<1>8. CASE method \notin {"min_cost", "min_cost_if_all_priced", "max_gdpval", "best",
                        "min_latency", "max_throughput", "billing_preference"}
  BY <1>1, <1>8 DEF SortBy
<1> QED
  BY <1>2, <1>3, <1>4, <1>5, <1>6, <1>7, <1>8

\* coalesceBySlug.
LEMMA SlugReorders ==
    ASSUME NEW refs \in Seq(Refs)
    PROVE  Reordered(CoalesceBySlug(refs), refs)
<1> DEFINE Alike(x, r) == x = r \/ (Slug(r) # None /\ Slug(x) = Slug(r))
           Leads(r) == {i \in DOMAIN refs : Alike(refs[i], r)}
           Is(i, r) == /\ refs[i] = r \/ (Slug(r) # None /\ Slug(refs[i]) = Slug(r))
                       /\ \A j \in 1 .. (i - 1) : refs[j] # r /\ (Slug(r) = None \/ Slug(refs[j]) # Slug(r))
           Lead(r) == CHOOSE i \in DOMAIN refs : Is(i, r)
           T == ToSet(refs)
           lead == [r \in T |-> Lead(r)]
           W == {e \in T \X T : lead[e[1]] < lead[e[2]]}
<1>0. /\ T \subseteq Refs /\ Len(refs) \in Nat /\ DOMAIN refs = 1 .. Len(refs)
      /\ \A i \in DOMAIN refs : refs[i] \in T
  BY EmptyLists, PlacesOf DEF ToSet
<1>1. ASSUME NEW r \in T PROVE lead[r] = Lead(r) /\ Lead(r) \in DOMAIN refs
  <2>1. \E i \in DOMAIN refs : refs[i] = r
    BY DEF ToSet
  <2>2. Leads(r) # {} /\ Leads(r) \in SUBSET (0 .. Len(refs))
    BY <1>0, <2>1
  <2>3. \E m \in Leads(r) : \A x \in Leads(r) : m <= x
    <3> HIDE DEF Leads
    <3> QED
      BY <1>0, <2>2, SmallestOf
  <2>4. PICK m \in Leads(r) : \A x \in Leads(r) : m <= x
    BY <2>3
  <2>5. ASSUME NEW j \in 1 .. (m - 1) PROVE ~Alike(refs[j], r)
    <3>1. j \in DOMAIN refs /\ j < m
      BY <1>0, <2>4
    <3>2. j \notin Leads(r)
      BY <1>0, <2>4, <3>1
    <3> QED
      BY <3>1, <3>2
  <2>6. Is(m, r)
    BY <2>4, <2>5
  <2>7. \E i \in DOMAIN refs : Is(i, r)
    BY <2>4, <2>6
  <2> HIDE DEF Is
  <2>8. Lead(r) \in DOMAIN refs
    BY <2>7
  <2> QED
    BY <2>8
<1>2. \A r \in T : lead[r] \in Int
  <2> HIDE DEF lead, Lead
  <2> QED
    BY <1>0, <1>1
<1>3. StrictWeak(W, T)
  <2> HIDE DEF lead, T
  <2> QED
    BY <1>2, KeysSort
<1>4. \A a, b \in T : <<a, b>> \in W <=> Lead(a) < Lead(b)
  <2> HIDE DEF lead, Lead
  <2> QED
    BY <1>1
<1>5. ASSUME NEW i \in DOMAIN refs
      PROVE  {j \in DOMAIN refs : Lead(refs[j]) < Lead(refs[i]) \/ (j < i /\ ~(Lead(refs[i]) < Lead(refs[j])))}
               = {j \in DOMAIN refs : <<refs[j], refs[i]>> \in W \/ (j < i /\ <<refs[i], refs[j]>> \notin W)}
  <2> HIDE DEF Lead, W, T
  <2> QED
    BY <1>0, <1>4
<1>6. CoalesceBySlug(refs) = SortedBy(refs, W)
  <2>1. CoalesceBySlug(refs) = Sorted(refs, LAMBDA a, b : Lead(a) < Lead(b))
    BY DEF CoalesceBySlug
  <2> HIDE DEF Lead, W
  <2> QED
    BY <1>5, <2>1 DEF Sorted, SortedBy
<1> HIDE DEF W
<1> QED
  BY <1>3, <1>6, SortReorders

\* The demotions by pace and by failures keep the order among equals.
Pace == {e \in Refs \X Refs : Provider(e[1]) \notin ahead /\ Provider(e[2]) \in ahead}
Failing == {e \in Refs \X Refs : Streak(e[1]) < Streak(e[2])}

LEMMA PaceReorders ==
    ASSUME NEW refs \in Seq(Refs)
    PROVE  Reordered(PaceDemote(refs), refs) /\ StablyBy(PaceDemote(refs), refs, Pace)
<1>1. StrictWeak(Pace, Refs)
  <2>1. \A a, b \in Refs : <<a, b>> \in Pace <=> Provider(a) \notin ahead /\ Provider(b) \in ahead
    BY DEF Pace
  <2> QED
    BY <2>1 DEF StrictWeak
<1>2. \A i \in DOMAIN refs : refs[i] \in Refs
  BY PlacesOf
<1>3. ASSUME NEW i \in DOMAIN refs
      PROVE  {j \in DOMAIN refs : \/ Provider(refs[j]) \notin ahead /\ Provider(refs[i]) \in ahead
                                  \/ j < i /\ ~(Provider(refs[i]) \notin ahead /\ Provider(refs[j]) \in ahead)}
               = {j \in DOMAIN refs : <<refs[j], refs[i]>> \in Pace \/ (j < i /\ <<refs[i], refs[j]>> \notin Pace)}
  BY <1>2 DEF Pace
<1>4. PaceDemote(refs) = SortedBy(refs, Pace)
  BY <1>3 DEF PaceDemote, Sorted, SortedBy
<1> QED
  BY <1>1, <1>4, SortReorders

LEMMA StreaksCount ==
    ASSUME fails \in [Refs -> Nat], NEW r \in Refs
    PROVE  /\ Streak(r) \in Nat /\ Unhealthy(r) \in BOOLEAN
           /\ Unhealthy(r) <=> Streak(r) > 0
BY ListsAssumption DEF ListsAssumption, Streak, Unhealthy

LEMMA FailingReorders ==
    ASSUME fails \in [Refs -> Nat], NEW refs \in Seq(Refs)
    PROVE  Reordered(DemoteUnhealthy(refs), refs) /\ StablyBy(DemoteUnhealthy(refs), refs, Failing)
<1> DEFINE key == [r \in Refs |-> Streak(r)]
<1>1. ASSUME NEW r \in Refs PROVE key[r] \in Int /\ key[r] = Streak(r)
  <2>1. Streak(r) \in Nat
    BY StreaksCount
  <2> QED
    BY <2>1
<1>2. Failing = {e \in Refs \X Refs : key[e[1]] < key[e[2]]}
  BY DEF Failing
<1>3. StrictWeak(Failing, Refs)
  <2> HIDE DEF key
  <2> QED
    BY <1>1, <1>2, KeysSort
<1>4. \A i \in DOMAIN refs : refs[i] \in Refs
  BY PlacesOf
<1>5. ASSUME NEW i \in DOMAIN refs
      PROVE  {j \in DOMAIN refs : Streak(refs[j]) < Streak(refs[i]) \/ (j < i /\ ~(Streak(refs[i]) < Streak(refs[j])))}
               = {j \in DOMAIN refs : <<refs[j], refs[i]>> \in Failing \/ (j < i /\ <<refs[i], refs[j]>> \notin Failing)}
  BY <1>4 DEF Failing
<1>6. DemoteUnhealthy(refs) = SortedBy(refs, Failing)
  BY <1>5 DEF DemoteUnhealthy, Sorted, SortedBy
<1> QED
  BY <1>3, <1>6, SortReorders

\* Failing models stand behind working ones, and among equals those ahead of
\* their pace behind the others.
Orderly(list) ==
    \A i, j \in DOMAIN list : i < j =>
        /\ Streak(list[i]) <= Streak(list[j])
        /\ (Streak(list[i]) = Streak(list[j]) /\ Provider(list[i]) \in ahead)
              => Provider(list[j]) \in ahead

LEMMA RankOrders ==
    ASSUME fails \in [Refs -> Nat], NEW refs \in Seq(Refs)
    PROVE  Reordered(Rank(refs), refs) /\ Orderly(Rank(refs))
<1> DEFINE c == CoalesceBySlug(refs)
           p == PaceDemote(c)
           s == DemoteUnhealthy(p)
<1>1. c \in Seq(Refs) /\ Reordered(c, refs)
  BY SlugReorders DEF Reordered
<1> HIDE DEF c
<1>2. p \in Seq(Refs) /\ Reordered(p, c) /\ StablyBy(p, c, Pace)
  BY <1>1, PaceReorders DEF Reordered
<1> HIDE DEF p
<1>3. s \in Seq(Refs) /\ Reordered(s, p) /\ StablyBy(s, p, Failing)
  BY <1>2, FailingReorders DEF Reordered
<1> HIDE DEF s
<1>4. Reordered(s, refs)
  BY <1>1, <1>2, <1>3, Reorders
<1>5. ASSUME NEW i \in DOMAIN s, NEW j \in DOMAIN s, i < j
      PROVE  /\ Streak(s[i]) <= Streak(s[j])
             /\ (Streak(s[i]) = Streak(s[j]) /\ Provider(s[i]) \in ahead) => Provider(s[j]) \in ahead
  <2>1. s[i] \in Refs /\ s[j] \in Refs
    BY <1>3, PlacesOf
  <2>2. Streak(s[i]) \in Nat /\ Streak(s[j]) \in Nat
    BY <2>1, StreaksCount
  <2>3. /\ <<s[j], s[i]>> \notin Failing
        /\ \/ <<s[i], s[j]>> \in Failing
           \/ \E k, l \in DOMAIN p : k < l /\ s[i] = p[k] /\ s[j] = p[l]
    BY <1>3, <1>5 DEF StablyBy
  <2>4. Streak(s[i]) <= Streak(s[j])
    BY <2>1, <2>2, <2>3 DEF Failing
  <2>5. ASSUME Streak(s[i]) = Streak(s[j]), Provider(s[i]) \in ahead PROVE Provider(s[j]) \in ahead
    <3>1. <<s[i], s[j]>> \notin Failing
      BY <2>2, <2>5 DEF Failing
    <3>2. PICK k, l \in DOMAIN p : k < l /\ s[i] = p[k] /\ s[j] = p[l]
      BY <2>3, <3>1
    <3>3. <<s[j], s[i]>> \notin Pace
      BY <1>2, <3>2 DEF StablyBy
    <3> QED
      BY <2>1, <2>5, <3>3 DEF Pace
  <2> QED
    BY <2>4, <2>5
<1>6. Rank(refs) = s
  BY DEF Rank, s, p, c
<1> QED
  BY <1>4, <1>5, <1>6 DEF Orderly

\* What is left of a pool on its way to a list: without a cut all of it, after
\* one at least a model that fails as little as any.
Kept(list, pool, cut) ==
    /\ list \in Seq(Refs) /\ IsInjective(list) /\ ToSet(list) \subseteq pool
    /\ list = << >> <=> pool = {}
    /\ ~cut => ToSet(list) = pool
    /\ \A q \in pool : \E r \in ToSet(list) : Streak(r) <= Streak(q)
Ranked(list, pool, cut) == Kept(list, pool, cut) /\ Orderly(list)

LEMMA ReorderedKept ==
    ASSUME NEW list, NEW pool, NEW cut, Kept(list, pool, cut), NEW s, Reordered(s, list)
    PROVE  Kept(s, pool, cut)
<1>1. list = << >> <=> ToSet(list) = {}
  BY EmptyLists DEF Kept
<1>2. s = << >> <=> ToSet(s) = {}
  BY EmptyLists DEF Reordered
<1> QED
  BY <1>1, <1>2 DEF Kept, Reordered

LEMMA FirstIsLeast ==
    ASSUME fails \in [Refs -> Nat], NEW list \in Seq(Refs), Orderly(list), list # << >>
    PROVE  /\ 1 \in DOMAIN list /\ Head(list) = list[1] /\ list[1] \in ToSet(list)
           /\ \A r \in ToSet(list) : Streak(list[1]) <= Streak(r)
<1>1. 1 \in DOMAIN list /\ Head(list) = list[1] /\ list[1] \in ToSet(list) /\ ToSet(list) \subseteq Refs
  BY EmptyLists
<1>2. \A i \in DOMAIN list : i \in Nat /\ i >= 1 /\ list[i] \in Refs
  BY PlacesOf
<1>3. ASSUME NEW i \in DOMAIN list PROVE Streak(list[1]) <= Streak(list[i])
  <2>1. CASE i = 1
    <3>1. Streak(list[1]) \in Nat
      BY <1>1, <1>2, StreaksCount
    <3> QED
      BY <2>1, <3>1
  <2>2. CASE i # 1
    <3>1. 1 < i
      BY <1>2, <2>2
    <3> QED
      BY <1>1, <3>1 DEF Orderly
  <2> QED
    BY <2>1, <2>2
<1> QED
  BY <1>1, <1>3 DEF ToSet

\* A ranked list that is cut keeps its first entry.
LEMMA TopRanks ==
    ASSUME fails \in [Refs -> Nat], NEW refs, NEW pool \in SUBSET Refs, NEW cut, Kept(refs, pool, cut),
           NEW k \in Numbers, k = None \/ cut
    PROVE  Ranked(Top(refs, k), pool, cut)
<1> DEFINE s == Rank(refs)
<1>1. refs \in Seq(Refs)
  BY DEF Kept
<1>2. Reordered(s, refs) /\ Orderly(s)
  BY <1>1, RankOrders
<1>3. Kept(s, pool, cut)
  BY <1>2, ReorderedKept
<1> HIDE DEF s
<1>4. CASE k \in {None, 0}
  <2>1. Top(refs, k) = s
    BY <1>4 DEF Top, Capped, s
  <2> QED
    BY <1>2, <1>3, <2>1 DEF Ranked
<1>5. CASE k \notin {None, 0}
  <2> DEFINE t == Cut(s, k)
  <2>1. Top(refs, k) = t
    BY <1>5 DEF Top, Capped, s
  <2>2. k \in Nat /\ k # 0 /\ cut
    BY <1>5 DEF Numbers
  <2>3. s \in Seq(Refs) /\ IsInjective(s) /\ ToSet(s) \subseteq pool
    BY <1>3 DEF Kept
  <2>4. /\ t \in Seq(Refs) /\ DOMAIN t \subseteq DOMAIN s /\ \A i \in DOMAIN t : t[i] = s[i]
        /\ s # << >> => t # << >>
        /\ ToSet(t) \subseteq ToSet(s) /\ IsInjective(t)
    BY <2>2, <2>3, CutLists
  <2> HIDE DEF t
  <2>5. t = << >> <=> pool = {}
    <3>1. s = << >> <=> pool = {}
      BY <1>3 DEF Kept
    <3>2. s = << >> => ToSet(s) = {}
      BY <2>3, EmptyLists
    <3>3. t = << >> <=> ToSet(t) = {}
      BY <2>4, EmptyLists
    <3> QED
      BY <2>4, <3>1, <3>2, <3>3
  <2>6. ASSUME NEW q \in pool PROVE \E r \in ToSet(t) : Streak(r) <= Streak(q)
    <3>1. s # << >> /\ t # << >>
      BY <1>3, <2>5, <2>6 DEF Kept
    <3>2. 1 \in DOMAIN t /\ t[1] \in ToSet(t)
      BY <2>4, <3>1, EmptyLists
    <3>3. t[1] = s[1]
      BY <2>4, <3>2
    <3>4. PICK r \in ToSet(s) : Streak(r) <= Streak(q)
      BY <1>3 DEF Kept
    <3>5. Streak(s[1]) <= Streak(r)
      BY <1>2, <2>3, <3>1, FirstIsLeast
    <3>6. s[1] \in Refs /\ r \in Refs /\ q \in Refs
      BY <2>3, <2>4, <3>2, <3>3
    <3>7. Streak(s[1]) \in Nat /\ Streak(r) \in Nat /\ Streak(q) \in Nat
      BY <3>6, StreaksCount
    <3>8. Streak(t[1]) <= Streak(q)
      BY <3>3, <3>4, <3>5, <3>7
    <3> QED
      BY <3>2, <3>8
  <2>7. Kept(t, pool, cut)
    BY <2>2, <2>3, <2>4, <2>5, <2>6 DEF Kept
  <2>8. Orderly(t)
    BY <1>2, <2>4 DEF Orderly
  <2> QED
    BY <2>1, <2>7, <2>8 DEF Ranked
<1> QED
  BY <1>4, <1>5

-----------------------------------------------------------------------------
\* A round robin starts at the place its counter gives and comes round.
LEMMA TurnPlaces ==
    ASSUME NEW refs \in Seq(Refs), NEW counter \in Numbers
    PROVE  /\ Turn(refs, counter) = NaN \/ Turn(refs, counter) \in 0 .. Len(refs) - 1
           /\ After(Turn(refs, counter)) \in Numbers
<1>1. Len(refs) \in Nat /\ NaN = None /\ None \notin Nat
  BY PlacesOf, ListsAssumption DEF ListsAssumption, NaN
<1>2. ASSUME Turn(refs, counter) # NaN PROVE Turn(refs, counter) \in 0 .. Len(refs) - 1
  <2>1. counter \in Nat /\ Len(refs) > 0 /\ Turn(refs, counter) = counter % Len(refs)
    BY <1>1, <1>2 DEF Turn, Numbers
  <2> QED
    BY <1>1, <2>1
<1> QED
  BY <1>1, <1>2 DEF After, Numbers

LEMMA TurnedReorders ==
    ASSUME NEW refs \in Seq(Refs), NEW i, i = NaN \/ i \in 0 .. Len(refs) - 1
    PROVE  Reordered(Turned(refs, i), refs)
<1>1. Len(refs) \in Nat /\ DOMAIN refs = 1 .. Len(refs)
  BY PlacesOf
<1>2. CASE i = NaN
  BY <1>2 DEF Turned, Reordered
<1>3. CASE i # NaN
  <2> DEFINE n == Len(refs)
             a == SubSeq(refs, i + 1, Len(refs))
             b == SubSeq(refs, 1, i)
  <2>1. i \in Nat /\ i < n
    BY <1>1, <1>3
  <2>2. /\ a \in Seq(Refs) /\ Len(a) = n - i /\ DOMAIN a = 1 .. n - i
        /\ \A k \in 1 .. n - i : a[k] = refs[k + i]
    <3>1. a \in Seq(Refs) /\ Len(a) = n - i /\ DOMAIN a = 1 .. n - i
      <4>1. i + 1 \in 1 .. n + 1 /\ n \in i + 1 - 1 .. n /\ n - (i + 1) + 1 = n - i
        BY <1>1, <2>1
      <4>2. a \in Seq(Refs) /\ Len(a) = n - (i + 1) + 1
        BY <4>1, SubSeqProperties
      <4> QED
        BY <4>1, <4>2, PlacesOf
    <3>2. \A k \in 1 .. n - i : a[k] = refs[(i + 1) + k - 1] /\ (i + 1) + k - 1 = k + i
      BY <1>1, <2>1
    <3> QED
      BY <3>1, <3>2
  <2>3. b \in Seq(Refs) /\ Len(b) = i /\ DOMAIN b = 1 .. i /\ \A k \in 1 .. i : b[k] = refs[k]
    BY <1>1, <2>1
  <2>4. Turned(refs, i) = a \o b
    BY <1>3 DEF Turned
  <2> HIDE DEF a, b
  <2>5. a \o b \in Seq(Refs) /\ ToSet(a \o b) = ToSet(a) \cup ToSet(b)
    BY <2>2, <2>3, JoinedLists
  <2>6. ToSet(refs) \subseteq ToSet(a) \cup ToSet(b)
    <3> SUFFICES ASSUME NEW k \in 1 .. n PROVE refs[k] \in ToSet(a) \cup ToSet(b)
      BY <1>1 DEF ToSet
    <3>1. CASE k <= i
      <4>1. k \in DOMAIN b /\ b[k] = refs[k]
        BY <2>1, <2>3, <3>1
      <4> QED
        BY <4>1 DEF ToSet
    <3>2. CASE k > i
      <4>1. k - i \in 1 .. n - i /\ (k - i) + i = k
        BY <1>1, <2>1, <3>2
      <4>2. k - i \in DOMAIN a /\ a[k - i] = refs[k]
        BY <2>2, <4>1
      <4> QED
        BY <4>2 DEF ToSet
    <3> QED
      BY <1>1, <2>1, <3>1, <3>2
  <2>7. \A k \in 1 .. n - i : k + i \in DOMAIN refs /\ k + i > i
    BY <1>1, <2>1
  <2>8. \A k \in 1 .. i : k \in DOMAIN refs /\ k <= i
    BY <1>1, <2>1
  <2>9. ToSet(a) \subseteq ToSet(refs) /\ ToSet(b) \subseteq ToSet(refs)
    BY <2>2, <2>3, <2>7, <2>8 DEF ToSet
  <2>10. ASSUME IsInjective(refs) PROVE IsInjective(a \o b)
    <3>1. \A k, l \in 1 .. n - i : a[k] = a[l] => k = l
      <4> SUFFICES ASSUME NEW k \in 1 .. n - i, NEW l \in 1 .. n - i, a[k] = a[l] PROVE k = l
        OBVIOUS
      <4>1. refs[k + i] = refs[l + i]
        BY <2>2
      <4>2. k + i = l + i
        BY <2>7, <2>10, <4>1 DEF IsInjective
      <4> QED
        BY <2>1, <4>2
    <3>2. \A k, l \in 1 .. i : b[k] = b[l] => k = l
      BY <2>3, <2>8, <2>10 DEF IsInjective
    <3>3. IsInjective(a) /\ IsInjective(b)
      BY <2>2, <2>3, <3>1, <3>2 DEF IsInjective
    <3>4. ASSUME NEW k \in 1 .. n - i, NEW l \in 1 .. i, a[k] = b[l] PROVE FALSE
      <4>1. refs[k + i] = refs[l]
        BY <2>2, <2>3, <3>4
      <4>2. k + i = l
        BY <2>7, <2>8, <2>10, <4>1 DEF IsInjective
      <4> QED
        BY <2>1, <4>2
    <3>5. ToSet(a) \cap ToSet(b) = {}
      BY <2>2, <2>3, <3>4 DEF ToSet
    <3> QED
      BY <2>2, <2>3, <3>3, <3>5, JoinedLists
  <2> QED
    BY <2>4, <2>5, <2>6, <2>9, <2>10 DEF Reordered
<1> QED
  BY <1>2, <1>3

\* What the lemmas below need of a state and of a group's configuration.
Quiet == fails \in [Refs -> Nat] /\ scene.pressure \in [Refs -> Int]
Shaped(g) ==
    /\ g.topK \in Numbers /\ g.pipeline \in Seq(PipeStep)
    /\ g.method = "pipeline" => g.pipeline # << >>

LEMMA OrderedReorders ==
    ASSUME Quiet, NEW refs \in Seq(Refs), NEW g, NEW counter \in Numbers
    PROVE  Reordered(Ordered(g, refs, counter), refs)
<1>1. CASE g.method = "roundrobin"
  BY <1>1, TurnPlaces, TurnedReorders DEF Ordered
<1>2. CASE g.method = "best"
  BY <1>2, BestReorders DEF Ordered
<1>3. CASE g.method = "tiered"
  BY <1>3, TieredReorders DEF Ordered, Quiet
<1>4. CASE g.method \notin {"roundrobin", "best", "tiered"}
  BY <1>4, MethodReorders DEF Ordered, Quiet
<1> QED
  BY <1>1, <1>2, <1>3, <1>4

\* A pipeline ranks and cuts after every step; after the last one the list is
\* ranked.
LEMMA PipedRanks ==
    ASSUME Quiet, NEW pipeline \in Seq(PipeStep), pipeline # << >>, NEW refs, NEW pool \in SUBSET Refs, NEW cut,
           \A i \in DOMAIN pipeline : pipeline[i].topK = None \/ cut, Kept(refs, pool, cut)
    PROVE  Ranked(Piped(pipeline, refs)[Len(pipeline)], pool, cut)
<1> DEFINE n == Len(pipeline)
           T == {s \in Seq(Refs) : Kept(s, pool, cut)}
           Step(s, i) == Top(SortBy(s, pipeline[i].method), pipeline[i].topK)
           next == [i \in 1 .. n |-> [s \in T |-> Step(s, i)]]
           Loop(f) == f = [i \in 0 .. n |-> IF i = 0 THEN refs ELSE Step(f[i - 1], i)]
           read == CHOOSE f : Loop(f)
<1>1. n \in Nat /\ n >= 1 /\ DOMAIN pipeline = 1 .. n /\ \A i \in 1 .. n : pipeline[i].topK \in Numbers
  <2>1. n \in Nat /\ DOMAIN pipeline = 1 .. n /\ \A i \in 1 .. n : pipeline[i] \in PipeStep
    BY PlacesOf
  <2>2. n # 0
    BY EmptyLists
  <2> QED
    BY <2>1, <2>2 DEF PipeStep
<1>2. \A i \in 1 .. n, s \in T : Step(s, i) \in T /\ Ranked(Step(s, i), pool, cut)
  <2> SUFFICES ASSUME NEW i \in 1 .. n, NEW s \in T PROVE Step(s, i) \in T /\ Ranked(Step(s, i), pool, cut)
    OBVIOUS
  <2> DEFINE o == SortBy(s, pipeline[i].method)
  <2>1. Reordered(o, s) /\ Kept(s, pool, cut)
    BY MethodReorders DEF Quiet
  <2>2. pipeline[i].topK \in Numbers /\ (pipeline[i].topK = None \/ cut) /\ fails \in [Refs -> Nat]
    BY <1>1 DEF Quiet
  <2> HIDE DEF o
  <2>3. Kept(o, pool, cut)
    BY <2>1, ReorderedKept
  <2>4. Ranked(Top(o, pipeline[i].topK), pool, cut)
    BY <2>2, <2>3, TopRanks
  <2>5. Top(o, pipeline[i].topK) \in T
    BY <2>4 DEF Ranked, Kept
  <2> QED
    BY <2>4, <2>5 DEF o
<1>3. refs \in T
  BY DEF Kept
<1> HIDE DEF T, n, Step
<1>4. \A i \in 1 .. n, s \in T : next[i][s] = Step(s, i) /\ next[i][s] \in T
  BY <1>2
<1> HIDE DEF next
<1>5. PICK f \in [0 .. n -> T] : Reads(f, n, refs, next)
  <2>1. \A i \in 1 .. n, s \in T : next[i][s] \in T
    BY <1>4
  <2>2. \E f \in [0 .. n -> T] : Reads(f, n, refs, next)
    BY <1>1, <1>3, <2>1, ReadingExists
  <2> QED
    BY <2>2
<1>6. Loop(f)
  <2>1. ASSUME NEW i \in 0 .. n PROVE f[i] = IF i = 0 THEN refs ELSE Step(f[i - 1], i)
    <3>1. CASE i = 0
      BY <1>5, <3>1 DEF Reads
    <3>2. CASE i # 0
      <4>1. i \in 1 .. n /\ i - 1 \in 0 .. n
        BY <1>1, <3>2
      <4>2. f[i - 1] \in T /\ f[i] = next[i][f[i - 1]]
        BY <1>5, <4>1 DEF Reads
      <4> QED
        BY <1>4, <3>2, <4>1, <4>2
    <3> QED
      BY <3>1, <3>2
  <2>2. f = [i \in 0 .. n |-> f[i]]
    BY <1>5
  <2> QED
    BY <2>1, <2>2
<1>7. Piped(pipeline, refs) = read
  BY DEF Piped, n, Step
<1>8. Loop(read)
  BY <1>6
<1> HIDE DEF read
<1>9. read[0] = refs /\ \A i \in 1 .. n : read[i] = Step(read[i - 1], i)
  <2>1. \A i \in 0 .. n : read[i] = IF i = 0 THEN refs ELSE Step(read[i - 1], i)
    BY <1>8
  <2> QED
    BY <1>1, <2>1
<1>10. Stepwise(read, n, T, refs, next)
  BY <1>4, <1>9 DEF Stepwise
<1>11. \A i \in 1 .. n : read[i - 1] \in T
  <2>1. \A i \in 1 .. n, s \in T : next[i][s] \in T
    BY <1>4
  <2> QED
    BY <1>1, <1>3, <1>10, <2>1, ReadingStays
<1>12. n \in 1 .. n
  BY <1>1
<1>13. Ranked(read[n], pool, cut)
  BY <1>2, <1>9, <1>11, <1>12
<1> QED
  BY <1>7, <1>13 DEF n

\* What resolveGroup makes of the candidates: ranked, and only a top_k cuts.
CutsOff(g) == g.topK # None \/ \E i \in DOMAIN g.pipeline : g.pipeline[i].topK # None
LEMMA ResultRanks ==
    ASSUME Quiet, NEW g, Shaped(g), NEW refs \in Seq(Refs), IsInjective(refs), NEW counter \in Numbers
    PROVE  Ranked(Result(g, refs, counter), ToSet(refs), CutsOff(g))
<1> DEFINE pool == ToSet(refs)
           cut == CutsOff(g)
<1>1. pool \in SUBSET Refs /\ fails \in [Refs -> Nat]
  BY EmptyLists DEF Quiet
<1>2. Kept(refs, pool, cut)
  <2>1. refs = << >> <=> pool = {}
    BY EmptyLists
  <2>2. \A q \in pool : Streak(q) \in Nat
    BY <1>1, StreaksCount
  <2>3. \A q \in pool : \E r \in ToSet(refs) : Streak(r) <= Streak(q)
    BY <2>2
  <2> QED
    BY <2>1, <2>3 DEF Kept
<1> HIDE DEF pool
<1>3. CASE g.method = "pipeline"
  <2>1. g.pipeline \in Seq(PipeStep) /\ g.pipeline # << >>
    BY <1>3 DEF Shaped
  <2>2. \A i \in DOMAIN g.pipeline : g.pipeline[i].topK = None \/ cut
    BY DEF CutsOff
  <2>3. Ranked(Piped(g.pipeline, refs)[Len(g.pipeline)], pool, cut)
    <3> HIDE DEF cut
    <3> QED
      BY <1>1, <1>2, <2>1, <2>2, PipedRanks
  <2> QED
    BY <1>3, <2>3 DEF Result, pool
<1>4. CASE g.method # "pipeline"
  <2> DEFINE o == Ordered(g, refs, counter)
             k == IF g.method \in {"roundrobin", "best", "tiered"} THEN None ELSE g.topK
  <2>1. Kept(o, pool, cut)
    <3>1. Reordered(o, refs)
      BY OrderedReorders
    <3> HIDE DEF o, cut
    <3> QED
      BY <1>2, <3>1, ReorderedKept
  <2>2. k \in Numbers /\ (k = None \/ cut)
    BY DEF CutsOff, Shaped, Numbers
  <2>3. Result(g, refs, counter) = Top(o, k)
    BY <1>4 DEF Result
  <2> HIDE DEF o, k, cut
  <2>4. Ranked(Top(o, k), pool, cut)
    BY <1>1, <2>1, <2>2, TopRanks
  <2> QED
    BY <2>3, <2>4 DEF cut, pool
<1> QED
  BY <1>3, <1>4

-----------------------------------------------------------------------------
\* pi's registry offers no ref twice, so neither does what is discovered.
Offered == offers \in Seq(Refs) /\ IsInjective(offers)

LEMMA AvailableLists ==
    ASSUME Offered
    PROVE  Available \in Seq(Refs) /\ IsInjective(Available)
<1> DEFINE more == Only(FreeModels, {r \in Refs : HasKey(r)} \ ToSet(offers))
<1>1. FreeModels \in Seq(Refs) /\ IsInjective(FreeModels)
  BY ListsAssumption DEF ListsAssumption
<1>2. more \in Seq(Refs) /\ IsInjective(more) /\ ToSet(more) = ToSet(FreeModels) \cap ({r \in Refs : HasKey(r)} \ ToSet(offers))
  BY <1>1, OnlyLists
<1>3. Available = offers \o more
  BY DEF Available
<1> HIDE DEF more
<1>4. ToSet(offers) \cap ToSet(more) = {}
  BY <1>2
<1> QED
  BY <1>2, <1>3, <1>4, JoinedLists DEF Offered

LEMMA DiscoveredLists ==
    ASSUME Offered
    PROVE  /\ Discovered \in Seq(Refs) /\ IsInjective(Discovered)
           /\ ToSet(Discovered) \subseteq ToSet(Available)
           /\ \A r \in ToSet(Discovered) : ~Excluded(r) /\ ~IsBlocked(r)
           /\ \A a, b \in ToSet(Discovered) :
                 Place(Discovered, a) < Place(Discovered, b) <=> Place(Available, a) < Place(Available, b)
<1> DEFINE S == {r \in Refs : Scoped(r) /\ ~Excluded(r) /\ ~IsBlocked(r)}
<1>1. Available \in Seq(Refs) /\ IsInjective(Available)
  BY AvailableLists
<1>2. Discovered = Only(Available, S)
  BY DEF Discovered
<1>3. \A r \in S : ~Excluded(r) /\ ~IsBlocked(r)
  OBVIOUS
<1> HIDE DEF S
<1> QED
  BY <1>1, <1>2, <1>3, OnlyLists, OnlyPlaces

\* Which refs are of one model, and which of those stands for it.
Twin == {e \in Refs \X Refs : SameModel(e[1], e[2])}
BetterIn(refs) == {e \in ToSet(refs) \X ToSet(refs) : Better(refs, e[1], e[2])}

LEMMA TwinsEquivalent == Equivalence(Twin, Refs)
<1>1. \A a, b \in Refs : <<a, b>> \in Twin <=> SameModel(a, b)
  BY DEF Twin
<1> QED
  BY <1>1 DEF Equivalence, SameModel

LEMMA SmallerEquivalence ==
    ASSUME NEW E, NEW S, Equivalence(E, S), NEW T \in SUBSET S
    PROVE  Equivalence(E, T)
BY DEF Equivalence

LEMMA BetterTotal ==
    ASSUME NEW refs \in Seq(Refs)
    PROVE  StrictTotal(BetterIn(refs), ToSet(refs))
<1> DEFINE T == ToSet(refs)
<1>1. T \subseteq Refs /\ Len(refs) \in Nat
  BY EmptyLists, PlacesOf
<1>2. \A a \in T : Model[a].variant \in 0 .. 4 /\ Place(refs, a) \in Nat
  <2> SUFFICES ASSUME NEW a \in T PROVE Model[a].variant \in 0 .. 4 /\ Place(refs, a) \in Nat
    OBVIOUS
  <2>1. Place(refs, a) \in DOMAIN refs
    BY PlaceIn
  <2> QED
    BY <1>1, <2>1, KnownOf, PlacesOf
<1>3. \A a, b \in T : a # b => Place(refs, a) < Place(refs, b) \/ Place(refs, b) < Place(refs, a)
  BY PlacesApart
<1>4. \A a, b \in T : <<a, b>> \in BetterIn(refs) <=>
         \/ Model[a].variant > Model[b].variant
         \/ Model[a].variant = Model[b].variant /\ Place(refs, a) < Place(refs, b)
  BY DEF BetterIn, Better
<1> HIDE DEF T
<1>5. \A a \in T : <<a, a>> \notin BetterIn(refs)
  BY <1>2, <1>4
<1>6. \A a, b \in T : a # b => <<a, b>> \in BetterIn(refs) \/ <<b, a>> \in BetterIn(refs)
  BY <1>2, <1>3, <1>4
<1>7. ASSUME NEW a \in T, NEW b \in T, NEW c \in T, <<a, b>> \in BetterIn(refs), <<b, c>> \in BetterIn(refs)
      PROVE  <<a, c>> \in BetterIn(refs)
  <2> DEFINE v(r) == Model[r].variant
             p(r) == Place(refs, r)
  <2>1. v(a) \in Nat /\ v(b) \in Nat /\ v(c) \in Nat /\ p(a) \in Nat /\ p(b) \in Nat /\ p(c) \in Nat
    BY <1>2
  <2>2. /\ v(a) > v(b) \/ (v(a) = v(b) /\ p(a) < p(b))
        /\ v(b) > v(c) \/ (v(b) = v(c) /\ p(b) < p(c))
    BY <1>4, <1>7
  <2>3. v(a) > v(c) \/ (v(a) = v(c) /\ p(a) < p(c))
    <3> HIDE DEF v, p
    <3> QED
      BY <2>1, <2>2
  <2> QED
    BY <1>4, <2>3
<1> QED
  BY <1>5, <1>6, <1>7 DEF StrictTotal, T

LEMMA DedupPicks ==
    ASSUME NEW refs \in Seq(Refs), IsInjective(refs)
    PROVE  /\ DedupByModelIdentity(refs) \in Seq(Refs) /\ IsInjective(DedupByModelIdentity(refs))
           /\ ToSet(DedupByModelIdentity(refs)) =
                {r \in ToSet(refs) : \A x \in ToSet(refs) \ {r} : SameModel(x, r) => Better(refs, r, x)}
<1> DEFINE T == ToSet(refs)
           Twins(r) == {x \in T : SameModel(x, r)}
           First(r) == \A x \in Twins(r) : Place(refs, r) <= Place(refs, x)
           Best(r) == CHOOSE x \in Twins(r) : \A y \in Twins(r) \ {x} : Better(refs, x, y)
           f == Firsts(refs, Twin)
           s == DedupByModelIdentity(refs)
<1>1. T \subseteq Refs /\ IsFiniteSet(T)
  BY EmptyLists, FiniteEntries
<1>2. \A a, b \in T : <<a, b>> \in Twin <=> SameModel(a, b)
  BY <1>1 DEF Twin
<1>3. \A a, b \in T : <<a, b>> \in BetterIn(refs) <=> Better(refs, a, b)
  BY DEF BetterIn
<1>4. Equivalence(Twin, T) /\ StrictTotal(BetterIn(refs), T)
  BY <1>1, TwinsEquivalent, SmallerEquivalence, BetterTotal
<1>5. {r \in T : First(r)} = {r \in T : \A x \in T : <<x, r>> \in Twin => Place(refs, r) <= Place(refs, x)}
  BY <1>2
<1>6. s = [i \in DOMAIN f |-> Best(f[i])]
  <2>1. f = Only(refs, {r \in T : First(r)})
    BY <1>5 DEF Firsts
  <2> QED
    BY <2>1 DEF DedupByModelIdentity
<1>7. ToSet(f) \subseteq T
  BY <1>4, FirstsLists
<1>8. ASSUME NEW i \in DOMAIN f PROVE BestLike(s[i], f[i], T, Twin, BetterIn(refs))
  <2>1. f[i] \in T
    BY <1>7 DEF ToSet
  <2>2. PICK z \in T : BestLike(z, f[i], T, Twin, BetterIn(refs))
    BY <1>1, <1>4, <2>1, BestLikeExists
  <2>3. \A x \in T : x \in Twins(f[i]) <=> <<x, f[i]>> \in Twin
    BY <1>2, <2>1
  <2>4. z \in Twins(f[i]) /\ \A y \in Twins(f[i]) \ {z} : Better(refs, z, y)
    BY <1>3, <2>2, <2>3 DEF BestLike
  <2>5. Best(f[i]) \in Twins(f[i]) /\ \A y \in Twins(f[i]) \ {Best(f[i])} : Better(refs, Best(f[i]), y)
    BY <2>4
  <2>6. s[i] = Best(f[i])
    BY <1>6
  <2> HIDE DEF Best, s, f
  <2> QED
    BY <1>3, <2>3, <2>5, <2>6 DEF BestLike
<1>9. s = [i \in DOMAIN f |-> s[i]]
  BY <1>6
<1> HIDE DEF s, f
<1>10. /\ s \in Seq(Refs) /\ IsInjective(s)
       /\ ToSet(s) = {r \in T : \A x \in T \ {r} : <<x, r>> \in Twin => <<r, x>> \in BetterIn(refs)}
  BY <1>4, <1>8, <1>9, PickedLists DEF f
<1>11. {r \in T : \A x \in T \ {r} : <<x, r>> \in Twin => <<r, x>> \in BetterIn(refs)}
         = {r \in T : \A x \in T \ {r} : SameModel(x, r) => Better(refs, r, x)}
  BY <1>2, <1>3
<1> QED
  BY <1>10, <1>11 DEF s

\* The gates ask for the refs only as a set.
LEMMA AdmitsAlike ==
    ASSUME NEW a, NEW b, ToSet(a) = ToSet(b), NEW r, NEW g
    PROVE  Admits(a, r, g) <=> Admits(b, r, g)
BY DEF Admits, InPercent

LEMMA FiltersPick ==
    ASSUME NEW refs \in Seq(Refs), IsInjective(refs), NEW g
    PROVE  /\ ApplyGroupFilters(refs, g) \in Seq(Refs) /\ IsInjective(ApplyGroupFilters(refs, g))
           /\ \A r : r \in ToSet(ApplyGroupFilters(refs, g)) <=>
                       /\ r \in ToSet(refs) /\ Listed(r, g) /\ Admits(refs, r, g)
                       /\ \A x \in ToSet(refs) \ {r} :
                             Listed(x, g) /\ SameModel(x, r) => Better(refs, r, x)
<1> DEFINE L == {r \in Refs : Listed(r, g)}
           A == {r \in Refs : Admits(refs, r, g)}
           l == Only(refs, L)
           d == DedupByModelIdentity(l)
<1>1. ToSet(refs) \subseteq Refs
  BY EmptyLists
<1>2. l \in Seq(Refs) /\ IsInjective(l) /\ ToSet(l) = ToSet(refs) \cap L
  BY OnlyLists
<1>3. \A a, b \in ToSet(l) : Place(l, a) < Place(l, b) <=> Place(refs, a) < Place(refs, b)
  BY OnlyPlaces
<1>4. \A r \in Refs : (r \in L <=> Listed(r, g)) /\ (r \in A <=> Admits(refs, r, g))
  OBVIOUS
<1>5. ApplyGroupFilters(refs, g) = Only(d, A)
  BY DEF ApplyGroupFilters
<1> HIDE DEF L, A, l
<1>6. /\ d \in Seq(Refs) /\ IsInjective(d)
      /\ ToSet(d) = {r \in ToSet(l) : \A x \in ToSet(l) \ {r} : SameModel(x, r) => Better(l, r, x)}
  BY <1>2, DedupPicks
<1> HIDE DEF d
<1>7. /\ Only(d, A) \in Seq(Refs) /\ IsInjective(Only(d, A))
      /\ ToSet(Only(d, A)) = ToSet(d) \cap A
  BY <1>6, OnlyLists
<1>8. \A r, x \in ToSet(l) : Better(l, r, x) <=> Better(refs, r, x)
  BY <1>3 DEF Better
<1>9. ASSUME NEW r
      PROVE  r \in ToSet(d) <=> /\ r \in ToSet(refs) /\ Listed(r, g)
                                /\ \A x \in ToSet(refs) \ {r} : Listed(x, g) /\ SameModel(x, r) => Better(refs, r, x)
  <2>1. \A x : x \in ToSet(l) <=> x \in ToSet(refs) /\ Listed(x, g)
    BY <1>1, <1>2, <1>4
  <2> QED
    BY <1>6, <1>8, <2>1
<1> QED
  BY <1>1, <1>4, <1>5, <1>7, <1>9

\* The candidates of a group are its pool.
LEMMA CandidatesPool ==
    ASSUME Offered, NEW g
    PROVE  /\ Candidates(g) \in Seq(Refs) /\ IsInjective(Candidates(g))
           /\ ToSet(Candidates(g)) = PoolOf(g) /\ PoolOf(g) \subseteq ToSet(Discovered)
<1> DEFINE D == ToSet(Discovered)
           M == {r \in Refs : g.models = {} \/ r \in g.models}
           H == {r \in Refs : HasBudget(r)}
           d == Only(Discovered, M)
           f == ApplyGroupFilters(d, g)
           offered == {r \in D : (g.models = {} \/ r \in g.models)}
           listed == {r \in offered : Listed(r, g)}
           asked == Only(Available, offered)
<1>1. /\ Available \in Seq(Refs) /\ IsInjective(Available) /\ ToSet(Available) \subseteq Refs
      /\ Discovered \in Seq(Refs) /\ IsInjective(Discovered) /\ D \subseteq Refs
      /\ D \subseteq ToSet(Available)
  BY AvailableLists, DiscoveredLists, EmptyLists
<1>2. d \in Seq(Refs) /\ IsInjective(d) /\ ToSet(d) = D \cap M
  BY <1>1, OnlyLists
<1>3. \A a, b \in ToSet(d) : Place(d, a) < Place(d, b) <=> Place(Discovered, a) < Place(Discovered, b)
  BY <1>1, OnlyPlaces
<1>4. \A a, b \in ToSet(d) : Place(d, a) < Place(d, b) <=> Place(Available, a) < Place(Available, b)
  <2> HIDE DEF d
  <2> QED
    BY <1>2, <1>3, DiscoveredLists
<1>5. ToSet(d) = offered
  <2>1. \A r \in Refs : r \in M <=> g.models = {} \/ r \in g.models
    OBVIOUS
  <2> HIDE DEF M, d
  <2> QED
    BY <1>1, <1>2, <2>1
<1>6. ToSet(asked) = offered
  <2>1. ToSet(asked) = ToSet(Available) \cap offered
    BY <1>1, OnlyLists
  <2> QED
    BY <1>1, <2>1
<1>7. Candidates(g) = Only(f, H)
  BY DEF Candidates
<1> HIDE DEF d, asked, M, H
<1>8. \A r, x \in offered : Better(d, r, x) <=> Better(Available, r, x)
  BY <1>4, <1>5 DEF Better
<1>9. \A r : Admits(d, r, g) <=> Admits(asked, r, g)
  BY <1>5, <1>6, AdmitsAlike
<1>10. /\ f \in Seq(Refs) /\ IsInjective(f)
       /\ \A r : r \in ToSet(f) <=>
                   /\ r \in ToSet(d) /\ Listed(r, g) /\ Admits(d, r, g)
                   /\ \A x \in ToSet(d) \ {r} : Listed(x, g) /\ SameModel(x, r) => Better(d, r, x)
  BY <1>2, FiltersPick
<1> HIDE DEF f
<1>11. Only(f, H) \in Seq(Refs) /\ IsInjective(Only(f, H)) /\ ToSet(Only(f, H)) = ToSet(f) \cap H
  BY <1>10, OnlyLists
<1>12. PoolOf(g) = {r \in listed : /\ \A x \in listed \ {r} : SameModel(x, r) => Better(Available, r, x)
                                   /\ Admits(asked, r, g) /\ HasBudget(r)}
  BY DEF PoolOf, asked
<1>13. \A r : r \in ToSet(f) <=>
                 /\ r \in listed /\ Admits(asked, r, g)
                 /\ \A x \in listed \ {r} : SameModel(x, r) => Better(Available, r, x)
  <2> SUFFICES ASSUME NEW r
               PROVE  r \in ToSet(f) <=>
                         /\ r \in listed /\ Admits(asked, r, g)
                         /\ \A x \in listed \ {r} : SameModel(x, r) => Better(Available, r, x)
    OBVIOUS
  <2>1. \A x : x \in listed <=> x \in ToSet(d) /\ Listed(x, g)
    BY <1>5
  <2> HIDE DEF listed, offered
  <2> QED
    BY <1>5, <1>8, <1>9, <1>10, <2>1
<1>14. \A r \in Refs : r \in H <=> HasBudget(r)
  BY DEF H
<1>15. listed \subseteq D
  OBVIOUS
<1> HIDE DEF listed, offered
<1>16. ToSet(Only(f, H)) = PoolOf(g)
  BY <1>1, <1>11, <1>12, <1>13, <1>14, <1>15
<1>17. PoolOf(g) \subseteq D
  BY <1>12, <1>15
<1> QED
  BY <1>7, <1>11, <1>16, <1>17

-----------------------------------------------------------------------------
\* What the resolutions of a turn find: the failures counted, pi's offer and the
\* groups in their shape.  Only the counters change on the way.
Steady ==
    /\ Quiet /\ Offered
    /\ \A n \in Names : Shaped(group[n]) /\ Fallbacks(n) \in Seq(Names)
Counters == [Names -> Numbers]

LEMMA GroupRanks ==
    ASSUME Steady, NEW n \in Names, NEW counters \in Counters
    PROVE  /\ Ranked(ResolveGroup(n, counters).list, Pool(n), CutOff(n))
           /\ ResolveGroup(n, counters).rr \in Counters
           /\ ResolveGroup(n, counters).list \in Seq(Refs)
<1> DEFINE g == group[n]
           refs == Candidates(g)
           found == ResolveGroup(n, counters)
<1>1. Quiet /\ Offered /\ Shaped(g) /\ counters[n] \in Numbers
  BY DEF Steady, Counters
<1>2. refs \in Seq(Refs) /\ IsInjective(refs) /\ ToSet(refs) = Pool(n)
  BY <1>1, CandidatesPool DEF Pool
<1>3. CutsOff(g) <=> CutOff(n)
  BY DEF CutsOff, CutOff
<1>4. /\ found.list = Result(g, refs, counters[n])
      /\ found.rr = IF g.method = "roundrobin"
                    THEN [counters EXCEPT ![n] = After(Turn(refs, counters[n]))] ELSE counters
  BY DEF ResolveGroup, ResultOf
<1> HIDE DEF refs, g, found
<1>5. Ranked(found.list, Pool(n), CutOff(n))
  <2>1. Ranked(Result(g, refs, counters[n]), ToSet(refs), CutsOff(g))
    BY <1>1, <1>2, ResultRanks
  <2> QED
    BY <1>2, <1>3, <1>4, <2>1 DEF Ranked, Kept
<1>6. found.rr \in Counters
  BY <1>1, <1>2, <1>4, TurnPlaces DEF Counters
<1> QED
  BY <1>5, <1>6 DEF found, Ranked, Kept

\* A ranked list tells of its pool: it is empty with it, and when its first
\* entry fails, all of the pool fails.
LEMMA RankedTells ==
    ASSUME fails \in [Refs -> Nat], NEW list, NEW pool \in SUBSET Refs, NEW cut, Ranked(list, pool, cut)
    PROVE  /\ list \in Seq(Refs) /\ (list = << >> <=> pool = {})
           /\ list # << >> => Head(list) \in Refs
           /\ list # << >> /\ Unhealthy(Head(list)) => \A r \in pool : Unhealthy(r)
           /\ ~HealthyFirst(list) => \A r \in pool : Unhealthy(r)
<1>1. list \in Seq(Refs) /\ ToSet(list) \subseteq pool /\ (list = << >> <=> pool = {}) /\ Orderly(list)
  BY DEF Ranked, Kept
<1>2. ASSUME list # << >> PROVE Head(list) \in Refs /\ \A r \in ToSet(list) : Streak(Head(list)) <= Streak(r)
  BY <1>1, <1>2, FirstIsLeast
<1>3. ASSUME list # << >>, Unhealthy(Head(list)), NEW q \in pool PROVE Unhealthy(q)
  <2>1. PICK r \in ToSet(list) : Streak(r) <= Streak(q)
    BY DEF Ranked, Kept
  <2>2. Head(list) \in Refs /\ r \in Refs /\ q \in Refs /\ Streak(Head(list)) <= Streak(r)
    BY <1>1, <1>2, <1>3
  <2>3. /\ Streak(Head(list)) \in Nat /\ Streak(r) \in Nat /\ Streak(q) \in Nat
        /\ Streak(Head(list)) > 0
    BY <1>3, <2>2, StreaksCount
  <2>4. Streak(q) > 0
    BY <2>1, <2>2, <2>3
  <2> QED
    BY <2>2, <2>4, StreaksCount
<1> QED
  BY <1>1, <1>2, <1>3 DEF HealthyFirst

\* resolve, for a group that is not dynamic.
Found == [list : Seq(Refs), rr : Counters, begun : BOOLEAN, empty : BOOLEAN, done : BOOLEAN]
LEMMA ConsideredFound ==
    ASSUME Steady, NEW found \in Found, NEW n \in Names
    PROVE  Asked(found, n) \in Found
<1>1. CASE found.done
  BY <1>1 DEF Asked
<1>2. CASE ~found.done
  <2> DEFINE next == ResolveGroup(n, found.rr)
  <2>1. found.rr \in Counters
    BY DEF Found
  <2>2. next.list \in Seq(Refs) /\ next.rr \in Counters
    BY <2>1, GroupRanks
  <2>3. Asked(found, n) = Considered(found, next)
    BY <1>2 DEF Asked
  <2> HIDE DEF next
  <2>4. HealthyFirst(next.list) \in BOOLEAN /\ (next.list = << >>) \in BOOLEAN
    BY DEF HealthyFirst
  <2>5. CASE ~found.begun
    BY <2>2, <2>3, <2>4, <2>5 DEF Considered, Found
  <2>6. CASE found.begun /\ next.list # << >> /\ (found.empty \/ HealthyFirst(next.list))
    BY <2>2, <2>3, <2>6 DEF Considered, Found
  <2>7. CASE found.begun /\ ~(next.list # << >> /\ (found.empty \/ HealthyFirst(next.list)))
    BY <2>2, <2>3, <2>7 DEF Considered, Found
  <2> QED
    BY <2>5, <2>6, <2>7
<1> QED
  BY <1>1, <1>2 DEF Found

\* The groups of a turn, one after the other.
ChainList(n) == <<n>> \o Fallbacks(n)
LEMMA ChainPlaces ==
    ASSUME Steady, NEW n \in Names
    PROVE  /\ Len(Fallbacks(n)) \in Nat /\ ChainList(n) \in Seq(Names)
           /\ Len(ChainList(n)) = Len(Fallbacks(n)) + 1 /\ ChainList(n)[1] = n
           /\ \A i \in 1 .. Len(ChainList(n)) : ChainList(n)[i] \in Chain(n) /\ ChainList(n)[i] \in Names
           /\ \A m \in Chain(n) : m \in Names /\ \E i \in 1 .. Len(ChainList(n)) : ChainList(n)[i] = m
<1> DEFINE s == ChainList(n)
           f == Fallbacks(n)
<1>1. f \in Seq(Names) /\ <<n>> \in Seq(Names) /\ Len(<<n>>) = 1 /\ <<n>>[1] = n /\ ToSet(<<n>>) = {n}
  BY DEF Steady, ToSet
<1>2. 1 \in DOMAIN <<n>>
  OBVIOUS
<1>3. s = <<n>> \o f
  BY DEF ChainList
<1>4. /\ s \in Seq(Names) /\ ToSet(s) = {n} \cup ToSet(f) /\ Len(s) = 1 + Len(f)
      /\ s[1] = n
  <2> DEFINE one == <<n>>
  <2> HIDE DEF one, f
  <2>1. one \in Seq(Names) /\ ToSet(one) = {n} /\ Len(one) = 1 /\ one[1] = n /\ 1 \in DOMAIN one
    BY <1>1, <1>2 DEF one
  <2>2. s = one \o f
    BY <1>3 DEF one
  <2> HIDE DEF s
  <2>3. f \in Seq(Names)
    BY <1>1
  <2>4. one \o f \in Seq(Names) /\ ToSet(one \o f) = ToSet(one) \cup ToSet(f)
    BY <2>1, <2>3, JoinedLists
  <2>5. Len(one \o f) = Len(one) + Len(f)
    BY <2>1, <2>3, JoinedLists
  <2>6. \A i \in DOMAIN one : (one \o f)[i] = one[i]
    BY <2>1, <2>3, JoinedLists
  <2> QED
    BY <2>1, <2>2, <2>4, <2>5, <2>6
<1>5. Chain(n) = ToSet(s)
  BY <1>4 DEF Chain
<1>6. Len(f) \in Nat
  BY <1>1, PlacesOf
<1>7. DOMAIN s = 1 .. Len(s) /\ \A i \in DOMAIN s : s[i] \in Names
  BY <1>4, PlacesOf
<1> HIDE DEF s, f
<1>8. \A m \in ToSet(s) : \E i \in 1 .. Len(s) : s[i] = m
  BY <1>7 DEF ToSet
<1>9. \A i \in 1 .. Len(s) : s[i] \in ToSet(s)
  BY <1>7 DEF ToSet
<1> QED
  BY <1>4, <1>5, <1>6, <1>7, <1>8, <1>9 DEF s, f

LEMMA PoolRefs ==
    ASSUME Steady, NEW g
    PROVE  PoolOf(g) \subseteq ToSet(Discovered) /\ PoolOf(g) \in SUBSET Refs
<1>1. Offered
  BY DEF Steady
<1>2. PoolOf(g) \subseteq ToSet(Discovered) /\ ToSet(Discovered) \subseteq Refs
  BY <1>1, CandidatesPool, DiscoveredLists, EmptyLists
<1> QED
  BY <1>2

\* What is known after the first i groups of a chain: whether the group itself is
\* empty, a list that is one of theirs, and while nothing is settled, that all
\* of their models fail.
Searched(n, i, f) ==
    /\ f.begun /\ (f.empty <=> Pool(n) = {}) /\ (f.list = << >> => f.empty)
    /\ \E m \in Chain(n) : Ranked(f.list, Pool(m), CutOff(m)) /\ (m # n => \A r \in Pool(n) : Unhealthy(r))
    /\ f.done => f.list # << >> /\ (f.empty \/ HealthyFirst(f.list))
    /\ ~f.done => \A j \in 1 .. i : \A r \in Pool(ChainList(n)[j]) : Unhealthy(r)
    /\ ~f.done /\ f.empty => f.list = << >> /\ \A j \in 1 .. i : Pool(ChainList(n)[j]) = {}

LEMMA SearchedStep ==
    ASSUME Steady, NEW n \in Names, NEW i \in 0 .. Len(ChainList(n)) - 1, NEW f \in Found,
           IF i = 0 THEN ~f.begun /\ ~f.done ELSE Searched(n, i, f)
    PROVE  Searched(n, i + 1, Asked(f, ChainList(n)[i + 1]))
<1> DEFINE s == ChainList(n)
           m == s[i + 1]
           next == ResolveGroup(m, f.rr)
           new == Asked(f, m)
<1>1. /\ Len(s) \in Nat /\ s[1] = n /\ m \in Chain(n) /\ m \in Names
      /\ i \in Nat /\ i + 1 \in 1 .. Len(s)
  <2>1. Len(Fallbacks(n)) \in Nat /\ Len(s) = Len(Fallbacks(n)) + 1 /\ s[1] = n
    BY ChainPlaces
  <2>2. i \in Nat /\ i + 1 \in 1 .. Len(s)
    BY <2>1
  <2>3. \A j \in 1 .. Len(s) : s[j] \in Chain(n) /\ s[j] \in Names
    BY ChainPlaces
  <2> QED
    BY <2>1, <2>2, <2>3
<1>2. CASE f.done
  <2>1. i # 0 /\ new = f /\ Searched(n, i, f)
    BY <1>2 DEF Asked
  <2> HIDE DEF new
  <2> QED
    BY <1>2, <2>1 DEF Searched, new
<1>3. CASE ~f.done
  <2>1. f.rr \in Counters
    BY DEF Found
  <2>2. Ranked(next.list, Pool(m), CutOff(m))
    BY <1>1, <2>1, GroupRanks
  <2>3. new = Considered(f, next)
    BY <1>3 DEF Asked
  <2>4. fails \in [Refs -> Nat] /\ Pool(m) \in SUBSET Refs
    BY PoolRefs DEF Pool, Steady, Quiet
  <2>0. new = Asked(f, ChainList(n)[i + 1])
    OBVIOUS
  <2> HIDE DEF next, new
  <2>5. /\ next.list \in Seq(Refs) /\ (next.list = << >> <=> Pool(m) = {})
        /\ ~HealthyFirst(next.list) => \A r \in Pool(m) : Unhealthy(r)
    BY <2>2, <2>4, RankedTells
  <2>6. HealthyFirst(next.list) => next.list # << >>
    BY DEF HealthyFirst
  <2>7. CASE i = 0
    <3>1. m = n /\ ~f.begun
      BY <1>1, <2>7
    <3>2. new = [list |-> next.list, rr |-> next.rr, begun |-> TRUE,
                 empty |-> next.list = << >>, done |-> HealthyFirst(next.list)]
      BY <2>3, <3>1 DEF Considered
    <3>3. /\ new.list = next.list /\ new.begun /\ (new.empty <=> next.list = << >>)
          /\ new.done <=> HealthyFirst(next.list)
      BY <3>2
    <3>4. \A j \in 1 .. i + 1 : s[j] = n
      BY <1>1, <2>7
    <3> HIDE DEF s, m
    <3>5. (new.empty <=> Pool(n) = {}) /\ (new.list = << >> => new.empty)
      BY <2>5, <3>1, <3>3
    <3>6. \E k \in Chain(n) : Ranked(new.list, Pool(k), CutOff(k)) /\ (k # n => \A r \in Pool(n) : Unhealthy(r))
      BY <1>1, <2>2, <3>1, <3>3
    <3>7. new.done => new.list # << >> /\ (new.empty \/ HealthyFirst(new.list))
      BY <2>6, <3>3
    <3>8. ~new.done => \A j \in 1 .. i + 1 : \A r \in Pool(s[j]) : Unhealthy(r)
      BY <2>5, <3>1, <3>3, <3>4
    <3>9. ~new.done /\ new.empty => new.list = << >> /\ \A j \in 1 .. i + 1 : Pool(s[j]) = {}
      BY <2>5, <3>1, <3>3, <3>4
    <3> QED
      BY <2>0, <3>3, <3>5, <3>6, <3>7, <3>8, <3>9 DEF Searched, s
  <2>8. CASE i # 0
    <3>1. Searched(n, i, f) /\ f.begun
      BY <2>8 DEF Searched
    <3>2. \A r \in Pool(n) : Unhealthy(r)
      <4>1. 1 \in 1 .. i
        BY <1>1, <2>8
      <4> QED
        BY <1>1, <1>3, <3>1, <4>1 DEF Searched
    <3>3. CASE next.list # << >> /\ (f.empty \/ HealthyFirst(next.list))
      <4>1. new = [f EXCEPT !.list = next.list, !.rr = next.rr, !.done = TRUE]
        BY <2>3, <3>1, <3>3 DEF Considered
      <4>2. new.list = next.list /\ (new.begun <=> f.begun) /\ (new.empty <=> f.empty) /\ new.done
        BY <4>1 DEF Found
      <4>3. (f.empty <=> Pool(n) = {}) /\ next.list # << >>
        BY <3>1, <3>3 DEF Searched
      <4> HIDE DEF s, m
      <4>4. \E k \in Chain(n) : Ranked(new.list, Pool(k), CutOff(k)) /\ (k # n => \A r \in Pool(n) : Unhealthy(r))
        BY <1>1, <2>2, <3>2, <4>2
      <4>5. new.list # << >> /\ (new.empty \/ HealthyFirst(new.list))
        BY <3>3, <4>2
      <4> QED
        BY <2>0, <3>1, <4>2, <4>3, <4>4, <4>5 DEF Searched
    <3>4. CASE ~(next.list # << >> /\ (f.empty \/ HealthyFirst(next.list)))
      <4>1. new = [f EXCEPT !.rr = next.rr]
        BY <2>3, <3>1, <3>4 DEF Considered
      <4>2. new.list = f.list /\ (new.begun <=> f.begun) /\ (new.empty <=> f.empty) /\ ~new.done
        BY <1>3, <4>1 DEF Found
      <4>3. \A r \in Pool(m) : Unhealthy(r)
        BY <2>5, <2>6, <3>4
      <4>4. f.empty => Pool(m) = {}
        BY <2>5, <3>4
      <4>5. \A j \in 1 .. i + 1 : j \in 1 .. i \/ s[j] = m
        <5> HIDE DEF s
        <5>1. \A j \in 1 .. i + 1 : j \in 1 .. i \/ j = i + 1
          BY <1>1
        <5> QED
          BY <5>1
      <4>6. /\ (f.empty <=> Pool(n) = {}) /\ (f.list = << >> => f.empty)
            /\ \E k \in Chain(n) : Ranked(f.list, Pool(k), CutOff(k)) /\ (k # n => \A r \in Pool(n) : Unhealthy(r))
            /\ \A j \in 1 .. i : \A r \in Pool(s[j]) : Unhealthy(r)
            /\ f.empty => f.list = << >> /\ \A j \in 1 .. i : Pool(s[j]) = {}
        BY <1>3, <3>1 DEF Searched
      <4> HIDE DEF s, m
      <4>7. \A j \in 1 .. i + 1 : \A r \in Pool(s[j]) : Unhealthy(r)
        BY <4>3, <4>5, <4>6
      <4>8. f.empty => \A j \in 1 .. i + 1 : Pool(s[j]) = {}
        BY <4>4, <4>5, <4>6
      <4> QED
        BY <2>0, <3>1, <4>2, <4>6, <4>7, <4>8 DEF Searched, s
    <3> QED
      BY <3>3, <3>4
  <2> QED
    BY <2>7, <2>8
<1> QED
  BY <1>2, <1>3

\* What resolve gives: the list of one group of the chain, nothing when no group
\* has a model, and a failing model first only when all of theirs fail.
Resolved(n, list) ==
    /\ \E m \in Chain(n) : Ranked(list, Pool(m), CutOff(m)) /\ (m # n => \A r \in Pool(n) : Unhealthy(r))
    /\ list = << >> <=> \A m \in Chain(n) : Pool(m) = {}
    /\ list # << >> /\ Pool(n) # {} /\ Unhealthy(Head(list)) => \A m \in Chain(n) : \A r \in Pool(m) : Unhealthy(r)

LEMMA SearchedAll ==
    ASSUME Steady, NEW n \in Names, NEW f, Searched(n, Len(ChainList(n)), f)
    PROVE  Resolved(n, f.list)
<1> DEFINE s == ChainList(n)
           L == Len(s)
<1>1. \A m \in Chain(n) : \E j \in 1 .. L : s[j] = m
  BY ChainPlaces
<1>2. /\ (f.empty <=> Pool(n) = {}) /\ (f.list = << >> => f.empty)
      /\ \E m \in Chain(n) : Ranked(f.list, Pool(m), CutOff(m)) /\ (m # n => \A r \in Pool(n) : Unhealthy(r))
      /\ f.done => f.list # << >> /\ (f.empty \/ HealthyFirst(f.list))
      /\ ~f.done => \A j \in 1 .. L : \A r \in Pool(s[j]) : Unhealthy(r)
      /\ ~f.done /\ f.empty => f.list = << >> /\ \A j \in 1 .. L : Pool(s[j]) = {}
  BY DEF Searched
<1> HIDE DEF s, L
<1>3. ~f.done => \A m \in Chain(n) : \A r \in Pool(m) : Unhealthy(r)
  BY <1>1, <1>2
<1>4. ~f.done /\ f.empty => f.list = << >> /\ \A m \in Chain(n) : Pool(m) = {}
  BY <1>1, <1>2
<1>5. f.list # << >> => \E m \in Chain(n) : Pool(m) # {}
  BY <1>2 DEF Ranked, Kept
<1>6. f.list = << >> <=> \A m \in Chain(n) : Pool(m) = {}
  BY <1>2, <1>4, <1>5
<1>7. f.list # << >> /\ Pool(n) # {} /\ Unhealthy(Head(f.list)) => ~f.done
  BY <1>2 DEF HealthyFirst
<1> QED
  BY <1>2, <1>3, <1>6, <1>7 DEF Resolved

LEMMA ResolveServes ==
    ASSUME Steady, NEW n \in Names, NEW counters \in Counters
    PROVE  /\ Resolve(n, counters).rr \in Counters /\ Resolve(n, counters).list \in Seq(Refs)
           /\ n \in Static => Resolved(n, Resolve(n, counters).list)
           /\ n \notin Static => Resolve(n, counters).list = << >>
<1> DEFINE s == ChainList(n)
           L == Len(s)
           base == [list |-> << >>, rr |-> counters, begun |-> FALSE, empty |-> TRUE,
                    done |-> group[n].method = "dynamic"]
           next == [i \in 1 .. L |-> [f \in Found |-> Asked(f, s[i])]]
           Loop(f) == f = [i \in 0 .. L |-> IF i = 0 THEN base ELSE Asked(f[i - 1], s[i])]
           read == CHOOSE f : Loop(f)
<1>1. L \in Nat /\ L = Len(Fallbacks(n)) + 1 /\ L >= 1 /\ \A i \in 1 .. L : s[i] \in Names
  <2>1. Len(Fallbacks(n)) \in Nat /\ L = Len(Fallbacks(n)) + 1
    BY ChainPlaces
  <2>2. \A i \in 1 .. L : s[i] \in Names
    BY ChainPlaces
  <2> QED
    BY <2>1, <2>2
<1>2. base \in Found
  BY DEF Found
<1>3. /\ base.list = << >> /\ base.rr = counters /\ ~base.begun /\ (base.done <=> group[n].method = "dynamic")
  OBVIOUS
<1> HIDE DEF base, L
<1>4. \A i \in 1 .. L, f \in Found : Asked(f, s[i]) \in Found
  <2> HIDE DEF s
  <2> QED
    BY <1>1, ConsideredFound
<1>5. \A i \in 1 .. L, f \in Found : next[i][f] = Asked(f, s[i]) /\ next[i][f] \in Found
  BY <1>4
<1>6. Chained(n, counters) = read
  BY DEF Chained, ChainList, base, L
<1> HIDE DEF s, next
<1>7. PICK g \in [0 .. L -> Found] : Reads(g, L, base, next)
  <2>1. \A i \in 1 .. L, f \in Found : next[i][f] \in Found
    BY <1>5
  <2>2. \E g \in [0 .. L -> Found] : Reads(g, L, base, next)
    BY <1>1, <1>2, <2>1, ReadingExists
  <2> QED
    BY <2>2
<1>8. Loop(g)
  <2>1. ASSUME NEW i \in 0 .. L PROVE g[i] = IF i = 0 THEN base ELSE Asked(g[i - 1], s[i])
    <3>1. CASE i = 0
      BY <1>7, <3>1 DEF Reads
    <3>2. CASE i # 0
      <4>1. i \in 1 .. L /\ i - 1 \in 0 .. L
        BY <1>1, <3>2
      <4>2. g[i - 1] \in Found /\ g[i] = next[i][g[i - 1]]
        BY <1>7, <4>1 DEF Reads
      <4> QED
        BY <1>5, <3>2, <4>1, <4>2
    <3> QED
      BY <3>1, <3>2
  <2>2. g = [i \in 0 .. L |-> g[i]]
    BY <1>7
  <2> QED
    BY <2>1, <2>2
<1>9. Loop(read)
  BY <1>8
<1> HIDE DEF read
<1>10. read[0] = base /\ \A i \in 1 .. L : read[i] = Asked(read[i - 1], s[i])
  <2>1. \A i \in 0 .. L : read[i] = IF i = 0 THEN base ELSE Asked(read[i - 1], s[i])
    BY <1>9
  <2> QED
    BY <1>1, <2>1
<1>11. \A k \in 0 .. L : read[k] \in Found
  <2>1. \A i \in 1 .. L, f \in Found : next[i][f] \in Found
    BY <1>5
  <2>2. Stepwise(read, L, Found, base, next)
    BY <1>5, <1>10 DEF Stepwise
  <2> QED
    BY <1>1, <1>2, <2>1, <2>2, ReadingStays
<1>12. Resolve(n, counters) = read[L] /\ read[L] \in Found
  BY <1>1, <1>6, <1>11 DEF Resolve
<1>13. ASSUME n \in Static PROVE Searched(n, L, read[L])
  <2> DEFINE B == {k \in 0 .. L : k = 0 \/ Searched(n, k, read[k])}
  <2>1. 0 \in B
    BY <1>1
  <2>2. ASSUME NEW k \in 0 .. L - 1, k \in B PROVE k + 1 \in B
    <3>1. k + 1 \in 1 .. L /\ (k + 1) - 1 = k /\ k \in 0 .. L
      BY <1>1
    <3>2. read[k + 1] = Asked(read[k], s[k + 1]) /\ read[k] \in Found
      BY <1>10, <1>11, <3>1
    <3>3. IF k = 0 THEN ~read[k].begun /\ ~read[k].done ELSE Searched(n, k, read[k])
      <4>1. ~base.done /\ ~base.begun
        BY <1>3, <1>13 DEF Static
      <4>2. k = 0 => read[k] = base
        BY <1>10
      <4> QED
        BY <2>2, <4>1, <4>2
    <3>4. k \in 0 .. Len(ChainList(n)) - 1
      BY DEF L, s
    <3>5. Searched(n, k + 1, Asked(read[k], ChainList(n)[k + 1]))
      BY <3>2, <3>3, <3>4, SearchedStep
    <3> QED
      BY <3>1, <3>2, <3>5 DEF s
  <2> HIDE DEF B
  <2>3. \A k \in 0 .. L : k \in B
    BY <1>1, <2>1, <2>2, AlongTheList
  <2>4. L \in B /\ L # 0
    BY <1>1, <2>3
  <2> QED
    BY <2>4 DEF B
<1>14. ASSUME n \in Static PROVE Resolved(n, read[L].list)
  <2>1. Searched(n, Len(ChainList(n)), read[L])
    BY <1>13, <1>14 DEF L, s
  <2> QED
    BY <2>1, SearchedAll
<1>15. ASSUME n \notin Static PROVE read[L] = base
  <2> DEFINE B == {k \in 0 .. L : read[k] = base}
  <2>1. 0 \in B
    BY <1>1, <1>10
  <2>2. base.done
    BY <1>3, <1>15 DEF Static
  <2>3. ASSUME NEW k \in 0 .. L - 1, k \in B PROVE k + 1 \in B
    <3>1. k + 1 \in 1 .. L /\ (k + 1) - 1 = k
      BY <1>1
    <3>2. read[k + 1] = Asked(base, s[k + 1])
      BY <1>10, <2>3, <3>1
    <3> QED
      BY <1>1, <2>2, <3>1, <3>2 DEF Asked
  <2> HIDE DEF B
  <2>4. \A k \in 0 .. L : k \in B
    BY <1>1, <2>1, <2>3, AlongTheList
  <2> QED
    BY <1>1, <2>4 DEF B
<1> QED
  BY <1>3, <1>12, <1>14, <1>15 DEF Found

LEMMA FirstHealthy ==
    ASSUME Steady, NEW n \in Static, NEW counters \in Counters
    PROVE  FirstIsHealthy(n, Resolve(n, counters).list)
<1> DEFINE list == Resolve(n, counters).list
<1>1. n \in Names
  BY DEF Static
<1>2. Resolved(n, list)
  BY <1>1, ResolveServes
<1> HIDE DEF list
<1>3. Orderly(list)
  BY <1>2 DEF Resolved, Ranked
<1>4. FirstIsHealthy(n, list)
  BY <1>2, <1>3 DEF Resolved, Orderly, FirstIsHealthy
<1> QED
  BY <1>4 DEF list

-----------------------------------------------------------------------------
\* The working models of a group that no top_k cuts off are all in a list.
Whole(m, list) == \A r \in Pool(m) : ~Unhealthy(r) /\ ~CutOff(m) => r \in ToSet(list)
AnyPool == UNION {Pool(m) : m \in Names}

LEMMA ResolvedGives ==
    ASSUME Steady, NEW m \in Names, NEW counters \in Counters, NEW list, list = Resolve(m, counters).list
    PROVE  /\ list \in Seq(Refs) /\ IsInjective(list) /\ ToSet(list) \subseteq AnyPool
           /\ m \in Static => Whole(m, list)
<1>1. /\ list \in Seq(Refs) /\ (m \in Static => Resolved(m, list)) /\ (m \notin Static => list = << >>)
  BY ResolveServes
<1>2. CASE m \in Static
  <2>1. PICK k \in Chain(m) : Ranked(list, Pool(k), CutOff(k)) /\ (k # m => \A r \in Pool(m) : Unhealthy(r))
    BY <1>1, <1>2 DEF Resolved
  <2>2. k \in Names
    BY ChainPlaces
  <2>3. /\ IsInjective(list) /\ ToSet(list) \subseteq Pool(k) /\ (~CutOff(k) => ToSet(list) = Pool(k))
    BY <2>1 DEF Ranked, Kept
  <2>4. ToSet(list) \subseteq AnyPool
    BY <2>2, <2>3 DEF AnyPool
  <2>5. Whole(m, list)
    BY <2>1, <2>3 DEF Whole
  <2> QED
    BY <1>1, <2>3, <2>4, <2>5
<1>3. CASE m \notin Static
  <2>1. list = << >> /\ DOMAIN list = {}
    BY <1>1, <1>3
  <2>2. IsInjective(list) /\ ToSet(list) = {}
    BY <2>1 DEF IsInjective, ToSet
  <2> QED
    BY <1>1, <1>3, <2>2
<1> QED
  BY <1>2, <1>3

\* Every group adds what the list does not have yet.
Sofar == {f \in [list : Seq(Refs), rr : Counters] : IsInjective(f.list)}
LEMMA AddingLists ==
    ASSUME NEW f \in Sofar, NEW next, next.list \in Seq(Refs), IsInjective(next.list), next.rr \in Counters
    PROVE  /\ Adding(f, next) \in Sofar
           /\ ToSet(Adding(f, next).list) = ToSet(f.list) \cup ToSet(next.list)
<1> DEFINE a == f.list
           b == Only(next.list, Refs \ ToSet(f.list))
<1>1. Adding(f, next) = [list |-> a \o b, rr |-> next.rr]
  BY DEF Adding
<1>2. /\ b \in Seq(Refs) /\ IsInjective(b) /\ ToSet(b) = ToSet(next.list) \cap (Refs \ ToSet(a))
  BY OnlyLists
<1>3. a \in Seq(Refs) /\ IsInjective(a) /\ ToSet(next.list) \subseteq Refs
  BY EmptyLists DEF Sofar
<1> HIDE DEF a, b
<1>4. Adding(f, next).list = a \o b /\ Adding(f, next).rr = next.rr
  BY <1>1
<1>5. ToSet(a) \cap ToSet(b) = {} /\ ToSet(a) \cup ToSet(b) = ToSet(a) \cup ToSet(next.list)
  BY <1>2, <1>3
<1>6. a \o b \in Seq(Refs) /\ ToSet(a \o b) = ToSet(a) \cup ToSet(b) /\ IsInjective(a \o b)
  BY <1>2, <1>3, <1>5, JoinedLists
<1> QED
  BY <1>1, <1>4, <1>5, <1>6 DEF Sofar, a

ServedList(n) == <<n, "simple">> \o Fallbacks(n)
LEMMA ServedPlaces ==
    ASSUME Steady, NEW n \in Names
    PROVE  /\ Len(Fallbacks(n)) \in Nat /\ Len(ServedList(n)) = Len(Fallbacks(n)) + 2
           /\ ServedList(n)[1] = n /\ ServedList(n)[2] = "simple"
           /\ \A i \in 3 .. Len(ServedList(n)) : ServedList(n)[i] \in Names
           /\ \A m \in Chain(n) : m = n \/ \E i \in 3 .. Len(ServedList(n)) : ServedList(n)[i] = m
<1> DEFINE R == Names \cup {"simple"}
           two == <<n, "simple">>
           f == Fallbacks(n)
           s == two \o f
<1>1. f \in Seq(Names) /\ Len(f) \in Nat /\ DOMAIN f = 1 .. Len(f) /\ \A i \in DOMAIN f : f[i] \in Names
  BY PlacesOf DEF Steady
<1>2. /\ two \in Seq(R) /\ Len(two) = 2 /\ two[1] = n /\ two[2] = "simple"
      /\ 1 \in DOMAIN two /\ 2 \in DOMAIN two
  OBVIOUS
<1>3. f \in Seq(R)
  BY <1>1
<1>4. ServedList(n) = s /\ Chain(n) = {n} \cup ToSet(f)
  BY DEF ServedList, Chain
<1> HIDE DEF R, two, f
<1>5. s \in Seq(R) /\ Len(s) = Len(two) + Len(f)
  BY <1>2, <1>3, JoinedLists
<1>6. \A i \in DOMAIN two : s[i] = two[i]
  BY <1>2, <1>3, JoinedLists
<1>7. \A i \in DOMAIN f : s[Len(two) + i] = f[i]
  <2>0. two \in Seq(R)
    BY <1>2
  <2>1. \A i \in DOMAIN f : Len(two) + i \in DOMAIN (two \o f) /\ (two \o f)[Len(two) + i] = f[i]
    BY <1>3, <2>0, JoinedLists
  <2> QED
    BY <2>1
<1> HIDE DEF s
<1>8. Len(s) = Len(f) + 2
  BY <1>1, <1>2, <1>5
<1>9. ASSUME NEW i \in 3 .. Len(s) PROVE s[i] \in Names
  <2>1. i - 2 \in DOMAIN f /\ Len(two) + (i - 2) = i
    BY <1>1, <1>2, <1>8
  <2> QED
    BY <1>1, <1>7, <2>1
<1>10. ASSUME NEW m \in ToSet(f) PROVE \E i \in 3 .. Len(s) : s[i] = m
  <2>1. PICK j \in DOMAIN f : f[j] = m
    BY DEF ToSet
  <2>2. Len(two) + j \in 3 .. Len(s)
    BY <1>1, <1>2, <1>8
  <2> QED
    BY <1>7, <2>1, <2>2
<1> QED
  BY <1>1, <1>2, <1>4, <1>6, <1>8, <1>9, <1>10 DEF f

\* What the list holds after the first i names of a turn.
Gathering(n, i, list) ==
    /\ IsInjective(list) /\ ToSet(list) \subseteq AnyPool /\ Whole(n, list)
    /\ list # << >> => \A j \in 3 .. i : ServedList(n)[j] \in Static => Whole(ServedList(n)[j], list)
    /\ list = << >> => \A m \in Chain(n) : Pool(m) = {}

LEMMA ServedSofar ==
    ASSUME Steady, NEW f \in Sofar, NEW m, NEW first \in BOOLEAN
    PROVE  /\ Served(f, m, first) \in Sofar
           /\ IF m \in Names /\ first = (f.list = << >>)
              THEN /\ ToSet(Served(f, m, first).list) = ToSet(f.list) \cup ToSet(Resolve(m, f.rr).list)
                   /\ Resolve(m, f.rr).list # << >> => Served(f, m, first).list # << >>
              ELSE Served(f, m, first) = f
<1>1. CASE m \in Names /\ first = (f.list = << >>)
  <2> DEFINE next == Resolve(m, f.rr)
             new == Served(f, m, first)
  <2>1. f.rr \in Counters
    BY DEF Sofar
  <2>2. next.list \in Seq(Refs) /\ IsInjective(next.list) /\ next.rr \in Counters
    BY <1>1, <2>1, ResolveServes, ResolvedGives
  <2>3. new = Adding(f, next)
    BY <1>1 DEF Served
  <2> HIDE DEF next, new
  <2>4. new \in Sofar /\ ToSet(new.list) = ToSet(f.list) \cup ToSet(next.list)
    BY <2>2, <2>3, AddingLists
  <2>5. new.list \in Seq(Refs)
    BY <2>4 DEF Sofar
  <2>6. next.list # << >> => new.list # << >>
    BY <2>2, <2>4, <2>5, EmptyLists
  <2> QED
    BY <1>1, <2>4, <2>6 DEF next, new
<1>2. CASE ~(m \in Names /\ first = (f.list = << >>))
  BY <1>2 DEF Served
<1> QED
  BY <1>1, <1>2

LEMMA GatheringStep ==
    ASSUME Steady, NEW n \in Static, NEW i \in 0 .. Len(ServedList(n)) - 1, NEW f \in Sofar,
           IF i = 0 THEN f.list = << >> ELSE Gathering(n, i, f.list)
    PROVE  Gathering(n, i + 1, Served(f, ServedList(n)[i + 1], i + 1 <= 2).list)
<1> DEFINE s == ServedList(n)
           m == s[i + 1]
           first == i + 1 <= 2
           next == Resolve(m, f.rr)
           new == Served(f, m, first)
<1>0. new = Served(f, ServedList(n)[i + 1], i + 1 <= 2)
  OBVIOUS
<1>1. n \in Names
  BY DEF Static
<1>2. /\ i \in Nat /\ i + 1 \in 1 .. Len(s) /\ s[1] = n /\ \A j \in 3 .. Len(s) : s[j] \in Names
  <2>1. Len(Fallbacks(n)) \in Nat /\ Len(s) = Len(Fallbacks(n)) + 2 /\ s[1] = n
    BY <1>1, ServedPlaces
  <2>2. \A j \in 3 .. Len(s) : s[j] \in Names
    BY <1>1, ServedPlaces
  <2> QED
    BY <2>1, <2>2
<1>3. f.list \in Seq(Refs) /\ IsInjective(f.list) /\ f.rr \in Counters
  BY DEF Sofar
<1>4. /\ new \in Sofar
      /\ IF m \in Names /\ first = (f.list = << >>)
         THEN /\ ToSet(new.list) = ToSet(f.list) \cup ToSet(next.list)
              /\ next.list # << >> => new.list # << >>
         ELSE new = f
  <2>1. first \in BOOLEAN
    OBVIOUS
  <2> HIDE DEF m, first
  <2> QED
    BY <2>1, ServedSofar
<1>5. m \in Names =>
        /\ next.list \in Seq(Refs) /\ ToSet(next.list) \subseteq AnyPool
        /\ m \in Static => Whole(m, next.list) /\ Resolved(m, next.list)
  BY <1>3, ResolveServes, ResolvedGives
<1>6. (first <=> i + 1 <= 2) /\ first \in BOOLEAN
  OBVIOUS
<1> HIDE DEF s, m, first, next, new
<1>7. new.list \in Seq(Refs) /\ IsInjective(new.list)
  BY <1>4 DEF Sofar
<1>8. ToSet(<< >>) = {}
  BY DEF ToSet
<1>9. \A k \in Names : ToSet(f.list) \subseteq ToSet(new.list) /\ Whole(k, f.list) => Whole(k, new.list)
  BY DEF Whole
<1>10. CASE i = 0
  <2>1. f.list = << >> /\ first /\ m = n /\ m \in Static
    BY <1>2, <1>6, <1>10 DEF m
  <2>2. ToSet(new.list) = ToSet(next.list) /\ (next.list # << >> => new.list # << >>)
    BY <1>1, <1>4, <1>8, <2>1
  <2>3. Whole(n, new.list) /\ ToSet(new.list) \subseteq AnyPool
    BY <1>1, <1>5, <2>1, <2>2 DEF Whole
  <2>4. new.list = << >> => \A k \in Chain(n) : Pool(k) = {}
    BY <1>1, <1>5, <2>1, <2>2 DEF Resolved
  <2>5. 3 .. i + 1 = {}
    BY <1>10
  <2> QED
    BY <1>0, <1>7, <2>3, <2>4, <2>5 DEF Gathering
<1>11. CASE i # 0 /\ ~(m \in Names /\ first = (f.list = << >>))
  <2>1. new = f /\ Gathering(n, i, f.list)
    BY <1>4, <1>11
  <2>2. ASSUME f.list # << >>, i + 1 \in 3 .. i + 1 PROVE FALSE
    <3>1. i + 1 \in 3 .. Len(s) /\ ~(i + 1 <= 2)
      BY <1>2, <2>2
    <3>2. m \in Names /\ first = FALSE
      BY <1>2, <1>6, <3>1 DEF m
    <3> QED
      BY <1>11, <2>2, <3>2
  <2>3. \A j \in 3 .. i + 1 : j \in 3 .. i \/ j = i + 1
    BY <1>2
  <2>4. f.list # << >> => \A j \in 3 .. i + 1 : j \in 3 .. i
    BY <2>2, <2>3
  <2> QED
    BY <1>0, <2>1, <2>4 DEF Gathering
<1>12. CASE i # 0 /\ m \in Names /\ first = (f.list = << >>)
  <2>1. Gathering(n, i, f.list)
    BY <1>12
  <2>2. /\ ToSet(new.list) = ToSet(f.list) \cup ToSet(next.list)
        /\ next.list # << >> => new.list # << >>
    BY <1>4, <1>12
  <2>3. ToSet(new.list) \subseteq AnyPool /\ Whole(n, new.list)
    BY <1>1, <1>5, <1>9, <1>12, <2>1, <2>2 DEF Gathering
  <2>4. f.list # << >> => new.list # << >>
    BY <1>3, <1>7, <2>2, EmptyLists
  <2>5. new.list = << >> => \A k \in Chain(n) : Pool(k) = {}
    BY <2>1, <2>4 DEF Gathering
  <2>6. ASSUME NEW j \in 3 .. i + 1 PROVE f.list # << >> /\ (j \in 3 .. i \/ j = i + 1)
    <3>1. ~(i + 1 <= 2) /\ (j \in 3 .. i \/ j = i + 1)
      BY <1>2
    <3>2. first = FALSE
      BY <1>6, <3>1
    <3> QED
      BY <1>12, <3>1, <3>2
  <2>7. ASSUME NEW j \in 3 .. i + 1, s[j] \in Static PROVE Whole(s[j], new.list)
    <3>1. f.list # << >> /\ (j \in 3 .. i \/ j = i + 1) /\ s[j] \in Names
      BY <2>6, <2>7 DEF Static
    <3>2. CASE j \in 3 .. i
      <4>1. Whole(s[j], f.list)
        BY <2>1, <2>7, <3>1, <3>2 DEF Gathering, s
      <4> QED
        BY <1>9, <2>2, <3>1, <4>1
    <3>3. CASE j = i + 1
      <4>1. s[j] = m
        BY <3>3 DEF m
      <4>2. Whole(m, next.list)
        BY <1>5, <1>12, <2>7, <4>1
      <4> QED
        BY <2>2, <4>1, <4>2 DEF Whole
    <3> QED
      BY <3>1, <3>2, <3>3
  <2> QED
    BY <1>0, <1>7, <2>3, <2>5, <2>7 DEF Gathering, s
<1> QED
  BY <1>10, <1>11, <1>12

LEMMA GatheredAll ==
    ASSUME Steady, NEW n \in Static, NEW list, Gathering(n, Len(ServedList(n)), list)
    PROVE  NothingLost(n, list)
<1> DEFINE s == ServedList(n)
<1>1. n \in Names
  BY DEF Static
<1>2. \A m \in Chain(n) : m = n \/ \E i \in 3 .. Len(s) : s[i] = m
  BY <1>1, ServedPlaces
<1>3. /\ IsInjective(list) /\ ToSet(list) \subseteq AnyPool /\ Whole(n, list)
      /\ list # << >> => \A j \in 3 .. Len(s) : s[j] \in Static => Whole(s[j], list)
      /\ list = << >> => \A m \in Chain(n) : Pool(m) = {}
  BY DEF Gathering
<1> HIDE DEF s
<1>4. ASSUME NEW m \in Chain(n) \cap Static PROVE Whole(m, list)
  <2>1. CASE list = << >>
    BY <1>3, <2>1 DEF Whole
  <2>2. CASE list # << >>
    BY <1>2, <1>3, <2>2
  <2> QED
    BY <2>1, <2>2
<1> QED
  BY <1>3, <1>4 DEF NothingLost, Whole, AnyPool

LEMMA TurnGathers ==
    ASSUME Steady, rr \in Counters, NEW n \in Names
    PROVE  TurnList(n).rr \in Counters /\ (n \in Static => NothingLost(n, TurnList(n).list))
<1> DEFINE s == ServedList(n)
           L == Len(s)
           base == [list |-> << >>, rr |-> rr]
           Step(f, i) == Served(f, s[i], i <= 2)
           next == [i \in 1 .. L |-> [f \in Sofar |-> Step(f, i)]]
           Loop(f) == f = [i \in 0 .. L |-> IF i = 0 THEN base ELSE Step(f[i - 1], i)]
           read == CHOOSE f : Loop(f)
<1>1. L \in Nat /\ L = Len(Fallbacks(n)) + 2 /\ L >= 1
  <2>1. Len(Fallbacks(n)) \in Nat /\ L = Len(Fallbacks(n)) + 2
    BY ServedPlaces
  <2> QED
    BY <2>1
<1>2. base \in Sofar /\ base.list = << >>
  <2>1. IsInjective(<< >>)
    BY DEF IsInjective
  <2> QED
    BY <2>1 DEF Sofar
<1>3. Gathered(n) = read
  BY DEF Gathered, ServedList, base, L, s, Step
<1> HIDE DEF base, L
<1>4. \A i \in 1 .. L, f \in Sofar : Step(f, i) \in Sofar
  <2> HIDE DEF s
  <2>1. \A i \in 1 .. L : (i <= 2) \in BOOLEAN
    OBVIOUS
  <2> QED
    BY <2>1, ServedSofar
<1> HIDE DEF Step
<1>5. \A i \in 1 .. L, f \in Sofar : next[i][f] = Step(f, i) /\ next[i][f] \in Sofar
  BY <1>4
<1> HIDE DEF next
<1>7. PICK g \in [0 .. L -> Sofar] : Reads(g, L, base, next)
  <2>1. \A i \in 1 .. L, f \in Sofar : next[i][f] \in Sofar
    BY <1>5
  <2>2. \E g \in [0 .. L -> Sofar] : Reads(g, L, base, next)
    BY <1>1, <1>2, <2>1, ReadingExists
  <2> QED
    BY <2>2
<1>8. Loop(g)
  <2>1. ASSUME NEW i \in 0 .. L PROVE g[i] = IF i = 0 THEN base ELSE Step(g[i - 1], i)
    <3>1. CASE i = 0
      BY <1>7, <3>1 DEF Reads
    <3>2. CASE i # 0
      <4>1. i \in 1 .. L /\ i - 1 \in 0 .. L
        BY <1>1, <3>2
      <4>2. g[i - 1] \in Sofar /\ g[i] = next[i][g[i - 1]]
        BY <1>7, <4>1 DEF Reads
      <4> QED
        BY <1>5, <3>2, <4>1, <4>2
    <3> QED
      BY <3>1, <3>2
  <2>2. g = [i \in 0 .. L |-> g[i]]
    BY <1>7
  <2> QED
    BY <2>1, <2>2
<1>9. Loop(read)
  BY <1>8
<1> HIDE DEF read
<1>10. read[0] = base /\ \A i \in 1 .. L : read[i] = Step(read[i - 1], i)
  <2>1. \A i \in 0 .. L : read[i] = IF i = 0 THEN base ELSE Step(read[i - 1], i)
    BY <1>9
  <2> QED
    BY <1>1, <2>1
<1>11. \A k \in 0 .. L : read[k] \in Sofar
  <2>1. \A i \in 1 .. L, f \in Sofar : next[i][f] \in Sofar
    BY <1>5
  <2>2. Stepwise(read, L, Sofar, base, next)
    BY <1>5, <1>10 DEF Stepwise
  <2> QED
    BY <1>1, <1>2, <2>1, <2>2, ReadingStays
<1>12. TurnList(n) = read[L] /\ read[L].rr \in Counters
  <2>1. TurnList(n) = read[L]
    BY <1>1, <1>3 DEF TurnList
  <2> QED
    BY <1>1, <1>11, <2>1 DEF Sofar
<1>13. ASSUME n \in Static PROVE Gathering(n, L, read[L].list)
  <2> DEFINE B == {k \in 0 .. L : k = 0 \/ Gathering(n, k, read[k].list)}
  <2>1. 0 \in B
    BY <1>1
  <2>2. ASSUME NEW k \in 0 .. L - 1, k \in B PROVE k + 1 \in B
    <3>1. k + 1 \in 1 .. L /\ (k + 1) - 1 = k /\ k \in 0 .. L
      BY <1>1
    <3>2. read[k + 1] = Served(read[k], s[k + 1], k + 1 <= 2) /\ read[k] \in Sofar
      BY <1>10, <1>11, <3>1 DEF Step
    <3>3. IF k = 0 THEN read[k].list = << >> ELSE Gathering(n, k, read[k].list)
      BY <1>2, <1>10, <2>2
    <3>4. k \in 0 .. Len(ServedList(n)) - 1
      BY DEF L
    <3>5. Gathering(n, k + 1, Served(read[k], ServedList(n)[k + 1], k + 1 <= 2).list)
      BY <1>13, <3>2, <3>3, <3>4, GatheringStep
    <3> QED
      BY <3>1, <3>2, <3>5
  <2> HIDE DEF B
  <2>3. \A k \in 0 .. L : k \in B
    BY <1>1, <2>1, <2>2, AlongTheList
  <2>4. L \in B /\ L # 0
    BY <1>1, <2>3
  <2> QED
    BY <2>4 DEF B
<1>14. ASSUME n \in Static PROVE NothingLost(n, read[L].list)
  <2>1. Gathering(n, Len(ServedList(n)), read[L].list)
    BY <1>13, <1>14 DEF L
  <2> QED
    BY <1>14, <2>1, GatheredAll
<1> QED
  BY <1>12, <1>14

-----------------------------------------------------------------------------
\* A HINT: those with the better score first, the unknown ones behind.
Scored == {e \in Refs \X Refs : HigherGdp(e[1], e[2])}
LEMMA HintReorders ==
    ASSUME NEW refs \in Seq(Refs)
    PROVE  Reordered(Sorted(refs, HigherGdp), refs)
<1>1. \A a, b \in Refs : <<a, b>> \in Scored <=>
         Model[a].gdp # None /\ (Model[b].gdp = None \/ Model[a].gdp > Model[b].gdp)
  BY DEF Scored, HigherGdp
<1>2. \A a \in Refs : Model[a].gdp = None \/ Model[a].gdp \in Nat
  BY KnownOf
<1>3. ASSUME NEW a \in Refs PROVE <<a, a>> \notin Scored
  <2>1. ~(Model[a].gdp > Model[a].gdp) \/ Model[a].gdp = None
    BY <1>2
  <2> QED
    BY <1>1, <2>1
<1>4. \A a, b, c \in Refs : <<a, b>> \in Scored /\ <<b, c>> \in Scored => <<a, c>> \in Scored
  BY <1>1, <1>2
<1>5. \A a, b, c \in Refs : <<a, c>> \in Scored => <<a, b>> \in Scored \/ <<b, c>> \in Scored
  BY <1>1, <1>2
<1>6. StrictWeak(Scored, Refs)
  BY <1>3, <1>4, <1>5 DEF StrictWeak
<1>7. \A i \in DOMAIN refs : refs[i] \in Refs
  BY PlacesOf
<1>8. ASSUME NEW i \in DOMAIN refs
      PROVE  {j \in DOMAIN refs : HigherGdp(refs[j], refs[i]) \/ (j < i /\ ~HigherGdp(refs[i], refs[j]))}
               = {j \in DOMAIN refs : <<refs[j], refs[i]>> \in Scored \/ (j < i /\ <<refs[i], refs[j]>> \notin Scored)}
  BY <1>7 DEF Scored
<1>9. Sorted(refs, HigherGdp) = SortedBy(refs, Scored)
  BY <1>8 DEF Sorted, SortedBy
<1> QED
  BY <1>6, <1>9, SortReorders

LEMMA CandidatesRanked ==
    ASSUME NEW refs \in Seq(Refs), IsInjective(refs)
    PROVE  /\ RankHintCandidates(refs) \in Seq(Refs) /\ IsInjective(RankHintCandidates(refs))
           /\ ToSet(RankHintCandidates(refs)) = ToSet(refs)
           /\ Fronts(RankHintCandidates(refs), {r \in Refs : Usable(r)})
<1> DEFINE U == {r \in Refs : Usable(r)}
           c == Only(refs, U)
           d == Only(refs, Refs \ U)
           a == Sorted(c, HigherGdp)
           b == Sorted(d, HigherGdp)
<1>1. RankHintCandidates(refs) = a \o b
  BY DEF RankHintCandidates
<1> HIDE DEF U
<1>2. /\ c \in Seq(Refs) /\ IsInjective(c) /\ ToSet(c) = ToSet(refs) \cap U
      /\ d \in Seq(Refs) /\ IsInjective(d) /\ ToSet(d) = ToSet(refs) \cap (Refs \ U)
  BY OnlyLists
<1> HIDE DEF c, d
<1>3. Reordered(a, c) /\ Reordered(b, d)
  BY <1>2, HintReorders
<1> HIDE DEF a, b
<1>4. /\ a \in Seq(Refs) /\ IsInjective(a) /\ ToSet(a) = ToSet(refs) \cap U
      /\ b \in Seq(Refs) /\ IsInjective(b) /\ ToSet(b) = ToSet(refs) \cap (Refs \ U)
  BY <1>2, <1>3 DEF Reordered
<1>5. ToSet(refs) \subseteq Refs
  BY EmptyLists
<1>6. /\ ToSet(a) \cap ToSet(b) = {} /\ ToSet(a) \cup ToSet(b) = ToSet(refs)
      /\ ToSet(a) \subseteq U /\ ToSet(b) \cap U = {}
  BY <1>4, <1>5
<1>7. a \o b \in Seq(Refs) /\ ToSet(a \o b) = ToSet(refs) /\ IsInjective(a \o b)
  BY <1>4, <1>6, JoinedLists
<1>8. Fronts(b, U)
  BY <1>6 DEF Fronts, ToSet
<1>9. Fronts(a \o b, U)
  BY <1>4, <1>6, <1>8, JoinedFronts
<1> QED
  BY <1>1, <1>7, <1>9 DEF U

\* Who a HINT names, and who the tables show when it names nobody.
Wanted(h) == {r \in h.names : r \in ToSet(Catalog) \cup ToSet(Discovered)}
Meant(h, rows) == h.spelled \cap ToSet(rows)
LEMMA MatchesAll ==
    ASSUME Offered, NEW h, h.names \subseteq Refs, NEW rows \in Seq(Refs)
    PROVE  /\ Matches(h, rows) \in Seq(Refs) /\ IsInjective(Matches(h, rows))
           /\ Wanted(h) # {} => ToSet(Matches(h, rows)) = Wanted(h)
           /\ Wanted(h) = {} => ToSet(Matches(h, rows)) \subseteq Meant(h, rows)
           /\ Wanted(h) = {} /\ Meant(h, rows) # {} => ToSet(Matches(h, rows)) # {}
<1> DEFINE a == Only(Discovered, h.names)
           b == Only(Catalog, h.names \ ToSet(a))
           c == Only(rows, h.spelled)
           d == Cut(c, 1)
<1>1. /\ Discovered \in Seq(Refs) /\ IsInjective(Discovered)
      /\ Catalog \in Seq(Refs) /\ IsInjective(Catalog)
  BY DiscoveredLists, ListsAssumption DEF ListsAssumption
<1>2. a \in Seq(Refs) /\ IsInjective(a) /\ ToSet(a) = ToSet(Discovered) \cap h.names
  BY <1>1, OnlyLists
<1>3. b \in Seq(Refs) /\ IsInjective(b) /\ ToSet(b) = ToSet(Catalog) \cap (h.names \ ToSet(a))
  BY <1>1, OnlyLists
<1>4. c \in Seq(Refs) /\ ToSet(c) = Meant(h, rows)
  BY OnlyLists DEF Meant
<1>5. Matches(h, rows) = IF a \o b = << >> THEN d ELSE a \o b
  BY DEF Matches
<1> HIDE DEF a, b, c
<1>6. ToSet(a) \cap ToSet(b) = {} /\ ToSet(a) \cup ToSet(b) = Wanted(h)
  BY <1>2, <1>3 DEF Wanted
<1>7. a \o b \in Seq(Refs) /\ ToSet(a \o b) = Wanted(h) /\ IsInjective(a \o b)
  <2>1. /\ a \o b \in Seq(Refs) /\ ToSet(a \o b) = ToSet(a) \cup ToSet(b)
        /\ IsInjective(a) /\ IsInjective(b) /\ ToSet(a) \cap ToSet(b) = {} => IsInjective(a \o b)
    BY <1>2, <1>3, JoinedLists
  <2> HIDE DEF d
  <2> QED
    BY <1>2, <1>3, <1>6, <2>1
<1>8. d \in Seq(Refs) /\ ToSet(d) \subseteq ToSet(c) /\ (c # << >> => d # << >>)
  BY <1>4, CutLists
<1>9. IsInjective(d)
  <2>1. Len(d) <= 1 /\ DOMAIN d = 1 .. Len(d)
    BY <1>4, CutLength
  <2>2. Len(d) \in Nat
    BY <1>8, PlacesOf
  <2>3. \A i, j \in DOMAIN d : i = j
    BY <2>1, <2>2
  <2> HIDE DEF d
  <2> QED
    BY <2>3 DEF IsInjective
<1> HIDE DEF d
<1>10. CASE a \o b = << >>
  <2>1. Wanted(h) = {} /\ Matches(h, rows) = d
    BY <1>5, <1>7, <1>10, EmptyLists
  <2>2. Meant(h, rows) # {} => ToSet(d) # {}
    BY <1>4, <1>8, EmptyLists
  <2> QED
    BY <1>4, <1>8, <1>9, <2>1, <2>2
<1>11. CASE a \o b # << >>
  <2>1. Wanted(h) # {} /\ Matches(h, rows) = a \o b
    BY <1>5, <1>7, <1>11, EmptyLists
  <2> QED
    BY <1>7, <2>1
<1> QED
  BY <1>10, <1>11

LEMMA HintsServed ==
    ASSUME Offered, NEW h, h.names \subseteq Refs, NEW rows \in Seq(Refs), ToSet(rows) \subseteq ToSet(Discovered)
    PROVE  HintServed(h, rows, HintedList(h, rows))
<1> DEFINE N == ToSet(Matches(h, rows))
           U == {r \in Refs : Usable(r)}
           named == RankHintCandidates(Matches(h, rows))
           E == {r \in {h.exact} : Usable(r)}
           first == Only(named, E)
           rest == Only(named, Refs \ ToSet(first))
           siblings == first \o rest
           S == {r \in Refs : ~IsBlocked(r) /\ ~Excluded(r) /\ Usable(r)}
           spare == Only(offers, S \ ToSet(named))
           more == Cut(Sorted(spare, HigherGdp), MaxSpare)
           list == HintedList(h, rows)
           shown == Meant(h, rows)
<1>1. /\ Matches(h, rows) \in Seq(Refs) /\ IsInjective(Matches(h, rows)) /\ ToSet(Matches(h, rows)) = N
      /\ Wanted(h) # {} => N = Wanted(h)
      /\ Wanted(h) = {} => N \subseteq shown
      /\ Wanted(h) = {} /\ shown # {} => N # {}
  <2>1. /\ Matches(h, rows) \in Seq(Refs) /\ IsInjective(Matches(h, rows))
        /\ Wanted(h) # {} => ToSet(Matches(h, rows)) = Wanted(h)
        /\ Wanted(h) = {} => ToSet(Matches(h, rows)) \subseteq Meant(h, rows)
        /\ Wanted(h) = {} /\ Meant(h, rows) # {} => ToSet(Matches(h, rows)) # {}
    BY MatchesAll
  <2> QED
    BY <2>1 DEF N, shown
<1>2. list = IF named = << >> THEN << >> ELSE siblings \o more
  BY DEF HintedList
<1>3. \A r : r \in E <=> r = h.exact /\ Usable(r)
  OBVIOUS
<1>4. \A r \in S : ~IsBlocked(r) /\ ~Excluded(r) /\ Usable(r)
  OBVIOUS
<1>5. \A r \in Refs : r \in U <=> Usable(r)
  OBVIOUS
<1>6. named \in Seq(Refs) /\ IsInjective(named) /\ ToSet(named) = N /\ Fronts(named, U)
  BY <1>1, CandidatesRanked
<1> HIDE DEF N, U, named, E, S, list, shown
<1>7. N \subseteq Refs /\ (named = << >> <=> N = {})
  BY <1>6, EmptyLists
<1>8. first \in Seq(Refs) /\ ToSet(first) = N \cap E
  BY <1>6, OnlyLists
<1> HIDE DEF first
<1>9. rest \in Seq(Refs) /\ ToSet(rest) = N \cap (Refs \ ToSet(first)) /\ Fronts(rest, U)
  BY <1>6, OnlyLists, OnlyFronts
<1> HIDE DEF rest
<1>10. siblings \in Seq(Refs) /\ ToSet(siblings) = ToSet(first) \cup ToSet(rest)
  BY <1>8, <1>9, JoinedLists
<1>11. /\ ToSet(siblings) = N
       /\ ToSet(first) \subseteq U /\ ToSet(first) \subseteq {h.exact} /\ (h.exact \in E => h.exact \notin ToSet(rest) \/ h.exact \notin N)
  BY <1>3, <1>5, <1>7, <1>8, <1>9, <1>10
<1>12. Fronts(siblings, U)
  BY <1>8, <1>9, <1>11, JoinedFronts
<1>13. ASSUME h.exact \in N, Usable(h.exact) PROVE Fronts(siblings, {h.exact})
  <2>1. h.exact \in ToSet(first) /\ ToSet(rest) \cap {h.exact} = {}
    BY <1>3, <1>8, <1>9, <1>13
  <2>2. Fronts(rest, {h.exact})
    BY <2>1 DEF Fronts, ToSet
  <2> QED
    BY <1>8, <1>9, <1>11, <2>2, JoinedFronts
<1> HIDE DEF siblings
<1>14. offers \in Seq(Refs)
  BY DEF Offered
<1>15. spare \in Seq(Refs) /\ ToSet(spare) = ToSet(offers) \cap (S \ ToSet(named))
  BY <1>14, OnlyLists
<1> HIDE DEF spare
<1>16. Sorted(spare, HigherGdp) \in Seq(Refs) /\ ToSet(Sorted(spare, HigherGdp)) = ToSet(spare)
  BY <1>15, HintReorders DEF Reordered
<1>17. more \in Seq(Refs) /\ ToSet(more) \subseteq ToSet(spare)
  <2> DEFINE o == Sorted(spare, HigherGdp)
  <2>1. o \in Seq(Refs) /\ ToSet(o) = ToSet(spare) /\ MaxSpare \in Nat
    BY <1>16, ListsAssumption DEF ListsAssumption
  <2> HIDE DEF o
  <2>2. Cut(o, MaxSpare) \in Seq(Refs) /\ ToSet(Cut(o, MaxSpare)) \subseteq ToSet(o)
    BY <2>1, CutLists
  <2> QED
    BY <2>1, <2>2 DEF o
<1> HIDE DEF more
<1>18. ToSet(more) \cap N = {} /\ \A r \in ToSet(more) : ~IsBlocked(r) /\ ~Excluded(r)
  BY <1>4, <1>6, <1>15, <1>17
<1>19. CASE N = {}
  <2>1. list = << >> /\ DOMAIN list = {} /\ ToSet(list) = {}
    BY <1>2, <1>7, <1>19 DEF ToSet
  <2>2. Wanted(h) = {} /\ shown = {}
    BY <1>1, <1>19
  <2>3. HintServed(h, rows, list)
    BY <2>1, <2>2 DEF HintServed, Wanted, Meant, shown
  <2> QED
    BY <2>3 DEF list
<1>20. CASE N # {}
  <2>1. list = siblings \o more
    BY <1>2, <1>7, <1>20
  <2>2. list \in Seq(Refs) /\ ToSet(list) = N \cup ToSet(more)
    BY <1>10, <1>11, <1>17, <2>1, JoinedLists
  <2>3. list # << >>
    BY <1>20, <2>2, EmptyLists
  <2>4. Fronts(list, N)
    <3>1. Fronts(more, N)
      BY <1>18 DEF Fronts, ToSet
    <3> QED
      BY <1>10, <1>11, <1>17, <2>1, <3>1, JoinedFronts
  <2>5. ASSUME NEW r \in N, Usable(r) PROVE Usable(Head(list))
    <3> DEFINE P == U \cap N
    <3>1. Fronts(siblings, P)
      BY <1>11, <1>12 DEF Fronts, ToSet
    <3>2. ToSet(more) \cap P = {} /\ r \in P /\ r \in ToSet(list)
      BY <1>5, <1>7, <1>18, <2>2, <2>5
    <3> HIDE DEF P
    <3>3. Fronts(list, P)
      BY <1>10, <1>17, <2>1, <3>1, <3>2, JoinedFronts
    <3>4. Head(list) \in P
      BY <2>2, <3>2, <3>3, FrontsHead
    <3> QED
      BY <1>5, <1>7, <3>4 DEF P
  <2>6. ASSUME h.exact \in N, Usable(h.exact) PROVE Head(list) = h.exact
    <3>1. Fronts(siblings, {h.exact}) /\ ToSet(more) \cap {h.exact} = {} /\ h.exact \in ToSet(list)
      BY <1>13, <1>18, <2>2, <2>6
    <3>2. Fronts(list, {h.exact})
      BY <1>10, <1>17, <2>1, <3>1, JoinedFronts
    <3>3. Head(list) \in {h.exact}
      BY <2>2, <3>1, <3>2, FrontsHead
    <3> QED
      BY <3>3
  <2>7. \A i, j \in DOMAIN list : i < j /\ list[j] \in N => list[i] \in N
    BY <2>4 DEF Fronts
  <2>8. \A r \in ToSet(list) : Excluded(r) \/ IsBlocked(r) => r \in N
    BY <1>18, <2>2
  <2>9. CASE Wanted(h) # {}
    <3>1. N = Wanted(h)
      BY <1>1, <2>9
    <3>2. \A r \in Wanted(h) : r \in ToSet(list) /\ (Usable(r) => Usable(Head(list)))
      BY <2>2, <2>5, <3>1
    <3>3. HintServed(h, rows, list)
      BY <2>3, <2>6, <2>7, <2>8, <2>9, <3>1, <3>2 DEF HintServed, Wanted
    <3> QED
      BY <3>3 DEF list
  <2>10. CASE Wanted(h) = {}
    <3>1. N \subseteq shown /\ shown # {}
      BY <1>1, <1>20, <2>10
    <3>2. Head(list) \in N
      <4>1. PICK r \in N : TRUE
        BY <1>20
      <4>2. r \in ToSet(list)
        BY <2>2, <4>1
      <4> QED
        BY <2>2, <2>4, <4>1, <4>2, FrontsHead
    <3>3. \A r \in N : ~Excluded(r) /\ ~IsBlocked(r)
      BY <3>1, DiscoveredLists DEF shown, Meant
    <3>4. HintServed(h, rows, list)
      BY <2>3, <2>8, <2>10, <3>1, <3>2, <3>3 DEF HintServed, Wanted, Meant, shown
    <3> QED
      BY <3>4 DEF list
  <2> QED
    BY <2>9, <2>10
<1> QED
  BY <1>19, <1>20

-----------------------------------------------------------------------------
\* The table.  Its order takes every ref that passes the gates, unless a step
\* of a pipeline before the last cuts some off.
Drawn(s, refs, short) ==
    /\ s \in Seq(Refs) /\ IsInjective(s) /\ ToSet(s) \subseteq ToSet(refs)
    /\ ~short => ToSet(s) = ToSet(refs)

LEMMA ReorderedDrawn ==
    ASSUME NEW refs, NEW short, NEW a, Drawn(a, refs, short), NEW b, Reordered(b, a)
    PROVE  Drawn(b, refs, short)
BY DEF Drawn, Reordered

LEMMA ShownDraws ==
    ASSUME Quiet, NEW g, Shaped(g), g.method = "pipeline", NEW refs \in Seq(Refs), IsInjective(refs)
    PROVE  Drawn(Shown(g.pipeline, refs)[Len(g.pipeline)], refs, CutShort(g))
<1> DEFINE pipeline == g.pipeline
           n == Len(pipeline)
           short == CutShort(g)
           T == {s \in Seq(Refs) : Drawn(s, refs, short)}
           Step(list, i) == Capped(DemoteUnhealthy(SortBy(list, pipeline[i].method)),
                                   IF i = Len(pipeline) THEN None ELSE pipeline[i].topK)
           next == [i \in 1 .. n |-> [s \in T |-> Step(s, i)]]
           Loop(f) == f = [i \in 0 .. n |-> IF i = 0 THEN refs ELSE Step(f[i - 1], i)]
           read == CHOOSE f : Loop(f)
<1>1. n \in Nat /\ \A i \in 1 .. n : pipeline[i].topK \in Numbers
  <2>1. n \in Nat /\ DOMAIN pipeline = 1 .. n /\ \A i \in 1 .. n : pipeline[i] \in PipeStep
    BY PlacesOf DEF Shaped
  <2> QED
    BY <2>1 DEF PipeStep
<1>2. \A i \in 1 .. n, s \in T : Step(s, i) \in T
  <2> SUFFICES ASSUME NEW i \in 1 .. n, NEW s \in T PROVE Step(s, i) \in T
    OBVIOUS
  <2> DEFINE o == SortBy(s, pipeline[i].method)
             d == DemoteUnhealthy(o)
             k == pipeline[i].topK
  <2>1. s \in Seq(Refs) /\ Drawn(s, refs, short) /\ fails \in [Refs -> Nat]
    BY DEF Quiet
  <2>2. Reordered(o, s)
    BY <2>1, MethodReorders DEF Quiet
  <2> HIDE DEF o
  <2>3. Reordered(d, o)
    BY <2>1, <2>2, FailingReorders DEF Reordered
  <2> HIDE DEF d
  <2>4. Drawn(d, refs, short)
    BY <2>1, <2>2, <2>3, ReorderedDrawn
  <2>5. Step(s, i) = IF i = n \/ k \in {None, 0} THEN d ELSE Cut(d, k)
    BY DEF d, o, Capped
  <2>6. CASE i = n \/ k \in {None, 0}
    BY <2>4, <2>5, <2>6 DEF Drawn
  <2>7. CASE ~(i = n \/ k \in {None, 0})
    <3>1. k \in Nat
      BY <1>1, <2>7 DEF Numbers
    <3>2. short
      <4>1. i \in 1 .. Len(g.pipeline) - 1 /\ g.pipeline[i].topK \notin {None, 0}
        BY <1>1, <2>7
      <4> QED
        BY <4>1 DEF CutShort
    <3>3. d \in Seq(Refs) /\ IsInjective(d) /\ ToSet(d) \subseteq ToSet(refs)
      BY <2>4 DEF Drawn
    <3> HIDE DEF k, short
    <3>4. Cut(d, k) \in Seq(Refs) /\ IsInjective(Cut(d, k)) /\ ToSet(Cut(d, k)) \subseteq ToSet(d)
      BY <3>1, <3>3, CutLists
    <3>5. Drawn(Cut(d, k), refs, short)
      BY <3>2, <3>3, <3>4 DEF Drawn
    <3>6. Step(s, i) = Cut(d, k)
      BY <2>5, <2>7 DEF k
    <3> HIDE DEF Step
    <3> QED
      BY <3>4, <3>5, <3>6
  <2> QED
    BY <2>6, <2>7
<1>3. refs \in T
  BY DEF Drawn
<1>4. Shown(g.pipeline, refs) = read
  BY DEF Shown
<1> HIDE DEF T, n, Step
<1>5. \A i \in 1 .. n, s \in T : next[i][s] = Step(s, i) /\ next[i][s] \in T
  BY <1>2
<1> HIDE DEF next
<1>6. PICK f \in [0 .. n -> T] : Reads(f, n, refs, next)
  <2>1. \A i \in 1 .. n, s \in T : next[i][s] \in T
    BY <1>5
  <2>2. \E f \in [0 .. n -> T] : Reads(f, n, refs, next)
    BY <1>1, <1>3, <2>1, ReadingExists
  <2> QED
    BY <2>2
<1>7. Loop(f)
  <2>1. ASSUME NEW i \in 0 .. n PROVE f[i] = IF i = 0 THEN refs ELSE Step(f[i - 1], i)
    <3>1. CASE i = 0
      BY <1>6, <3>1 DEF Reads
    <3>2. CASE i # 0
      <4>1. i \in 1 .. n /\ i - 1 \in 0 .. n
        BY <1>1, <3>2
      <4>2. f[i - 1] \in T /\ f[i] = next[i][f[i - 1]]
        BY <1>6, <4>1 DEF Reads
      <4> QED
        BY <1>5, <3>2, <4>1, <4>2
    <3> QED
      BY <3>1, <3>2
  <2>2. f = [i \in 0 .. n |-> f[i]]
    BY <1>6
  <2> QED
    BY <2>1, <2>2
<1>8. Loop(read)
  BY <1>7
<1> HIDE DEF read
<1>9. read[0] = refs /\ \A i \in 1 .. n : read[i] = Step(read[i - 1], i)
  <2>1. \A i \in 0 .. n : read[i] = IF i = 0 THEN refs ELSE Step(read[i - 1], i)
    BY <1>8
  <2> QED
    BY <1>1, <2>1
<1>10. \A k \in 0 .. n : read[k] \in T
  <2>1. \A i \in 1 .. n, s \in T : next[i][s] \in T
    BY <1>5
  <2>2. Stepwise(read, n, T, refs, next)
    BY <1>5, <1>9 DEF Stepwise
  <2> QED
    BY <1>1, <1>3, <2>1, <2>2, ReadingStays
<1>11. n \in 0 .. n
  BY <1>1
<1>12. Drawn(read[n], refs, short)
  BY <1>10, <1>11 DEF T
<1> QED
  BY <1>4, <1>12 DEF n

LEMMA DisplayDraws ==
    ASSUME Quiet, NEW g, Shaped(g), NEW refs \in Seq(Refs), IsInjective(refs)
    PROVE  Drawn(DisplayOrder(g, refs), refs, CutShort(g))
<1>1. Drawn(refs, refs, CutShort(g))
  BY DEF Drawn
<1>2. CASE g.method = "best"
  <2>1. Reordered(DisplayOrder(g, refs), refs)
    BY <1>2, BestReorders DEF DisplayOrder
  <2> QED
    BY <1>1, <2>1, ReorderedDrawn
<1>3. CASE g.method = "tiered"
  <2>1. Reordered(DisplayOrder(g, refs), refs)
    BY <1>3, TieredReorders DEF DisplayOrder, Quiet
  <2> QED
    BY <1>1, <2>1, ReorderedDrawn
<1>4. CASE g.method = "pipeline"
  BY <1>4, ShownDraws DEF DisplayOrder
<1>5. CASE g.method \notin {"best", "tiered", "pipeline"}
  <2>1. Reordered(DisplayOrder(g, refs), refs)
    BY <1>5, MethodReorders DEF DisplayOrder, Quiet
  <2> QED
    BY <1>1, <2>1, ReorderedDrawn
<1> QED
  BY <1>2, <1>3, <1>4, <1>5

\* One row per model: the table takes the refs that share a slug for one model.
SlugMates == {e \in Refs \X Refs : SameSlug(e[1], e[2])}
ShowsIn(refs, cooling) == {e \in ToSet(refs) \X ToSet(refs) : Shows(refs, cooling, e[1], e[2])}

LEMMA MatesEquivalent == Equivalence(SlugMates, Refs)
<1>1. \A a, b \in Refs : <<a, b>> \in SlugMates <=> SameSlug(a, b)
  BY DEF SlugMates
<1> QED
  BY <1>1 DEF Equivalence, SameSlug

LEMMA ShowsTotal ==
    ASSUME NEW refs \in Seq(Refs), NEW cooling
    PROVE  StrictTotal(ShowsIn(refs, cooling), ToSet(refs))
<1> DEFINE T == ToSet(refs)
           B == ShowsIn(refs, cooling)
           Hot(a) == a \in cooling
           p(a) == Place(refs, a)
<1>1. \A a \in T : p(a) \in Nat
  <2> SUFFICES ASSUME NEW a \in T PROVE p(a) \in Nat
    OBVIOUS
  <2>1. Place(refs, a) \in DOMAIN refs
    BY PlaceIn
  <2> QED
    BY <2>1, PlacesOf
<1>2. \A a, b \in T : a # b => p(a) < p(b) \/ p(b) < p(a)
  BY PlacesApart
<1>3. ASSUME NEW a \in T, NEW b \in T
      PROVE  <<a, b>> \in B <=> \/ ~Hot(a) /\ Hot(b)
                                \/ (Hot(a) <=> Hot(b)) /\ Canonical(a) /\ ~Canonical(b)
                                \/ (Hot(a) <=> Hot(b)) /\ (Canonical(a) <=> Canonical(b)) /\ p(a) < p(b)
  <2>1. <<a, b>> \in B <=> Shows(refs, cooling, a, b)
    BY DEF ShowsIn
  <2>2. Hot(a) \in BOOLEAN /\ Hot(b) \in BOOLEAN /\ Canonical(a) \in BOOLEAN /\ Canonical(b) \in BOOLEAN
    BY DEF Canonical
  <2>3. CASE Hot(a) # Hot(b)
    <3>1. Shows(refs, cooling, a, b) <=> Hot(b)
      BY <2>3 DEF Shows
    <3> QED
      BY <2>1, <2>2, <2>3, <3>1
  <2>4. CASE Hot(a) = Hot(b) /\ Canonical(a) # Canonical(b)
    <3>1. Shows(refs, cooling, a, b) <=> Canonical(a)
      BY <2>4 DEF Shows
    <3> QED
      BY <2>1, <2>2, <2>4, <3>1
  <2>5. CASE Hot(a) = Hot(b) /\ Canonical(a) = Canonical(b)
    <3>1. Shows(refs, cooling, a, b) <=> p(a) < p(b)
      BY <2>5 DEF Shows
    <3> QED
      BY <2>1, <2>2, <2>5, <3>1
  <2> QED
    BY <2>3, <2>4, <2>5
<1> HIDE DEF T, B, Hot, p
<1>4. \A a \in T : <<a, a>> \notin B
  BY <1>1, <1>3
<1>5. \A a, b \in T : a # b => <<a, b>> \in B \/ <<b, a>> \in B
  BY <1>2, <1>3
<1>6. ASSUME NEW a \in T, NEW b \in T, NEW c \in T, <<a, b>> \in B, <<b, c>> \in B PROVE <<a, c>> \in B
  <2>1. p(a) \in Nat /\ p(b) \in Nat /\ p(c) \in Nat
    BY <1>1
  <2>2. p(a) < p(b) /\ p(b) < p(c) => p(a) < p(c)
    BY <2>1
  <2> QED
    BY <1>3, <1>6, <2>2
<1> QED
  BY <1>4, <1>5, <1>6 DEF StrictTotal, T, B

LEMMA RowsPicked ==
    ASSUME NEW refs \in Seq(Refs), IsInjective(refs), NEW cooling
    PROVE  /\ Representatives(refs, cooling) \in Seq(Refs) /\ IsInjective(Representatives(refs, cooling))
           /\ ToSet(Representatives(refs, cooling)) =
                {r \in ToSet(refs) : \A x \in ToSet(refs) \ {r} : SameSlug(x, r) => Shows(refs, cooling, r, x)}
           /\ \A a, b \in ToSet(Representatives(refs, cooling)) : a # b => ~SameSlug(a, b)
           /\ \A r \in ToSet(refs) : \E a \in ToSet(Representatives(refs, cooling)) : SameSlug(a, r)
<1> DEFINE T == ToSet(refs)
           B == ShowsIn(refs, cooling)
           Row(r) == CHOOSE x \in T : /\ SameSlug(x, r)
                                      /\ \A y \in T \ {x} : SameSlug(y, r) => Shows(refs, cooling, x, y)
           f == Firsts(refs, SlugMates)
           s == Representatives(refs, cooling)
<1>1. T \subseteq Refs /\ IsFiniteSet(T)
  BY EmptyLists, FiniteEntries
<1>2. \A a, b \in T : <<a, b>> \in SlugMates <=> SameSlug(a, b)
  BY <1>1 DEF SlugMates
<1>3. \A a, b \in T : <<a, b>> \in B <=> Shows(refs, cooling, a, b)
  BY DEF ShowsIn
<1>4. Equivalence(SlugMates, T) /\ StrictTotal(B, T)
  BY <1>1, MatesEquivalent, SmallerEquivalence, ShowsTotal
<1>5. {r \in T : \A x \in T : SameSlug(x, r) => Place(refs, r) <= Place(refs, x)}
        = {r \in T : \A x \in T : <<x, r>> \in SlugMates => Place(refs, r) <= Place(refs, x)}
  BY <1>2
<1>6. s = [i \in DOMAIN f |-> Row(f[i])]
  <2>1. f = Only(refs, {r \in T : \A x \in T : SameSlug(x, r) => Place(refs, r) <= Place(refs, x)})
    BY <1>5 DEF Firsts
  <2> QED
    BY <2>1 DEF Representatives
<1>7. ToSet(f) \subseteq T
  BY <1>4, FirstsLists
<1> HIDE DEF B
<1>8. ASSUME NEW i \in DOMAIN f PROVE BestLike(s[i], f[i], T, SlugMates, B)
  <2>1. f[i] \in T
    BY <1>7 DEF ToSet
  <2>2. PICK x \in T : BestLike(x, f[i], T, SlugMates, B)
    BY <1>1, <1>4, <2>1, BestLikeExists
  <2>3. SameSlug(x, f[i]) /\ \A y \in T \ {x} : SameSlug(y, f[i]) => Shows(refs, cooling, x, y)
    BY <1>2, <1>3, <2>1, <2>2 DEF BestLike
  <2>4. /\ Row(f[i]) \in T /\ SameSlug(Row(f[i]), f[i])
        /\ \A y \in T \ {Row(f[i])} : SameSlug(y, f[i]) => Shows(refs, cooling, Row(f[i]), y)
    <3> HIDE DEF T
    <3> QED
      BY <2>3
  <2>5. s[i] = Row(f[i])
    BY <1>6
  <2> HIDE DEF Row, s, f, T
  <2> QED
    BY <1>2, <1>3, <2>1, <2>4, <2>5 DEF BestLike
<1>9. s = [i \in DOMAIN f |-> s[i]]
  BY <1>6
<1> HIDE DEF s, f
<1>10. /\ s \in Seq(Refs) /\ IsInjective(s)
       /\ ToSet(s) = {r \in T : \A x \in T \ {r} : <<x, r>> \in SlugMates => <<r, x>> \in B}
       /\ \A i, j \in DOMAIN s : i # j => <<s[i], s[j]>> \notin SlugMates
       /\ \A r \in T : \E i \in DOMAIN s : <<s[i], r>> \in SlugMates
  <2>1. /\ s = [i \in DOMAIN Firsts(refs, SlugMates) |-> s[i]]
        /\ \A i \in DOMAIN Firsts(refs, SlugMates) : BestLike(s[i], Firsts(refs, SlugMates)[i], T, SlugMates, B)
    BY <1>8, <1>9 DEF f
  <2>2. /\ s \in Seq(Refs) /\ IsInjective(s)
        /\ ToSet(s) = {r \in T : \A x \in T \ {r} : <<x, r>> \in SlugMates => <<r, x>> \in B}
    BY <1>4, <2>1, PickedLists
  <2>3. \A i, j \in DOMAIN s : i # j => <<s[i], s[j]>> \notin SlugMates
    BY <1>4, <2>1, PickedLists
  <2>4. \A r \in T : \E i \in DOMAIN s : <<s[i], r>> \in SlugMates
    <3>1. Represents(s, T, SlugMates)
      BY <1>4, <2>1, PickedLists
    <3> QED
      BY <3>1 DEF Represents
  <2> QED
    BY <2>2, <2>3, <2>4
<1> HIDE DEF T
<1>11. ToSet(s) = {r \in T : \A x \in T \ {r} : SameSlug(x, r) => Shows(refs, cooling, r, x)}
  BY <1>2, <1>3, <1>10
<1>12. ToSet(s) \subseteq T
  BY <1>11
<1>13. ASSUME NEW a \in ToSet(s), NEW b \in ToSet(s), a # b PROVE ~SameSlug(a, b)
  <2>1. PICK i \in DOMAIN s : s[i] = a
    BY DEF ToSet
  <2>2. PICK j \in DOMAIN s : s[j] = b
    BY DEF ToSet
  <2> QED
    BY <1>2, <1>10, <1>12, <1>13, <2>1, <2>2
<1>14. ASSUME NEW r \in T PROVE \E a \in ToSet(s) : SameSlug(a, r)
  <2>1. PICK i \in DOMAIN s : <<s[i], r>> \in SlugMates
    BY <1>10
  <2>2. s[i] \in ToSet(s)
    BY DEF ToSet
  <2> QED
    BY <1>2, <1>12, <2>1, <2>2
<1> QED
  BY <1>10, <1>11, <1>13, <1>14 DEF s, T

LEMMA TableReorders ==
    ASSUME fails \in [Refs -> Nat], NEW rows \in Seq(Refs), IsInjective(rows), NEW cooling
    PROVE  /\ Table(rows, cooling) \in Seq(Refs) /\ IsInjective(Table(rows, cooling))
           /\ ToSet(Table(rows, cooling)) = ToSet(rows)
<1> DEFINE c == Only(rows, Refs \ cooling)
           a == DemoteUnhealthy(c)
           b == Only(rows, cooling)
<1>1. ToSet(rows) \subseteq Refs
  BY EmptyLists
<1>2. /\ c \in Seq(Refs) /\ IsInjective(c) /\ ToSet(c) = ToSet(rows) \cap (Refs \ cooling)
      /\ b \in Seq(Refs) /\ IsInjective(b) /\ ToSet(b) = ToSet(rows) \cap cooling
  BY OnlyLists
<1>3. Table(rows, cooling) = a \o b
  BY DEF Table
<1> HIDE DEF c, b
<1>4. a \in Seq(Refs) /\ IsInjective(a) /\ ToSet(a) = ToSet(c)
  BY <1>2, FailingReorders DEF Reordered
<1> HIDE DEF a
<1>5. ToSet(a) \cap ToSet(b) = {} /\ ToSet(a) \cup ToSet(b) = ToSet(rows)
  BY <1>1, <1>2, <1>4
<1>6. a \o b \in Seq(Refs) /\ ToSet(a \o b) = ToSet(a) \cup ToSet(b) /\ IsInjective(a \o b)
  BY <1>2, <1>4, <1>5, JoinedLists
<1> QED
  BY <1>3, <1>5, <1>6

\* What a group's gates read of its configuration.
SameGates(g, k) ==
    /\ g.excludeProviders = k.excludeProviders /\ g.excludeModels = k.excludeModels
    /\ g.minGdpval = k.minGdpval /\ g.minPct = k.minPct /\ g.maxGdpval = k.maxGdpval
    /\ g.scoreBy = k.scoreBy /\ g.requireColumn = k.requireColumn /\ g.minScore = k.minScore
    /\ g.maxCost = k.maxCost /\ g.maxCostPerM = k.maxCostPerM /\ g.minContext = k.minContext
LEMMA GatesAlike ==
    ASSUME NEW g, NEW k, SameGates(g, k), NEW r
    PROVE  (Listed(r, g) <=> Listed(r, k)) /\ \A refs : Admits(refs, r, g) <=> Admits(refs, r, k)
BY DEF SameGates, Listed, Admits, InPercent, ColumnAdmits

LEMMA AdmittedPass ==
    ASSUME Offered, NEW g, NEW k, SameGates(g, k), k.models = {}
    PROVE  PoolOf(k) \subseteq ToSet(ApplyGroupFilters(Discovered, g))
<1> DEFINE D == ToSet(Discovered)
           offered == {r \in D : (k.models = {} \/ r \in k.models)}
           listed == {r \in offered : Listed(r, k)}
           asked == Only(Available, offered)
<1>1. /\ Available \in Seq(Refs) /\ ToSet(Available) \subseteq Refs
      /\ Discovered \in Seq(Refs) /\ IsInjective(Discovered) /\ D \subseteq ToSet(Available)
  BY AvailableLists, DiscoveredLists, EmptyLists
<1>2. offered = D
  OBVIOUS
<1>3. ToSet(asked) = D
  <2>1. ToSet(asked) = ToSet(Available) \cap offered
    BY <1>1, OnlyLists
  <2> QED
    BY <1>1, <1>2, <2>1
<1>4. PoolOf(k) = {r \in listed : /\ \A x \in listed \ {r} : SameModel(x, r) => Better(Available, r, x)
                                  /\ Admits(asked, r, k) /\ HasBudget(r)}
  BY DEF PoolOf
<1>5. \A r : r \in listed <=> r \in D /\ Listed(r, g)
  BY <1>2, GatesAlike
<1> HIDE DEF listed, asked, offered
<1>6. \A r, x \in D : Better(Discovered, r, x) <=> Better(Available, r, x)
  BY DiscoveredLists DEF Better
<1>7. \A r : Admits(asked, r, k) => Admits(Discovered, r, g)
  BY <1>3, AdmitsAlike, GatesAlike
<1>8. \A r : r \in ToSet(ApplyGroupFilters(Discovered, g)) <=>
                /\ r \in D /\ Listed(r, g) /\ Admits(Discovered, r, g)
                /\ \A x \in D \ {r} : Listed(x, g) /\ SameModel(x, r) => Better(Discovered, r, x)
  BY <1>1, FiltersPick
<1> HIDE DEF D
<1>9. ASSUME NEW r \in PoolOf(k) PROVE r \in ToSet(ApplyGroupFilters(Discovered, g))
  <2>1. /\ r \in listed /\ Admits(asked, r, k)
        /\ \A x \in listed \ {r} : SameModel(x, r) => Better(Available, r, x)
    BY <1>4
  <2>2. r \in D /\ Listed(r, g) /\ Admits(Discovered, r, g)
    BY <1>5, <1>7, <2>1
  <2>3. \A x \in D \ {r} : Listed(x, g) /\ SameModel(x, r) => Better(Discovered, r, x)
    BY <1>5, <1>6, <2>1, <2>2
  <2> QED
    BY <1>8, <2>2, <2>3
<1> QED
  BY <1>9

LEMMA TableDiscovered ==
    ASSUME Steady, NEW n \in Names, NEW cooling
    PROVE  GetTopModels(n, cooling) \in Seq(Refs) /\ ToSet(GetTopModels(n, cooling)) \subseteq ToSet(Discovered)
<1> DEFINE g == group[n]
           f == ApplyGroupFilters(Discovered, g)
           d == DisplayOrder(g, f)
           c == CoalesceBySlug(d)
           rows == Representatives(c, cooling)
           t == GetTopModels(n, cooling)
<1>1. Quiet /\ Offered /\ Shaped(g) /\ fails \in [Refs -> Nat]
  BY DEF Steady, Quiet
<1>2. t = Table(rows, cooling)
  BY DEF GetTopModels
<1>3. f \in Seq(Refs) /\ IsInjective(f) /\ ToSet(f) \subseteq ToSet(Discovered)
  BY <1>1, DiscoveredLists, FiltersPick
<1> HIDE DEF f, t, g
<1>4. Drawn(d, f, CutShort(g))
  BY <1>1, <1>3, DisplayDraws
<1> HIDE DEF d
<1>5. Reordered(c, d)
  BY <1>4, SlugReorders DEF Drawn
<1> HIDE DEF c
<1>6. c \in Seq(Refs) /\ IsInjective(c) /\ ToSet(c) \subseteq ToSet(f)
  BY <1>4, <1>5 DEF Drawn, Reordered
<1>7. rows \in Seq(Refs) /\ IsInjective(rows) /\ ToSet(rows) \subseteq ToSet(c)
  BY <1>6, RowsPicked
<1> HIDE DEF rows
<1>8. t \in Seq(Refs) /\ ToSet(t) = ToSet(rows)
  BY <1>1, <1>2, <1>7, TableReorders
<1> QED
  BY <1>3, <1>6, <1>7, <1>8 DEF t

\* The rows of all tables are discovered refs.
LEMMA RowsDiscovered ==
    ASSUME Steady, NEW cooling
    PROVE  Rows(cooling) \in Seq(Refs) /\ ToSet(Rows(cooling)) \subseteq ToSet(Discovered)
<1> DEFINE n == Len(Order)
           T == {s \in Seq(Refs) : ToSet(s) \subseteq ToSet(Discovered)}
           Step(s, m) == IF group[m].method = "dynamic" THEN s ELSE s \o Cut(GetTopModels(m, cooling), 100)
           next == [i \in 1 .. n |-> [s \in T |-> Step(s, Order[i])]]
           Loop(f) == f = [i \in 0 .. n |-> IF i = 0 THEN << >> ELSE Step(f[i - 1], Order[i])]
           read == CHOOSE f : Loop(f)
<1>1. n \in Nat /\ \A i \in 1 .. n : Order[i] \in Names
  BY ListsAssumption, PlacesOf DEF ListsAssumption
<1>2. ASSUME NEW m \in Names, NEW s \in T PROVE Step(s, m) \in T
  <2> DEFINE t == GetTopModels(m, cooling)
             u == Cut(t, 100)
  <2>1. t \in Seq(Refs) /\ ToSet(t) \subseteq ToSet(Discovered)
    BY TableDiscovered
  <2> HIDE DEF t
  <2>2. u \in Seq(Refs) /\ ToSet(u) \subseteq ToSet(t)
    <3>1. \A k \in Nat : Cut(t, k) \in Seq(Refs) /\ ToSet(Cut(t, k)) \subseteq ToSet(t)
      BY <2>1, CutLists
    <3> QED
      BY <3>1
  <2>3. Step(s, m) = IF group[m].method = "dynamic" THEN s ELSE s \o u
    BY DEF t
  <2> HIDE DEF u, Step
  <2>4. s \o u \in Seq(Refs) /\ ToSet(s \o u) = ToSet(s) \cup ToSet(u)
    BY <2>2, JoinedLists
  <2> QED
    BY <2>1, <2>2, <2>3, <2>4
<1>3. << >> \in T
  BY DEF ToSet
<1>4. Rows(cooling) = read[n]
  BY DEF Rows
<1> HIDE DEF T, n, Step
<1>5. \A i \in 1 .. n, s \in T : next[i][s] = Step(s, Order[i]) /\ next[i][s] \in T
  BY <1>1, <1>2
<1> HIDE DEF next
<1>6. PICK f \in [0 .. n -> T] : Reads(f, n, << >>, next)
  <2>1. \A i \in 1 .. n, s \in T : next[i][s] \in T
    BY <1>5
  <2>2. \E f \in [0 .. n -> T] : Reads(f, n, << >>, next)
    BY <1>1, <1>3, <2>1, ReadingExists
  <2> QED
    BY <2>2
<1>7. Loop(f)
  <2>1. ASSUME NEW i \in 0 .. n PROVE f[i] = IF i = 0 THEN << >> ELSE Step(f[i - 1], Order[i])
    <3>1. CASE i = 0
      BY <1>6, <3>1 DEF Reads
    <3>2. CASE i # 0
      <4>1. i \in 1 .. n /\ i - 1 \in 0 .. n
        BY <1>1, <3>2
      <4>2. f[i - 1] \in T /\ f[i] = next[i][f[i - 1]]
        BY <1>6, <4>1 DEF Reads
      <4> QED
        BY <1>5, <3>2, <4>1, <4>2
    <3> QED
      BY <3>1, <3>2
  <2>2. f = [i \in 0 .. n |-> f[i]]
    BY <1>6
  <2> QED
    BY <2>1, <2>2
<1>8. Loop(read)
  BY <1>7
<1> HIDE DEF read
<1>9. read[0] = << >> /\ \A i \in 1 .. n : read[i] = Step(read[i - 1], Order[i])
  <2>1. \A i \in 0 .. n : read[i] = IF i = 0 THEN << >> ELSE Step(read[i - 1], Order[i])
    BY <1>8
  <2> QED
    BY <1>1, <2>1
<1>10. \A k \in 0 .. n : read[k] \in T
  <2>1. \A i \in 1 .. n, s \in T : next[i][s] \in T
    BY <1>5
  <2>2. Stepwise(read, n, T, << >>, next)
    BY <1>5, <1>9 DEF Stepwise
  <2> QED
    BY <1>1, <1>3, <2>1, <2>2, ReadingStays
<1>11. read[n] \in T
  BY <1>1, <1>10
<1> QED
  BY <1>4, <1>11 DEF T

LEMMA TablesTell ==
    ASSUME Steady, NEW n \in Names, NEW cooling, NEW admitted,
           admitted \subseteq ToSet(ApplyGroupFilters(Discovered, group[n]))
    PROVE  TableTells(n, cooling, GetTopModels(n, cooling), admitted)
<1> DEFINE g == group[n]
           f == ApplyGroupFilters(Discovered, g)
           d == DisplayOrder(g, f)
           c == CoalesceBySlug(d)
           rows == Representatives(c, cooling)
           t == GetTopModels(n, cooling)
<1>1. Quiet /\ Offered /\ Shaped(g) /\ fails \in [Refs -> Nat]
  BY DEF Steady, Quiet
<1>2. t = Table(rows, cooling)
  BY DEF GetTopModels
<1>3. f \in Seq(Refs) /\ IsInjective(f) /\ admitted \subseteq ToSet(f)
  BY <1>1, DiscoveredLists, FiltersPick
<1> HIDE DEF f, t, g
<1>4. Drawn(d, f, CutShort(g))
  BY <1>1, <1>3, DisplayDraws
<1> HIDE DEF d
<1>5. Reordered(c, d)
  BY <1>4, SlugReorders DEF Drawn
<1> HIDE DEF c
<1>6. c \in Seq(Refs) /\ IsInjective(c) /\ (~CutShort(g) => ToSet(c) = ToSet(f))
  BY <1>4, <1>5 DEF Drawn, Reordered
<1>7. /\ rows \in Seq(Refs) /\ IsInjective(rows)
      /\ ToSet(rows) = {r \in ToSet(c) : \A x \in ToSet(c) \ {r} : SameSlug(x, r) => Shows(c, cooling, r, x)}
      /\ \A a, b \in ToSet(rows) : a # b => ~SameSlug(a, b)
      /\ \A r \in ToSet(c) : \E a \in ToSet(rows) : SameSlug(a, r)
  BY <1>6, RowsPicked
<1> HIDE DEF rows
<1>8. t \in Seq(Refs) /\ IsInjective(t) /\ ToSet(t) = ToSet(rows)
  BY <1>1, <1>2, <1>7, TableReorders
<1>9. \A i \in DOMAIN t : t[i] \in ToSet(rows)
  BY <1>8 DEF ToSet
<1>10. ASSUME NEW i \in DOMAIN t, NEW j \in DOMAIN t, i # j PROVE ~SameSlug(t[i], t[j])
  <2>1. t[i] # t[j]
    BY <1>8, <1>10 DEF IsInjective
  <2> QED
    BY <1>7, <1>9, <2>1
<1>11. ASSUME ~CutShort(g), NEW r \in admitted PROVE \E i \in DOMAIN t : SameSlug(t[i], r)
  <2>1. PICK a \in ToSet(rows) : SameSlug(a, r)
    BY <1>3, <1>6, <1>7, <1>11
  <2>2. PICK i \in DOMAIN t : t[i] = a
    BY <1>8 DEF ToSet
  <2> QED
    BY <2>1, <2>2
<1>12. ASSUME ~CutShort(g), NEW i \in DOMAIN t, t[i] \in cooling, NEW r \in admitted, SameSlug(t[i], r)
       PROVE  r \in cooling
  <2>1. r \in ToSet(c) /\ t[i] \in ToSet(rows)
    BY <1>3, <1>6, <1>9, <1>12
  <2>2. CASE r = t[i]
    BY <1>12, <2>2
  <2>3. CASE r # t[i]
    <3>1. SameSlug(r, t[i])
      BY <1>12 DEF SameSlug
    <3>2. Shows(c, cooling, t[i], r)
      BY <1>7, <2>1, <2>3, <3>1
    <3>3. ASSUME r \notin cooling PROVE FALSE
      <4>1. (t[i] \in cooling) # (r \in cooling)
        BY <1>12, <3>3
      <4>2. Shows(c, cooling, t[i], r) <=> r \in cooling
        BY <4>1 DEF Shows
      <4> QED
        BY <3>2, <3>3, <4>2
    <3> QED
      BY <3>3
  <2> QED
    BY <2>2, <2>3
<1> QED
  BY <1>10, <1>11, <1>12 DEF TableTells, t, g

-----------------------------------------------------------------------------
\* The order of the groups' quality, and the chain that is read off it.
LEMMA EligibleLists ==
    /\ Eligible \in Seq(Names)
    /\ \A n \in Names : n \in ToSet(Eligible) <=> Group[n].method # "dynamic"
    /\ IsInjective(Eligible)
    /\ \A i, j \in DOMAIN Eligible : i < j => Quality(Group[Eligible[i]]) <= Quality(Group[Eligible[j]])
    /\ \A n \in Names : Quality(Group[n]) \in Nat
<1> DEFINE S == {n \in Names : Group[n].method # "dynamic"}
           key == [n \in Names |-> Quality(Group[n])]
           W == {e \in Names \X Names : key[e[1]] < key[e[2]]}
           o == Only(Order, S)
           s == Sorted(o, LAMBDA a, b : Quality(Group[a]) < Quality(Group[b]))
<1>1. Order \in Seq(Names) /\ IsInjective(Order) /\ ToSet(Order) = Names
  BY ListsAssumption DEF ListsAssumption, Names
<1>2. ASSUME NEW n \in Names PROVE Quality(Group[n]) \in Nat
  <2>1. Group[n].minGdpval \in Numbers
    BY RoutingAssumption DEF RoutingAssumption, GroupConfig
  <2>2. CASE Group[n].maxCost = 0
    BY <2>2 DEF Quality
  <2>3. CASE Group[n].maxCost # 0 /\ Group[n].minGdpval # None
    BY <2>1, <2>3 DEF Quality, Numbers
  <2>4. CASE Group[n].maxCost # 0 /\ Group[n].minGdpval = None
    BY <2>4 DEF Quality
  <2> QED
    BY <2>2, <2>3, <2>4
<1>3. ASSUME NEW n \in Names PROVE key[n] \in Int /\ key[n] = Quality(Group[n])
  <2>1. Quality(Group[n]) \in Int
    BY <1>2
  <2> QED
    BY <2>1
<1> HIDE DEF key
<1>4. o \in Seq(Names) /\ IsInjective(o) /\ ToSet(o) = Names \cap S
  BY <1>1, OnlyLists
<1>5. Eligible = s
  BY DEF Eligible
<1> HIDE DEF o
<1>6. StrictWeak(W, Names)
  BY <1>3, KeysSort
<1>7. ToSet(o) \subseteq Names /\ \A i \in DOMAIN o : o[i] \in Names
  BY <1>4, PlacesOf
<1>8. StrictWeak(W, ToSet(o))
  <2> HIDE DEF W
  <2> QED
    BY <1>6, <1>7, SmallerWeak
<1>9. \A a, b \in Names : <<a, b>> \in W <=> Quality(Group[a]) < Quality(Group[b])
  BY <1>3
<1>10. ASSUME NEW i \in DOMAIN o
       PROVE  {j \in DOMAIN o : \/ Quality(Group[o[j]]) < Quality(Group[o[i]])
                                \/ j < i /\ ~(Quality(Group[o[i]]) < Quality(Group[o[j]]))}
                = {j \in DOMAIN o : <<o[j], o[i]>> \in W \/ (j < i /\ <<o[i], o[j]>> \notin W)}
  <2> HIDE DEF W
  <2> QED
    BY <1>7, <1>9
<1> HIDE DEF W
<1>11. s = SortedBy(o, W)
  BY <1>10 DEF Sorted, SortedBy
<1> HIDE DEF s
<1>12. s \in Seq(Names) /\ Permutes(s, o) /\ StablyBy(s, o, W)
  BY <1>4, <1>8, <1>11, SortedLists
<1>13. ToSet(s) = Names \cap S /\ IsInjective(s)
  BY <1>4, <1>12 DEF Permutes
<1>14. ASSUME NEW i \in DOMAIN s, NEW j \in DOMAIN s, i < j PROVE Quality(Group[s[i]]) <= Quality(Group[s[j]])
  <2>1. s[i] \in Names /\ s[j] \in Names
    BY <1>12, PlacesOf
  <2>2. <<s[j], s[i]>> \notin W
    BY <1>12, <1>14 DEF StablyBy
  <2> QED
    BY <1>2, <1>9, <2>1, <2>2
<1>15. \A n \in Names : n \in S <=> Group[n].method # "dynamic"
  OBVIOUS
<1> HIDE DEF S
<1>16. \A n \in Names : n \in ToSet(s) <=> Group[n].method # "dynamic"
  BY <1>13, <1>15
<1> QED
  BY <1>2, <1>5, <1>12, <1>13, <1>14, <1>16

LEMMA ReverseLists ==
    ASSUME NEW R, NEW refs \in Seq(R)
    PROVE  /\ Reverse(refs) \in Seq(R) /\ Len(Reverse(refs)) = Len(refs)
           /\ \A i \in 1 .. Len(refs) : Reverse(refs)[i] = refs[(Len(refs) - i) + 1]
<1> DEFINE n == Len(refs)
           s == Reverse(refs)
<1>1. n \in Nat /\ DOMAIN refs = 1 .. n /\ \A i \in 1 .. n : refs[i] \in R
  BY PlacesOf
<1>2. s = [i \in 1 .. n |-> refs[(n - i) + 1]]
  BY DEF Reverse
<1>3. \A i \in 1 .. n : s[i] = refs[(n - i) + 1] /\ (n - i) + 1 \in 1 .. n
  BY <1>1, <1>2
<1>4. \A i \in 1 .. n : s[i] \in R
  BY <1>1, <1>3
<1>5. s = [i \in 1 .. n |-> s[i]]
  BY <1>2
<1> HIDE DEF s
<1>6. s \in [1 .. n -> R]
  BY <1>4, <1>5
<1>7. s \in Seq(R) /\ Len(s) = n
  BY <1>1, <1>6
<1> QED
  BY <1>3, <1>7 DEF s

LEMMA ChainsWritten ==
    ASSUME NEW n \in Names, Group[n].method # "dynamic"
    PROVE  ComputeFallbackGroups(n) \in {None} \cup Seq(Names)
<1> DEFINE i == Place(Eligible, n)
           a == SubSeq(Eligible, i + 1, Len(Eligible))
           b == SubSeq(Eligible, 1, i - 1)
<1>1. Group[n].fallbacks \in {None} \cup Seq(Names)
  BY RoutingAssumption DEF RoutingAssumption, GroupConfig
<1>2. CASE Group[n].fallbacks # None
  BY <1>1, <1>2 DEF ComputeFallbackGroups
<1>3. CASE Group[n].fallbacks = None
  <2>1. Eligible \in Seq(Names) /\ n \in ToSet(Eligible)
    BY EligibleLists
  <2>2. /\ Len(Eligible) \in Nat /\ i \in 1 .. Len(Eligible)
        /\ \A k \in 1 .. Len(Eligible) : Eligible[k] \in Names
    BY <2>1, PlacesOf, PlaceIn
  <2>3. ComputeFallbackGroups(n) = a \o Reverse(b)
    BY <1>3 DEF ComputeFallbackGroups
  <2> HIDE DEF i
  <2>4. a \in Seq(Names)
    <3>1. i + 1 \in Int /\ \A k \in i + 1 .. Len(Eligible) : Eligible[k] \in Names
      BY <2>2
    <3> QED
      BY <2>2, <3>1, SubSeqProperties
  <2>5. b \in Seq(Names)
    <3>1. i - 1 \in Int /\ \A k \in 1 .. i - 1 : Eligible[k] \in Names
      BY <2>2
    <3> QED
      BY <2>2, <3>1, SubSeqProperties
  <2> HIDE DEF a, b
  <2>6. Reverse(b) \in Seq(Names)
    BY <2>5, ReverseLists
  <2>7. a \o Reverse(b) \in Seq(Names)
    BY <2>4, <2>6, JoinedLists
  <2> QED
    BY <2>3, <2>7
<1> QED
  BY <1>2, <1>3

-----------------------------------------------------------------------------
\* The state a turn starts from: a generation changes what a group lists and its
\* fallback groups, nothing else of it.
Adjusted(g, h) ==
    /\ g = [h EXCEPT !.models = g.models, !.fallbacks = g.fallbacks]
    /\ g.fallbacks \in {None} \cup Seq(Names)
RoutingShape ==
    /\ scene \in Scenes /\ offers \in scene.registries
    /\ fails \in [Refs -> Nat] /\ rr \in Counters
    /\ \A n \in Names : Adjusted(group[n], Group[n])

LEMMA AdjustedGroups ==
    ASSUME NEW n \in Names, NEW g, Adjusted(g, Group[n]), NEW k, k = [g EXCEPT !.models = {}]
    PROVE  Shaped(g) /\ SameGates(g, k) /\ k.models = {} /\ (g.method = Group[n].method)
<1> DEFINE h == Group[n]
<1>1. h \in GroupConfig /\ (h.method = "pipeline" => h.pipeline # << >>)
  BY RoutingAssumption, ListsAssumption DEF RoutingAssumption, ListsAssumption
<1>2. g = [h EXCEPT !.models = g.models, !.fallbacks = g.fallbacks]
  BY DEF Adjusted
<1> HIDE DEF h
<1>3. DOMAIN h = {"method", "topK", "pipeline", "models", "minPct", "minGdpval", "maxGdpval", "scoreBy",
                  "requireColumn", "minScore", "maxCost", "maxCostPerM", "minContext", "excludeProviders",
                  "excludeModels", "preference", "fallbacks"}
      /\ h.topK \in Numbers /\ h.pipeline \in Seq(PipeStep)
  BY <1>1 DEF GroupConfig
<1>4. /\ DOMAIN g = DOMAIN h
      /\ \A x \in DOMAIN h \ {"models", "fallbacks"} : g[x] = h[x]
  BY <1>2, <1>3
<1>5. DOMAIN k = DOMAIN g /\ k["models"] = {} /\ \A x \in DOMAIN g \ {"models"} : k[x] = g[x]
  BY <1>3, <1>4
<1>6. g.topK = h.topK /\ g.pipeline = h.pipeline /\ g.method = h.method
  BY <1>3, <1>4
<1>7. SameGates(g, k)
  BY <1>3, <1>4, <1>5 DEF SameGates
<1> QED
  BY <1>1, <1>3, <1>5, <1>6, <1>7 DEF Shaped, h

LEMMA ShapeSteady ==
    ASSUME RoutingShape
    PROVE  Steady
<1>1. Quiet
  BY ListsAssumption DEF ListsAssumption, RoutingShape, Quiet
<1>2. Offered
  <2>1. offers \in UNION {s.registries : s \in Scenes}
    BY DEF RoutingShape
  <2> QED
    BY <2>1, ListsAssumption DEF ListsAssumption, Offered
<1>3. ASSUME NEW n \in Names PROVE Shaped(group[n]) /\ Fallbacks(n) \in Seq(Names)
  <2>1. Adjusted(group[n], Group[n])
    BY DEF RoutingShape
  <2>2. Shaped(group[n])
    BY <2>1, AdjustedGroups
  <2>3. group[n].fallbacks \in {None} \cup Seq(Names)
    BY <2>1 DEF Adjusted
  <2>4. << >> \in Seq(Names)
    OBVIOUS
  <2> QED
    BY <2>2, <2>3, <2>4 DEF Fallbacks
<1> QED
  BY <1>1, <1>2, <1>3 DEF Steady

LEMMA InitShape == Init => RoutingShape
<1> SUFFICES ASSUME Init PROVE RoutingShape
  OBVIOUS
<1>1. ASSUME NEW n \in Names PROVE Adjusted(group[n], Group[n])
  <2>1. Group[n] \in GroupConfig /\ group[n] = Group[n]
    BY RoutingAssumption DEF RoutingAssumption, Init
  <2> QED
    BY <2>1 DEF Adjusted, GroupConfig
<1>2. [n \in Names |-> 0] \in Counters
  BY DEF Counters, Numbers
<1> QED
  BY <1>1, <1>2 DEF Init, RoutingShape

LEMMA GeneratedShape ==
    ASSUME NEW n \in Names
    PROVE  Adjusted(Generated[n], Group[n])
<1>1. Group[n] \in GroupConfig
  BY RoutingAssumption DEF RoutingAssumption
<1>2. CASE Group[n].method = "dynamic"
  <2>1. Generated[n] = Group[n]
    BY <1>2 DEF Generated
  <2> QED
    BY <1>1, <2>1 DEF Adjusted, GroupConfig
<1>3. CASE Group[n].method # "dynamic"
  <2> DEFINE m == ListOf(Group[n])
             f == ComputeFallbackGroups(n)
             g == [Group[n] EXCEPT !.models = m, !.fallbacks = f]
  <2>1. Generated[n] = g
    BY <1>3 DEF Generated
  <2>2. f \in {None} \cup Seq(Names)
    BY <1>3, ChainsWritten
  <2> HIDE DEF m, f
  <2>3. g.models = m /\ g.fallbacks = f
    BY <1>1 DEF GroupConfig
  <2>4. g = [Group[n] EXCEPT !.models = g.models, !.fallbacks = g.fallbacks]
    BY <2>3
  <2> HIDE DEF g
  <2> QED
    BY <2>1, <2>2, <2>3, <2>4 DEF Adjusted
<1> QED
  BY <1>2, <1>3

LEMMA StepShape == RoutingShape /\ [Next]_vars => RoutingShape'
<1> SUFFICES ASSUME RoutingShape, [Next]_vars PROVE RoutingShape'
  OBVIOUS
<1> DEFINE Same == UNCHANGED tables /\ rr' = rr
<1>1. fails \in [Refs -> Nat] /\ rr \in Counters
  BY DEF RoutingShape
<1>2. ASSUME UNCHANGED tables, fails' \in [Refs -> Nat], rr' \in Counters PROVE RoutingShape'
  BY <1>2 DEF RoutingShape, tables
<1>3. ASSUME NEW n \in Names, Route(n) PROVE RoutingShape'
  <2>1. TurnList(n).rr \in Counters
    BY <1>1, ShapeSteady, TurnGathers
  <2> QED
    BY <1>1, <1>2, <1>3, <2>1 DEF Route
<1>4. ASSUME NEW r \in Refs, Fails(r) PROVE RoutingShape'
  <2>1. UNCHANGED tables /\ rr' = rr
        /\ fails' = [fails EXCEPT ![r] = IF fails[r] < MaxFails THEN fails[r] + 1 ELSE MaxFails]
    BY <1>4 DEF Fails
  <2>2. fails' \in [Refs -> Nat]
    BY <1>1, <2>1, ListsAssumption DEF ListsAssumption
  <2> QED
    BY <1>1, <1>2, <2>1, <2>2
<1>5. ASSUME NEW r \in Refs, Answers(r) \/ Passes(r) PROVE RoutingShape'
  <2>1. UNCHANGED tables /\ rr' = rr /\ fails' = [fails EXCEPT ![r] = 0]
    BY <1>5 DEF Answers, Passes
  <2>2. fails' \in [Refs -> Nat]
    BY <1>1, <2>1
  <2> QED
    BY <1>1, <1>2, <2>1, <2>2
<1>6. ASSUME (\E r \in Refs : Ends(r)) \/ Clears \/ Spends \/ UNCHANGED vars PROVE RoutingShape'
  <2>1. UNCHANGED tables /\ fails' = fails /\ rr' = rr
    BY <1>6 DEF Ends, Clears, Spends, vars, tables
  <2> QED
    BY <1>1, <1>2, <2>1
<1>7. ASSUME Regenerate PROVE RoutingShape'
  <2>1. group' = Generated /\ UNCHANGED <<scene, offers, fails, rr>>
    BY <1>7 DEF Regenerate
  <2>2. \A n \in Names : Adjusted(Generated[n], Group[n])
    BY GeneratedShape
  <2> QED
    BY <2>1, <2>2 DEF RoutingShape
<1>8. ASSUME RegistryChanges PROVE RoutingShape'
  <2>1. offers' \in scene.registries /\ UNCHANGED <<scene, group, fails, rr>>
    BY <1>8 DEF RegistryChanges
  <2> QED
    BY <2>1 DEF RoutingShape
<1> QED
  BY <1>3, <1>4, <1>5, <1>6, <1>7, <1>8 DEF Next

LEMMA ShapeServes == RoutingShape => TurnsServed
<1> SUFFICES ASSUME RoutingShape PROVE TurnsServed
  OBVIOUS
<1>1. Steady /\ rr \in Counters /\ Offered
  BY ShapeSteady DEF RoutingShape, Steady
<1>2. ASSUME NEW n \in Static
      PROVE  FirstIsHealthy(n, Resolve(n, rr).list) /\ NothingLost(n, TurnList(n).list)
  <2>1. n \in Names
    BY DEF Static
  <2> QED
    BY <1>1, <2>1, FirstHealthy, TurnGathers
<1>3. ASSUME NEW n \in Static, NEW cooling
      PROVE  TableTells(n, cooling, GetTopModels(n, cooling), PoolOf([group[n] EXCEPT !.models = {}]))
  <2> DEFINE k == [group[n] EXCEPT !.models = {}]
  <2>1. n \in Names /\ Adjusted(group[n], Group[n])
    BY DEF Static, RoutingShape
  <2>2. SameGates(group[n], k) /\ k.models = {}
    BY <2>1, AdjustedGroups
  <2> HIDE DEF k
  <2>3. PoolOf(k) \subseteq ToSet(ApplyGroupFilters(Discovered, group[n]))
    BY <1>1, <2>2, AdmittedPass
  <2>4. TableTells(n, cooling, GetTopModels(n, cooling), PoolOf(k))
    BY <1>1, <2>1, <2>3, TablesTell
  <2> QED
    BY <2>4 DEF k
<1>4. ASSUME NEW h \in Hints, NEW cooling PROVE HintServed(h, Rows(cooling), HintedList(h, Rows(cooling)))
  <2>1. h.names \subseteq Refs
    BY ListsAssumption DEF ListsAssumption
  <2>2. Rows(cooling) \in Seq(Refs) /\ ToSet(Rows(cooling)) \subseteq ToSet(Discovered)
    BY <1>1, RowsDiscovered
  <2> QED
    BY <1>1, <2>1, <2>2, HintsServed
<1> QED
  BY <1>2, <1>3, <1>4 DEF TurnsServed

\* Whatever failures, expiries, budgets, registries, generations and other turns
\* came before: a turn gets no failing, blocked or unaffordable model while the
\* chain of its group has a better one, loses no working model of it, a HINT gets
\* who it names, and the table tells of every model (resolve, resolveGroup,
\* fallbackGroupCandidates, rankHintCandidates, getTopModels), for any catalogs,
\* groups and registries.
THEOREM TurnsAlwaysServed == Spec => []TurnsServed
<1>1. Init => RoutingShape
  BY InitShape
<1>2. RoutingShape /\ [Next]_vars => RoutingShape'
  BY StepShape
<1>3. RoutingShape => TurnsServed
  BY ShapeServes
<1> QED
  BY <1>1, <1>2, <1>3, PTL DEF Spec

-----------------------------------------------------------------------------
(***************************************************************************)
(* ListsServe.  What a generation starts from lists no ref twice; of every  *)
(* model at a provider the foremost ref stays, of every identity in a       *)
(* group's list too, and the sorts in between lose nothing.                 *)
(***************************************************************************)
LEMMA MetadataLists ==
    ASSUME Offered
    PROVE  WithMetadata \in Seq(Refs) /\ IsInjective(WithMetadata)
<1> DEFINE more == Only(Scanned, Refs \ ToSet(FreeModels))
           listed == FreeModels \o more
           last == Only(offers, Refs \ ToSet(listed))
<1>1. /\ FreeModels \in Seq(Refs) /\ IsInjective(FreeModels)
      /\ Scanned \in Seq(Refs) /\ IsInjective(Scanned)
  BY ListsAssumption DEF ListsAssumption
<1>2. more \in Seq(Refs) /\ IsInjective(more) /\ ToSet(more) = ToSet(Scanned) \cap (Refs \ ToSet(FreeModels))
  BY <1>1, OnlyLists
<1> HIDE DEF more
<1>3. listed \in Seq(Refs) /\ IsInjective(listed)
  <2>1. ToSet(FreeModels) \cap ToSet(more) = {}
    BY <1>2
  <2> QED
    BY <1>1, <1>2, <2>1, JoinedLists
<1> HIDE DEF listed
<1>4. last \in Seq(Refs) /\ IsInjective(last) /\ ToSet(last) = ToSet(offers) \cap (Refs \ ToSet(listed))
  BY OnlyLists DEF Offered
<1>5. AllModelRefs = listed \o last
  BY DEF AllModelRefs, listed, more
<1> HIDE DEF last
<1>6. AllModelRefs \in Seq(Refs) /\ IsInjective(AllModelRefs)
  <2>1. ToSet(listed) \cap ToSet(last) = {}
    BY <1>4
  <2> QED
    BY <1>3, <1>4, <1>5, <2>1, JoinedLists
<1> QED
  BY <1>6, OnlyLists DEF WithMetadata

\* A true name comes before an alias, then the place decides.
Truer(refs) ==
    {e \in ToSet(refs) \X ToSet(refs) :
        \/ Canonical(e[1]) /\ ~Canonical(e[2])
        \/ (Canonical(e[1]) <=> Canonical(e[2])) /\ Place(refs, e[1]) < Place(refs, e[2])}

LEMMA TruerTotal ==
    ASSUME NEW refs \in Seq(Refs)
    PROVE  StrictTotal(Truer(refs), ToSet(refs))
<1> DEFINE T == ToSet(refs)
           B == Truer(refs)
           p(a) == Place(refs, a)
<1>1. \A a \in T : p(a) \in Nat
  <2> SUFFICES ASSUME NEW a \in T PROVE p(a) \in Nat
    OBVIOUS
  <2>1. Place(refs, a) \in DOMAIN refs
    BY PlaceIn
  <2> QED
    BY <2>1, PlacesOf
<1>2. \A a, b \in T : a # b => p(a) < p(b) \/ p(b) < p(a)
  BY PlacesApart
<1>3. \A a, b \in T : <<a, b>> \in B <=> \/ Canonical(a) /\ ~Canonical(b)
                                         \/ (Canonical(a) <=> Canonical(b)) /\ p(a) < p(b)
  BY DEF Truer
<1> HIDE DEF T, B, p
<1>4. \A a \in T : <<a, a>> \notin B
  BY <1>1, <1>3
<1>5. \A a, b \in T : a # b => <<a, b>> \in B \/ <<b, a>> \in B
  BY <1>2, <1>3
<1>6. ASSUME NEW a \in T, NEW b \in T, NEW c \in T, <<a, b>> \in B, <<b, c>> \in B PROVE <<a, c>> \in B
  <2>1. p(a) < p(b) /\ p(b) < p(c) => p(a) < p(c)
    BY <1>1
  <2> QED
    BY <1>3, <1>6, <2>1
<1> QED
  BY <1>4, <1>5, <1>6 DEF StrictTotal, T, B

\* Who stands foremost among its like, said of places and of refs.
LEMMA ForemostSame ==
    ASSUME NEW refs \in Seq(Refs), IsInjective(refs), NEW r \in ToSet(refs)
    PROVE  Foremost(refs, r, SameModel) <=>
             \A x \in ToSet(refs) \ {r} : <<x, r>> \in Twin => <<r, x>> \in Truer(refs)
<1>1. \A x \in ToSet(refs) : x \in Refs /\ Canonical(x) \in BOOLEAN
  BY EmptyLists DEF Canonical
<1>2. \A i \in DOMAIN refs : refs[i] \in ToSet(refs) /\ Place(refs, refs[i]) = i
  <2> SUFFICES ASSUME NEW i \in DOMAIN refs PROVE refs[i] \in ToSet(refs) /\ Place(refs, refs[i]) = i
    OBVIOUS
  <2>1. refs[i] \in ToSet(refs)
    BY DEF ToSet
  <2> QED
    BY <2>1, PlaceIn
<1>3. ToSet(refs) = {refs[i] : i \in DOMAIN refs}
  BY DEF ToSet
<1>4. DOMAIN refs = 1 .. Len(refs) /\ Place(refs, r) \in DOMAIN refs
  BY PlaceIn, PlacesOf
<1>5. Foremost(refs, r, SameModel) <=>
        \A i \in DOMAIN refs : SameModel(refs[i], r) /\ refs[i] # r =>
            IF Canonical(refs[i]) = Canonical(r) THEN Place(refs, r) < i ELSE Canonical(r)
  BY <1>4 DEF Foremost
<1>6. \A x \in ToSet(refs) : /\ <<x, r>> \in Twin <=> SameModel(x, r)
                             /\ <<r, x>> \in Truer(refs) <=>
                                  IF Canonical(x) = Canonical(r) THEN Place(refs, r) < Place(refs, x) ELSE Canonical(r)
  BY <1>1 DEF Twin, Truer
<1> QED
  BY <1>2, <1>3, <1>5, <1>6

\* A generation takes the refs with one key for one model.
Alias == {e \in Refs \X Refs : SameIdentity(e[1], e[2])}
LEMMA AliasEquivalent == Equivalence(Alias, Refs)
<1>1. \A a, b \in Refs : <<a, b>> \in Alias <=> IdentityKey(a) = IdentityKey(b)
  BY DEF Alias, SameIdentity
<1> QED
  BY <1>1 DEF Equivalence

LEMMA ForemostAlias ==
    ASSUME NEW refs \in Seq(Refs), IsInjective(refs), NEW r \in ToSet(refs)
    PROVE  Foremost(refs, r, SameIdentity) <=>
             \A x \in ToSet(refs) \ {r} : <<x, r>> \in Alias => <<r, x>> \in Truer(refs)
<1>1. \A x \in ToSet(refs) : x \in Refs /\ Canonical(x) \in BOOLEAN
  BY EmptyLists DEF Canonical
<1>2. \A i \in DOMAIN refs : refs[i] \in ToSet(refs) /\ Place(refs, refs[i]) = i
  <2> SUFFICES ASSUME NEW i \in DOMAIN refs PROVE refs[i] \in ToSet(refs) /\ Place(refs, refs[i]) = i
    OBVIOUS
  <2>1. refs[i] \in ToSet(refs)
    BY DEF ToSet
  <2> QED
    BY <2>1, PlaceIn
<1>3. ToSet(refs) = {refs[i] : i \in DOMAIN refs}
  BY DEF ToSet
<1>4. DOMAIN refs = 1 .. Len(refs) /\ Place(refs, r) \in DOMAIN refs
  BY PlaceIn, PlacesOf
<1>5. Foremost(refs, r, SameIdentity) <=>
        \A i \in DOMAIN refs : SameIdentity(refs[i], r) /\ refs[i] # r =>
            IF Canonical(refs[i]) = Canonical(r) THEN Place(refs, r) < i ELSE Canonical(r)
  BY <1>4 DEF Foremost
<1>6. \A x \in ToSet(refs) : /\ <<x, r>> \in Alias <=> SameIdentity(x, r)
                             /\ <<r, x>> \in Truer(refs) <=>
                                  IF Canonical(x) = Canonical(r) THEN Place(refs, r) < Place(refs, x) ELSE Canonical(r)
  BY <1>1 DEF Alias, Truer
<1> QED
  BY <1>2, <1>3, <1>5, <1>6

LEMMA CollapsePicks ==
    ASSUME NEW refs \in Seq(Refs), IsInjective(refs)
    PROVE  /\ CollapseSameSlugClusters(refs) \in Seq(Refs) /\ IsInjective(CollapseSameSlugClusters(refs))
           /\ ToSet(CollapseSameSlugClusters(refs)) =
                {r \in ToSet(refs) : \A x \in ToSet(refs) \ {r} : <<x, r>> \in Twin => <<r, x>> \in Truer(refs)}
<1> DEFINE T == ToSet(refs)
           First(r) == \A x \in T : SameModel(x, r) => Place(refs, r) <= Place(refs, x)
           Row(r) == CHOOSE x \in T : SameModel(x, r) /\ Foremost(refs, x, SameModel)
           B == Truer(refs)
           f == Firsts(refs, Twin)
           s == CollapseSameSlugClusters(refs)
<1>1. T \subseteq Refs /\ IsFiniteSet(T)
  BY EmptyLists, FiniteEntries
<1>2. \A a, b \in T : <<a, b>> \in Twin <=> SameModel(a, b)
  BY <1>1 DEF Twin
<1>3. \A x \in T : Foremost(refs, x, SameModel) <=> \A y \in T \ {x} : <<y, x>> \in Twin => <<x, y>> \in B
  BY ForemostSame
<1>4. Equivalence(Twin, T) /\ StrictTotal(B, T)
  BY <1>1, TwinsEquivalent, SmallerEquivalence, TruerTotal
<1>5. {r \in T : First(r)} = {r \in T : \A x \in T : <<x, r>> \in Twin => Place(refs, r) <= Place(refs, x)}
  BY <1>2
<1>6. s = [i \in DOMAIN f |-> Row(f[i])]
  <2>1. f = Only(refs, {r \in T : First(r)})
    BY <1>5 DEF Firsts
  <2> QED
    BY <2>1 DEF CollapseSameSlugClusters
<1>7. ToSet(f) \subseteq T
  BY <1>4, FirstsLists
<1> HIDE DEF B
<1>8. ASSUME NEW i \in DOMAIN f PROVE BestLike(s[i], f[i], T, Twin, B)
  <2>1. f[i] \in T
    BY <1>7 DEF ToSet
  <2>2. PICK x \in T : BestLike(x, f[i], T, Twin, B)
    BY <1>1, <1>4, <2>1, BestLikeExists
  <2>3. <<x, f[i]>> \in Twin /\ \A y \in T \ {x} : <<y, x>> \in Twin => <<x, y>> \in B
    BY <1>4, <2>1, <2>2 DEF BestLike, Equivalence
  <2>4. SameModel(x, f[i]) /\ Foremost(refs, x, SameModel)
    BY <1>2, <1>3, <2>1, <2>3
  <2>5. Row(f[i]) \in T /\ SameModel(Row(f[i]), f[i]) /\ Foremost(refs, Row(f[i]), SameModel)
    <3> HIDE DEF T
    <3> QED
      BY <2>4
  <2>6. s[i] = Row(f[i])
    BY <1>6
  <2> HIDE DEF Row, s, f
  <2>7. s[i] \in T /\ <<s[i], f[i]>> \in Twin /\ \A y \in T \ {s[i]} : <<y, s[i]>> \in Twin => <<s[i], y>> \in B
    BY <1>2, <1>3, <2>1, <2>5, <2>6
  <2> HIDE DEF T
  <2>8. \A y \in T : <<y, f[i]>> \in Twin => <<y, s[i]>> \in Twin
    BY <1>4, <2>1, <2>7 DEF Equivalence
  <2> QED
    BY <2>7, <2>8 DEF BestLike
<1>9. s = [i \in DOMAIN f |-> s[i]]
  BY <1>6
<1> HIDE DEF s, f
<1>10. /\ s \in Seq(Refs) /\ IsInjective(s)
       /\ ToSet(s) = {r \in T : \A x \in T \ {r} : <<x, r>> \in Twin => <<r, x>> \in B}
  BY <1>4, <1>8, <1>9, PickedLists DEF f
<1> QED
  BY <1>10 DEF s, B

\* The sorts of a generation.
Gratis == {e \in Refs \X Refs : FreeFirst(e[1], e[2])}
LEMMA GratisSorts == StrictWeak(Gratis, Refs)
<1>1. \A a, b \in Refs : <<a, b>> \in Gratis <=> Model[a].free /\ ~Model[b].free
  BY DEF Gratis, FreeFirst
<1> QED
  BY <1>1 DEF StrictWeak

\* A score, then the price, and the other way round.
LEMMA ScoresSort ==
    ASSUME NEW score, \A r \in Refs : score[r] \in Nat
    PROVE  StrictWeak({e \in Refs \X Refs : score[e[1]] > score[e[2]]}, Refs)
<1> DEFINE W == {e \in Refs \X Refs : score[e[1]] > score[e[2]]}
<1>1. \A a, b \in Refs : <<a, b>> \in W <=> score[a] > score[b]
  OBVIOUS
<1> HIDE DEF W
<1>2. ASSUME NEW a \in Refs PROVE <<a, a>> \notin W
  <2>1. ~(score[a] > score[a])
    OBVIOUS
  <2> QED
    BY <1>1, <2>1
<1>3. \A a, b, c \in Refs : <<a, b>> \in W /\ <<b, c>> \in W => <<a, c>> \in W
  BY <1>1
<1>4. \A a, b, c \in Refs : <<a, c>> \in W => <<a, b>> \in W \/ <<b, c>> \in W
  BY <1>1
<1>5. StrictWeak(W, Refs)
  BY <1>2, <1>3, <1>4 DEF StrictWeak
<1> QED
  BY <1>5 DEF W

LEMMA GenerationSorts ==
    ASSUME NEW refs \in Seq(Refs), NEW n \in Names, NEW g, g = Group[n]
    PROVE  Reordered(SortModelsForGroup(refs, g), refs)
<1> DEFINE Score(r) == IF g.scoreBy # None /\ Model[r].column # None THEN Model[r].column ELSE Gdpval(r)
           Profiled(r) == g.scoreBy = None \/ Model[r].column # None
           Best(a, b) == (Profiled(a) /\ ~Profiled(b)) \/ (Profiled(a) = Profiled(b) /\ Score(a) > Score(b))
           Thrifty(a, b) == \/ FreeFirst(a, b)
                            \/ ~FreeFirst(b, a) /\ (Cheaper(a, b) \/ (SameCost(a, b) /\ Score(a) > Score(b)))
           Tiered(a, b) == \/ Gdpval(a) > Gdpval(b)
                           \/ Gdpval(a) = Gdpval(b) /\ FreeFirst(a, b)
                           \/ /\ Gdpval(a) = Gdpval(b) /\ ~FreeFirst(b, a)
                              /\ Score(a) > Score(b) \/ (Score(a) = Score(b) /\ Cheaper(a, b))
           score == [r \in Refs |-> Score(r)]
           High == {e \in Refs \X Refs : score[e[1]] > score[e[2]]}
           Known == {r \in Refs : Profiled(r)}
           ByScore == {e \in Refs \X Refs : Best(e[1], e[2])}
           CheapHigh == {e \in Refs \X Refs : Cheaper(e[1], e[2]) \/ (SameCost(e[1], e[2]) /\ score[e[1]] > score[e[2]])}
           ByCost == {e \in Refs \X Refs : Thrifty(e[1], e[2])}
           HighCheap == {e \in Refs \X Refs : \/ score[e[1]] > score[e[2]]
                                              \/ score[e[1]] = score[e[2]] /\ Cheaper(e[1], e[2])}
           FreeHigh == {e \in Refs \X Refs : \/ FreeFirst(e[1], e[2])
                                             \/ ~FreeFirst(e[2], e[1]) /\ <<e[1], e[2]>> \in HighCheap}
           ByTier == {e \in Refs \X Refs : Tiered(e[1], e[2])}
<1>1. \A r \in Refs : score[r] \in Nat /\ score[r] = Score(r)
  <2> SUFFICES ASSUME NEW r \in Refs PROVE Score(r) \in Nat
    OBVIOUS
  <2> QED
    BY KnownOf
<1>2. \A i \in DOMAIN refs : refs[i] \in Refs
  BY PlacesOf
<1>3. StrictWeak(High, Refs)
  BY <1>1, ScoresSort
<1>4. \A a, b \in Refs : <<a, b>> \in High <=> Score(a) > Score(b)
  BY <1>1
<1>5. StrictWeak(ByScore, Refs)
  <2>1. \A a, b \in Refs : <<a, b>> \in ByScore <=>
           (Profiled(a) /\ ~Profiled(b)) \/ ((Profiled(a) <=> Profiled(b)) /\ <<a, b>> \in High)
    BY <1>4
  <2>2. \A a \in Refs : a \in Known <=> Profiled(a)
    OBVIOUS
  <2> HIDE DEF ByScore, High, Known, Profiled
  <2>3. InGroups(ByScore, Refs, Known, High, High)
    BY <2>1, <2>2 DEF InGroups
  <2> QED
    BY <1>3, <2>3, GroupsSort
<1>6. StrictWeak(ByCost, Refs)
  <2>1. \A a, b \in Refs : <<a, b>> \in CheapHigh <=>
           \/ <<a, b>> \in Cheap
           \/ <<a, b>> \notin Cheap /\ <<b, a>> \notin Cheap /\ <<a, b>> \in High
    <3> SUFFICES ASSUME NEW a \in Refs, NEW b \in Refs
                 PROVE  <<a, b>> \in CheapHigh <=>
                           \/ <<a, b>> \in Cheap
                           \/ <<a, b>> \notin Cheap /\ <<b, a>> \notin Cheap /\ <<a, b>> \in High
      OBVIOUS
    <3>1. <<a, b>> \in CheapHigh <=> <<a, b>> \in Cheap \/ (SameCost(a, b) /\ <<a, b>> \in High)
      BY DEF Cheap
    <3> HIDE DEF CheapHigh, High
    <3> QED
      BY <3>1, CostsCompare
  <2>2. \A a, b \in Refs : <<a, b>> \in ByCost <=>
           \/ <<a, b>> \in Gratis
           \/ <<a, b>> \notin Gratis /\ <<b, a>> \notin Gratis /\ <<a, b>> \in CheapHigh
    BY <1>1 DEF Gratis
  <2> HIDE DEF CheapHigh, High, ByCost
  <2>3. StrictWeak(CheapHigh, Refs)
    BY <1>3, <2>1, CheapSorts, ThenSorts
  <2> QED
    BY <2>2, <2>3, GratisSorts, ThenSorts
<1>7. StrictWeak(ByTier, Refs)
  <2>1. \A a, b \in Refs : <<a, b>> \in HighCheap <=>
           \/ <<a, b>> \in High
           \/ <<a, b>> \notin High /\ <<b, a>> \notin High /\ <<a, b>> \in Cheap
    BY <1>1 DEF Cheap
  <2>2. \A a, b \in Refs : <<a, b>> \in FreeHigh <=>
           \/ <<a, b>> \in Gratis
           \/ <<a, b>> \notin Gratis /\ <<b, a>> \notin Gratis /\ <<a, b>> \in HighCheap
    <3> HIDE DEF HighCheap
    <3> QED
      BY DEF Gratis
  <2>3. \A a, b \in Refs : <<a, b>> \in ByTier <=>
           \/ <<a, b>> \in Stronger
           \/ <<a, b>> \notin Stronger /\ <<b, a>> \notin Stronger /\ <<a, b>> \in FreeHigh
    <3> SUFFICES ASSUME NEW a \in Refs, NEW b \in Refs
                 PROVE  <<a, b>> \in ByTier <=>
                           \/ <<a, b>> \in Stronger
                           \/ <<a, b>> \notin Stronger /\ <<b, a>> \notin Stronger /\ <<a, b>> \in FreeHigh
      OBVIOUS
    <3>1. Gdpval(a) \in Nat /\ Gdpval(b) \in Nat
      BY KnownOf
    <3>2. <<a, b>> \in FreeHigh <=>
             \/ FreeFirst(a, b)
             \/ ~FreeFirst(b, a) /\ (Score(a) > Score(b) \/ (Score(a) = Score(b) /\ Cheaper(a, b)))
      BY <1>1
    <3> HIDE DEF FreeHigh
    <3>3. <<a, b>> \in ByTier <=> \/ Gdpval(a) > Gdpval(b)
                                  \/ Gdpval(a) = Gdpval(b) /\ <<a, b>> \in FreeHigh
      BY <3>2
    <3>4. /\ <<a, b>> \in Stronger <=> Gdpval(a) > Gdpval(b)
          /\ <<b, a>> \in Stronger <=> Gdpval(b) > Gdpval(a)
      BY DEF Stronger
    <3> HIDE DEF ByTier
    <3> QED
      BY <3>1, <3>3, <3>4
  <2> HIDE DEF HighCheap, High, FreeHigh, ByTier
  <2>4. StrictWeak(HighCheap, Refs)
    BY <1>3, <2>1, CheapSorts, ThenSorts
  <2>5. StrictWeak(FreeHigh, Refs)
    BY <2>2, <2>4, GratisSorts, ThenSorts
  <2> QED
    BY <2>3, <2>5, WeakerSorts, ThenSorts
<1>8. CASE g.method \in {"best", "max_gdpval"}
  <2>1. ASSUME NEW i \in DOMAIN refs
        PROVE  {j \in DOMAIN refs : Best(refs[j], refs[i]) \/ (j < i /\ ~Best(refs[i], refs[j]))}
                 = {j \in DOMAIN refs : <<refs[j], refs[i]>> \in ByScore \/ (j < i /\ <<refs[i], refs[j]>> \notin ByScore)}
    <3> HIDE DEF Best
    <3> QED
      BY <1>2
  <2> HIDE DEF ByScore
  <2>2. SortModelsForGroup(refs, g) = SortedBy(refs, ByScore)
    BY <1>8, <2>1 DEF SortModelsForGroup, Sorted, SortedBy
  <2> HIDE DEF Best
  <2> QED
    BY <1>5, <2>2, SortReorders
<1>9. CASE g.method = "min_cost"
  <2>1. ASSUME NEW i \in DOMAIN refs
        PROVE  {j \in DOMAIN refs : Thrifty(refs[j], refs[i]) \/ (j < i /\ ~Thrifty(refs[i], refs[j]))}
                 = {j \in DOMAIN refs : <<refs[j], refs[i]>> \in ByCost \/ (j < i /\ <<refs[i], refs[j]>> \notin ByCost)}
    <3> HIDE DEF Thrifty
    <3> QED
      BY <1>2
  <2> HIDE DEF ByCost
  <2>2. SortModelsForGroup(refs, g) = SortedBy(refs, ByCost)
    BY <1>9, <2>1 DEF SortModelsForGroup, Sorted, SortedBy
  <2> HIDE DEF Thrifty
  <2> QED
    BY <1>6, <2>2, SortReorders
<1>10. CASE g.method = "tiered"
  <2>1. ASSUME NEW i \in DOMAIN refs
        PROVE  {j \in DOMAIN refs : Tiered(refs[j], refs[i]) \/ (j < i /\ ~Tiered(refs[i], refs[j]))}
                 = {j \in DOMAIN refs : <<refs[j], refs[i]>> \in ByTier \/ (j < i /\ <<refs[i], refs[j]>> \notin ByTier)}
    <3> HIDE DEF Tiered
    <3> QED
      BY <1>2
  <2> HIDE DEF ByTier
  <2>2. SortModelsForGroup(refs, g) = SortedBy(refs, ByTier)
    BY <1>10, <2>1 DEF SortModelsForGroup, Sorted, SortedBy
  <2> HIDE DEF Tiered
  <2> QED
    BY <1>7, <2>2, SortReorders
<1>11. CASE g.method \notin {"best", "max_gdpval", "min_cost", "tiered"}
  BY <1>11, Zenon DEF SortModelsForGroup, Reordered
<1> QED
  BY <1>8, <1>9, <1>10, <1>11

\* What a generation lists for a group is as Written says.
LEMMA ListsWritten ==
    ASSUME Offered, NEW n \in Names, NEW g, g = Group[n]
    PROVE  Written(g, ListOf(g))
<1> DEFINE W == WithMetadata
           pool == ToSet(W)
           reps == CollapseSameSlugClusters(W)
           TrueName(r) == \A x \in pool : SameModel(x, r) /\ Canonical(x) => Canonical(r)
           Fits(r) == Listed(r, g) /\ Admits(reps, r, g)
           kept == FilterModelsForGroup(reps, g)
           s == SortModelsForGroup(kept, g)
           T == ToSet(s)
           B == Truer(s)
           front == {r \in T : /\ \A c \in Curated(g) : ~SameIdentity(c, r)
                               /\ Foremost(s, r, SameIdentity)}
           list == ListOf(g)
           new == list \ Curated(g)
<1>1. W \in Seq(Refs) /\ IsInjective(W) /\ pool \subseteq Refs
  BY MetadataLists, EmptyLists
<1>2. /\ reps \in Seq(Refs) /\ IsInjective(reps) /\ ToSet(reps) \subseteq pool
      /\ \A r \in ToSet(reps) : \A x \in pool \ {r} : <<x, r>> \in Twin => <<r, x>> \in Truer(W)
  <2>1. /\ reps \in Seq(Refs) /\ IsInjective(reps)
        /\ ToSet(reps) = {r \in pool : \A x \in pool \ {r} : <<x, r>> \in Twin => <<r, x>> \in Truer(W)}
    BY <1>1, CollapsePicks
  <2> HIDE DEF reps, pool, W
  <2> QED
    BY <2>1
<1>3. ASSUME NEW r \in ToSet(reps) PROVE TrueName(r)
  <2> SUFFICES ASSUME NEW x \in pool, SameModel(x, r), Canonical(x) PROVE Canonical(r)
    OBVIOUS
  <2>1. r \in pool /\ <<x, r>> \in Twin
    BY <1>1, <1>2 DEF Twin
  <2>2. x = r \/ <<r, x>> \in Truer(W)
    BY <1>2, <2>1
  <2> QED
    BY <2>2 DEF Truer
<1> HIDE DEF TrueName, reps, pool, W
<1>4. /\ kept \in Seq(Refs) /\ IsInjective(kept)
      /\ \A r \in Refs : r \in ToSet(kept) <=> r \in ToSet(reps) /\ Fits(r)
  <2> DEFINE S == {r \in Refs : Listed(r, g) /\ Admits(reps, r, g)}
  <2>1. kept = Only(reps, S)
    BY DEF FilterModelsForGroup
  <2>2. \A r \in Refs : r \in S <=> Fits(r)
    OBVIOUS
  <2> HIDE DEF S, Fits, kept
  <2>3. kept \in Seq(Refs) /\ IsInjective(kept) /\ ToSet(kept) = ToSet(reps) \cap S
    BY <1>2, <2>1, OnlyLists
  <2> QED
    BY <2>2, <2>3
<1> HIDE DEF Fits, kept
<1>5. s \in Seq(Refs) /\ IsInjective(s) /\ T = ToSet(kept) /\ T \subseteq Refs
  <2>1. Reordered(s, kept)
    BY <1>4, GenerationSorts
  <2> HIDE DEF s
  <2> QED
    BY <1>4, <2>1, EmptyLists DEF Reordered
<1>6. list = Curated(g) \cup front
  <2>1. list = CollectGroupModels(g, s)
    BY DEF ListOf, kept, reps, W
  <2> QED
    BY <2>1 DEF CollectGroupModels
<1> HIDE DEF list
<1>7. \A r \in T : Foremost(s, r, SameIdentity) <=> \A x \in T \ {r} : <<x, r>> \in Alias => <<r, x>> \in B
  BY <1>5, ForemostAlias
<1> DEFINE Leads(r) == \A x \in T \ {r} : <<x, r>> \in Alias => <<r, x>> \in B
           Alone(r) == \A c \in Curated(g) : ~SameIdentity(c, r)
<1>8. front = {r \in T : Alone(r) /\ Leads(r)}
  BY <1>7
<1>9. StrictTotal(B, T) /\ IsFiniteSet(T) /\ Equivalence(Alias, T)
  BY <1>5, TruerTotal, FiniteEntries, AliasEquivalent, SmallerEquivalence
<1>10. \A a, b \in T : <<a, b>> \in Alias <=> SameIdentity(a, b)
  BY <1>5 DEF Alias
<1> HIDE DEF T, B, s, front
<1>11. ASSUME NEW r \in new PROVE r \in front /\ r \in T /\ Alone(r) /\ Leads(r)
  BY <1>6, <1>8, <1>11
<1>12. Curated(g) \subseteq list
  BY <1>6
<1>13. ASSUME NEW r \in new PROVE r \in pool /\ TrueName(r) /\ Fits(r)
  <2>1. r \in Refs /\ r \in ToSet(kept)
    BY <1>5, <1>11
  <2> HIDE DEF new
  <2>2. r \in ToSet(reps) /\ Fits(r)
    BY <1>4, <2>1
  <2> QED
    BY <1>2, <1>3, <2>2
<1>14. ASSUME NEW r \in new, NEW x \in list \ {r} PROVE ~SameIdentity(r, x)
  <2>1. r \in T /\ Alone(r) /\ Leads(r)
    BY <1>11
  <2>2. SameIdentity(r, x) => SameIdentity(x, r)
    BY DEF SameIdentity
  <2>3. CASE x \in Curated(g)
    BY <2>1, <2>2, <2>3
  <2>4. CASE x \notin Curated(g)
    <3>1. x \in T /\ Leads(x)
      BY <1>6, <1>8, <2>4
    <3>2. ASSUME SameIdentity(r, x) PROVE FALSE
      <4>1. <<r, x>> \in Alias /\ <<x, r>> \in Alias
        BY <1>10, <2>1, <2>2, <3>1, <3>2
      <4>2. <<r, x>> \in B /\ <<x, r>> \in B
        BY <1>14, <2>1, <3>1, <4>1
      <4> QED
        BY <1>9, <2>1, <3>1, <4>2 DEF StrictTotal
    <3> QED
      BY <3>2
  <2> QED
    BY <2>3, <2>4
<1>15. ASSUME NEW r \in ToSet(reps), Fits(r) PROVE \E x \in list : SameIdentity(x, r)
  <2>1. r \in T
    <3>1. r \in Refs
      BY <1>1, <1>2
    <3> QED
      BY <1>4, <1>5, <1>15, <3>1
  <2>2. CASE ~Alone(r)
    BY <1>12, <2>2
  <2>3. CASE Alone(r)
    <3>1. PICK x \in T : BestLike(x, r, T, Alias, B)
      BY <1>9, <2>1, BestLikeExists
    <3>2. <<x, r>> \in Alias /\ \A y \in T \ {x} : <<y, r>> \in Alias => <<x, y>> \in B
      BY <3>1 DEF BestLike
    <3>3. \A y \in T : <<y, x>> \in Alias => <<y, r>> \in Alias
      BY <1>9, <2>1, <3>2 DEF Equivalence
    <3>4. Leads(x)
      BY <3>2, <3>3
    <3>5. Alone(x)
      <4>1. SameIdentity(x, r)
        BY <1>10, <2>1, <3>2
      <4>2. \A c : SameIdentity(c, x) => SameIdentity(c, r)
        BY <4>1 DEF SameIdentity
      <4> QED
        BY <2>3, <4>2
    <3>6. x \in list
      BY <1>6, <1>8, <3>4, <3>5
    <3> QED
      BY <1>10, <2>1, <3>2, <3>6
  <2> QED
    BY <2>2, <2>3
<1> HIDE DEF new
<1> QED
  BY <1>12, <1>13, <1>14, <1>15 DEF Written, new, pool, TrueName, Fits, reps, W, list

\* The chain read off the order of quality: the rest of it, then the beginning
\* backwards.
LEMMA ChainsUpwards ==
    ASSUME NEW n \in Names, Group[n].method # "dynamic", Group[n].fallbacks = None,
           \A m \in Names : m \in Static <=> Group[m].method # "dynamic"
    PROVE  Upwards(n, ComputeFallbackGroups(n))
<1> DEFINE e == Eligible
           p == Place(e, n)
           a == SubSeq(e, p + 1, Len(e))
           b == SubSeq(e, 1, p - 1)
           v == Reverse(b)
           chain == a \o v
           Q(m) == Quality(Group[m])
<1>1. /\ e \in Seq(Names) /\ IsInjective(e)
      /\ \A m \in Names : m \in ToSet(e) <=> m \in Static
      /\ \A m \in Names : Q(m) \in Nat
      /\ \A i, j \in DOMAIN e : i < j => Q(e[i]) <= Q(e[j])
  BY EligibleLists
<1>2. Static \subseteq Names /\ n \in Static
  BY DEF Static
<1>3. /\ p \in DOMAIN e /\ e[p] = n /\ \A i \in DOMAIN e : e[i] = n => i = p
      /\ Len(e) \in Nat /\ DOMAIN e = 1 .. Len(e) /\ \A i \in DOMAIN e : e[i] \in Names
      /\ ToSet(e) = Static /\ \A i \in DOMAIN e : e[i] \in ToSet(e)
  <2>1. n \in ToSet(e)
    BY <1>1, <1>2
  <2>2. ToSet(e) = Static
    BY <1>1, <1>2, EmptyLists
  <2>3. \A i \in DOMAIN e : e[i] \in ToSet(e)
    BY DEF ToSet
  <2> QED
    BY <1>1, <2>1, <2>2, <2>3, PlaceIn, PlacesOf
<1>4. ComputeFallbackGroups(n) = chain
  BY DEF ComputeFallbackGroups
<1> HIDE DEF e, p
<1>5. /\ a \in Seq(Names) /\ DOMAIN a = 1 .. Len(e) - p
      /\ \A i \in DOMAIN a : p + i \in DOMAIN e /\ a[i] = e[p + i]
  <2>1. p + 1 \in Int /\ p \in 1 .. Len(e) /\ \A k \in p + 1 .. Len(e) : e[k] \in Names
    BY <1>3
  <2>2. a \in Seq(Names)
    BY <1>3, <2>1, SubSeqProperties
  <2>3. Len(a) = Len(e) - p /\ \A i \in 1 .. Len(e) - p : a[i] = e[p + i]
    <3>1. Len(a) = (Len(e) - (p + 1)) + 1 /\ \A i \in 1 .. (Len(e) - (p + 1)) + 1 : a[i] = e[((p + 1) + i) - 1]
      BY <1>1, <1>3, <2>1, SMTT(30)
    <3>2. (Len(e) - (p + 1)) + 1 = Len(e) - p
      BY <1>3, <2>1
    <3>3. \A i \in 1 .. Len(e) - p : ((p + 1) + i) - 1 = p + i
      BY <1>3, <2>1
    <3> HIDE DEF a
    <3> QED
      BY <3>1, <3>2, <3>3
  <2> HIDE DEF a
  <2> QED
    BY <1>3, <2>1, <2>2, <2>3, PlacesOf
<1>6. /\ b \in Seq(Names) /\ Len(b) = p - 1
      /\ \A i \in 1 .. p - 1 : b[i] = e[i]
  <2>1. p - 1 \in Int /\ p \in 1 .. Len(e) /\ \A k \in 1 .. p - 1 : e[k] \in Names
    BY <1>3
  <2>2. b \in Seq(Names)
    BY <1>3, <2>1, SubSeqProperties
  <2>3. Len(b) = p - 1 /\ \A i \in 1 .. p - 1 : b[i] = e[i]
    BY <1>1, <1>3, <2>1
  <2> QED
    BY <2>2, <2>3
<1> HIDE DEF a, b
<1>7. /\ v \in Seq(Names) /\ DOMAIN v = 1 .. p - 1
      /\ \A i \in DOMAIN v : p - i \in DOMAIN e /\ p - i < p /\ v[i] = e[p - i]
  <2>1. /\ v \in Seq(Names) /\ Len(v) = p - 1
        /\ \A i \in 1 .. p - 1 : v[i] = b[((p - 1) - i) + 1]
    <3>1. /\ v \in Seq(Names) /\ Len(v) = Len(b)
          /\ \A i \in 1 .. Len(b) : v[i] = b[(Len(b) - i) + 1]
      BY <1>6, ReverseLists
    <3> HIDE DEF v
    <3> QED
      BY <1>6, <3>1
  <2>2. DOMAIN v = 1 .. p - 1
    BY <2>1, PlacesOf
  <2>3. p \in 1 .. Len(e) /\ Len(e) \in Nat
    BY <1>3
  <2>4. \A i \in 1 .. p - 1 : ((p - 1) - i) + 1 = p - i /\ p - i \in 1 .. p - 1 /\ p - i \in 1 .. Len(e)
    BY <2>3
  <2> HIDE DEF v
  <2> QED
    BY <1>3, <1>6, <2>1, <2>2, <2>4
<1> HIDE DEF v
\* The two halves of the chain, and what their places say of the quality.
<1>8. /\ ToSet(a) = {e[i] : i \in {j \in DOMAIN e : j > p}}
      /\ ToSet(v) = {e[i] : i \in {j \in DOMAIN e : j < p}}
  <2>1. p \in 1 .. Len(e) /\ Len(e) \in Nat
    BY <1>3
  <2>2. \A i \in DOMAIN a : a[i] = e[p + i] /\ p + i \in DOMAIN e /\ p + i > p
    BY <1>5, <2>1
  <2>3. \A j \in DOMAIN e : j > p => j - p \in DOMAIN a /\ a[j - p] = e[j]
    <3> SUFFICES ASSUME NEW j \in DOMAIN e, j > p PROVE j - p \in DOMAIN a /\ a[j - p] = e[j]
      OBVIOUS
    <3>1. j - p \in 1 .. Len(e) - p /\ p + (j - p) = j
      BY <1>3, <2>1
    <3> QED
      BY <1>5, <3>1
  <2>4. \A j \in DOMAIN e : j < p => p - j \in DOMAIN v /\ v[p - j] = e[j]
    <3> SUFFICES ASSUME NEW j \in DOMAIN e, j < p PROVE p - j \in DOMAIN v /\ v[p - j] = e[j]
      OBVIOUS
    <3>1. p - j \in 1 .. p - 1 /\ p - (p - j) = j
      BY <1>3, <2>1
    <3> QED
      BY <1>7, <3>1
  <2>5. ToSet(a) = {a[i] : i \in DOMAIN a} /\ ToSet(v) = {v[i] : i \in DOMAIN v}
    BY DEF ToSet
  <2>6. ToSet(a) = {e[i] : i \in {j \in DOMAIN e : j > p}}
    BY <2>2, <2>3, <2>5
  <2>7. ToSet(v) = {e[i] : i \in {j \in DOMAIN e : j < p}}
    BY <1>7, <2>4, <2>5
  <2> QED
    BY <2>6, <2>7
<1>9. /\ \A i, j \in DOMAIN e : e[i] = e[j] => i = j
      /\ \A i \in DOMAIN e : i < p \/ i = p \/ i > p
      /\ \A i \in DOMAIN e : Q(e[i]) \in Nat
  BY <1>1, <1>3 DEF IsInjective
<1>10. ToSet(a) \cup ToSet(v) = Static \ {n} /\ ToSet(a) \cap ToSet(v) = {}
  <2>1. ToSet(e) = {e[i] : i \in DOMAIN e}
    BY DEF ToSet
  <2>2. \A i, j \in DOMAIN e : i < p /\ j > p => i # j
    BY <1>3
  <2>3. ~(p > p) /\ ~(p < p)
    BY <1>3
  <2>4. ToSet(a) \cap ToSet(v) = {}
    BY <1>8, <1>9, <2>2
  <2>5. \A m \in ToSet(a) \cup ToSet(v) : m \in Static \ {n}
    BY <1>3, <1>8, <2>1, <2>3
  <2>6. \A m \in Static \ {n} : m \in ToSet(a) \cup ToSet(v)
    BY <1>3, <1>8, <1>9, <2>1
  <2> QED
    BY <2>4, <2>5, <2>6
<1>11. IsInjective(a) /\ IsInjective(v)
  <2>1. ASSUME NEW i \in DOMAIN a, NEW j \in DOMAIN a, a[i] = a[j] PROVE i = j
    <3>1. p + i = p + j
      BY <1>5, <1>9, <2>1
    <3> QED
      BY <1>3, <1>5, <3>1
  <2>2. ASSUME NEW i \in DOMAIN v, NEW j \in DOMAIN v, v[i] = v[j] PROVE i = j
    <3>1. p - i = p - j
      BY <1>7, <1>9, <2>2
    <3> QED
      BY <1>3, <1>7, <3>1
  <2> QED
    BY <2>1, <2>2 DEF IsInjective
<1>12. \A i \in DOMAIN a : Q(a[i]) >= Q(n) /\ Q(a[i]) \in Nat
  <2> SUFFICES ASSUME NEW i \in DOMAIN a PROVE Q(a[i]) >= Q(n) /\ Q(a[i]) \in Nat
    OBVIOUS
  <2>1. p < p + i /\ p + i \in DOMAIN e /\ a[i] = e[p + i]
    BY <1>3, <1>5
  <2>2. Q(e[p]) <= Q(e[p + i])
    BY <1>1, <1>3, <2>1
  <2> HIDE DEF Q
  <2> QED
    BY <1>3, <1>9, <2>1, <2>2
<1>13. \A i \in DOMAIN v : Q(v[i]) <= Q(n) /\ Q(v[i]) \in Nat
  <2> SUFFICES ASSUME NEW i \in DOMAIN v PROVE Q(v[i]) <= Q(n) /\ Q(v[i]) \in Nat
    OBVIOUS
  <2>1. Q(e[p - i]) <= Q(e[p])
    BY <1>1, <1>3, <1>7
  <2> HIDE DEF Q
  <2> QED
    BY <1>3, <1>7, <1>9, <2>1
<1>14. \A i, j \in DOMAIN a : i < j => Q(a[i]) <= Q(a[j])
  <2> SUFFICES ASSUME NEW i \in DOMAIN a, NEW j \in DOMAIN a, i < j PROVE Q(a[i]) <= Q(a[j])
    OBVIOUS
  <2>1. p + i < p + j
    BY <1>3, <1>5
  <2> QED
    BY <1>1, <1>5, <2>1
<1>15. \A i, j \in DOMAIN v : i < j => Q(v[j]) <= Q(v[i])
  <2> SUFFICES ASSUME NEW i \in DOMAIN v, NEW j \in DOMAIN v, i < j PROVE Q(v[j]) <= Q(v[i])
    OBVIOUS
  <2>1. p - j < p - i
    BY <1>3, <1>7
  <2> QED
    BY <1>1, <1>7, <2>1
<1> HIDE DEF Q
<1>16. ToSet(chain) = Static \ {n} /\ IsInjective(chain)
  BY <1>5, <1>7, <1>10, <1>11, JoinedLists
<1>17. ASSUME NEW i \in DOMAIN chain, NEW j \in DOMAIN chain, i < j
       PROVE  \/ Q(chain[i]) >= Q(n) /\ Q(chain[j]) <= Q(n)
              \/ Q(chain[i]) >= Q(n) /\ Q(chain[j]) >= Q(chain[i])
              \/ Q(chain[i]) <= Q(n) /\ Q(chain[j]) <= Q(chain[i])
  <2> DEFINE k == Len(a)
  <2>1. /\ k \in Nat /\ DOMAIN a = 1 .. k /\ i \in Nat /\ j \in Nat /\ i >= 1 /\ j >= 1
    BY <1>5, <1>7, JoinedLists, PlacesOf
  <2>2. /\ i \in DOMAIN a \/ i - k \in DOMAIN v
        /\ j \in DOMAIN a \/ j - k \in DOMAIN v
    BY <1>5, <1>7, JoinedLists
  <2>3. /\ i \in DOMAIN a => chain[i] = a[i]
        /\ j \in DOMAIN a => chain[j] = a[j]
    <3>1. a \in Seq(Names) /\ v \in Seq(Names)
      BY <1>5, <1>7
    <3>2. \A x \in DOMAIN a : (a \o v)[x] = a[x]
      BY <3>1, JoinedLists
    <3> QED
      BY <3>2, Zenon DEF chain
  <2>4. /\ i - k \in DOMAIN v => chain[k + (i - k)] = v[i - k]
        /\ j - k \in DOMAIN v => chain[k + (j - k)] = v[j - k]
    BY <1>5, <1>7, JoinedLists
  <2>5. k + (i - k) = i /\ k + (j - k) = j /\ i - k < j - k
    BY <1>17, <2>1
  <2> HIDE DEF k, chain
  <2>6. CASE i \in DOMAIN a /\ j \in DOMAIN a
    BY <1>12, <1>14, <1>17, <2>3, <2>6
  <2>7. CASE i \in DOMAIN a /\ j \notin DOMAIN a
    BY <1>12, <1>13, <2>2, <2>3, <2>4, <2>5, <2>7
  <2>8. CASE i \notin DOMAIN a
    <3>1. j \notin DOMAIN a
      BY <1>17, <2>1, <2>8
    <3>2. i - k \in DOMAIN v /\ j - k \in DOMAIN v
      BY <2>2, <2>8, <3>1
    <3> QED
      BY <1>13, <1>15, <2>4, <2>5, <3>2
  <2> QED
    BY <2>6, <2>7, <2>8
<1> HIDE DEF chain
<1> QED
  BY <1>4, <1>16, <1>17 DEF Upwards, Q

\* What a generation hands over for a group.
LEMMA GenerationServes ==
    ASSUME RoutingShape, NEW n \in Static
    PROVE  /\ Written(Group[n], Generated[n].models)
           /\ IF Group[n].fallbacks = None THEN Upwards(n, Generated[n].fallbacks)
                                           ELSE Generated[n].fallbacks = Group[n].fallbacks
<1>1. Static \subseteq Names /\ n \in Names
  BY DEF Static
<1>2. \A m \in Names : group[m].method = Group[m].method
  <2> SUFFICES ASSUME NEW m \in Names PROVE group[m].method = Group[m].method
    OBVIOUS
  <2>1. Adjusted(group[m], Group[m])
    BY DEF RoutingShape
  <2> QED
    BY <2>1, AdjustedGroups
<1>3. \A m \in Names : m \in Static <=> Group[m].method # "dynamic"
  BY <1>2 DEF Static
<1>4. Group[n].method # "dynamic"
  BY <1>1, <1>3
<1>5. Offered
  BY ShapeSteady DEF Steady
<1>6. Generated[n].models = ListOf(Group[n]) /\ Generated[n].fallbacks = ComputeFallbackGroups(n)
  <2> DEFINE m == ListOf(Group[n])
             f == ComputeFallbackGroups(n)
  <2>1. Generated[n] = [Group[n] EXCEPT !.models = m, !.fallbacks = f]
    BY <1>1, <1>4 DEF Generated
  <2>2. Group[n] \in GroupConfig
    BY <1>1, RoutingAssumption DEF RoutingAssumption
  <2> HIDE DEF m, f
  <2>3. Generated[n].models = m /\ Generated[n].fallbacks = f
    BY <2>1, <2>2 DEF GroupConfig
  <2> QED
    BY <2>3 DEF m, f
<1>7. Written(Group[n], ListOf(Group[n]))
  BY <1>1, <1>5, ListsWritten
<1>8. CASE Group[n].fallbacks = None
  <2>1. Upwards(n, ComputeFallbackGroups(n))
    BY <1>1, <1>3, <1>4, <1>8, ChainsUpwards
  <2> QED
    BY <1>6, <1>7, <1>8, <2>1
<1>9. CASE Group[n].fallbacks # None
  <2>1. ComputeFallbackGroups(n) = Group[n].fallbacks
    BY <1>9 DEF ComputeFallbackGroups
  <2> QED
    BY <1>6, <1>7, <1>9, <2>1
<1> QED
  BY <1>8, <1>9

\* Every list a generation hands over keeps the curated models, has one ref of
\* every other model that passes the gates, none an alias of a dearer name, and
\* a chain that nobody gave leads to every group, upwards first
\* (generateDynamicConfigNow), for any catalogs, groups and registries.
THEOREM GenerationsServe == Spec => ListsServe
<1> DEFINE Serve == \A n \in Static : /\ Written(Group[n], group'[n].models)
                                      /\ IF Group[n].fallbacks = None THEN Upwards(n, group'[n].fallbacks)
                                                                      ELSE group'[n].fallbacks = Group[n].fallbacks
<1>1. Init => RoutingShape
  BY InitShape
<1>2. RoutingShape /\ [Next]_vars => RoutingShape'
  BY StepShape
<1>3. RoutingShape /\ [Next]_vars => [group' # group => Serve]_vars
  <2> SUFFICES ASSUME RoutingShape, Next, group' # group PROVE Serve
    OBVIOUS
  <2>1. Regenerate
    BY DEF Next, Route, Fails, Answers, Passes, Ends, Clears, Spends, RegistryChanges, tables
  <2>2. group' = Generated
    BY <2>1 DEF Regenerate
  <2> QED
    BY <2>2, GenerationServes
<1> QED
  BY <1>1, <1>2, <1>3, PTL DEF Spec, ListsServe
=============================================================================
