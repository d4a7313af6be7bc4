--------------------------- MODULE SessionsProofs ---------------------------
(***************************************************************************)
(* Proofs about Sessions, for any sessions, models and groups, any number  *)
(* of turns and streams and any capacity of the stores; and, in the last   *)
(* section, about Escalation, which the turn ends of a session drive, for  *)
(* any number of levels, any threshold and any cadence.                    *)
(***************************************************************************)
EXTENDS Sessions, Escalation, FiniteSetTheorems, SequenceTheorems, TLAPS

-----------------------------------------------------------------------------
TurnStates == [start : Nat, last : Ref \cup {None}, run : Group \cup {None},
               driver : Ref \cup {None}]
PinStates == [cur : Ref \cup {None}, curAt : Nat, driver : Ref \cup {None},
              driverAt : Nat, boundary : Nat]

\* What SessionStore guarantees of either store.
StoreOK(store, states, empty) ==
  /\ store \in [order : Seq(Session), of : [Session -> states]]
  /\ Bounded(store.order)
  /\ \A s \in Session \ Held(store) : store.of[s] = empty

HistoryOK ==
  /\ first \in [Session -> Ref \cup {None}] /\ since \in [Session -> Ref \cup {None}]
  /\ others \in [Session -> SUBSET Session] /\ crowded \subseteq Session
  /\ \A s \in Session : IsFiniteSet(others[s])

TypeOK ==
  /\ maxSessions \in Nat \ {0}
  /\ StoreOK(turn, TurnStates, EmptyTurn) /\ StoreOK(pin, PinStates, EmptyPin)
  /\ live \in Seq(Session) /\ Bounded(live)
  /\ phase \in [Session -> Phases] /\ clock \in [Session -> Nat]
  /\ fresh \in [Session -> BOOLEAN] /\ streams \subseteq Streams
  /\ HistoryOK /\ ran \in [Session -> Group \cup {None}] /\ disturbed \subseteq Session

\* Whatever is open was opened by a turn, and no time stamp is ahead of it.
Dated(s) ==
  /\ phase[s] \notin {"gone", "idle"} => clock[s] > 0
  /\ \A st \in streams : st.session = s => clock[s] > 0
  /\ turn.of[s].start <= clock[s] /\ pin.of[s].boundary <= clock[s]
  /\ pin.of[s].curAt <= clock[s] /\ pin.of[s].driverAt <= clock[s]

(* The pin of a turn that has recorded a model since its entry was last    *)
(* lost is of this turn; that of one that has not is empty or older.       *)
Pinned(s) ==
  LET p == pin.of[s] IN
  /\ since[s] # None =>
       p.driver = since[s] /\ p.driverAt = clock[s] /\ clock[s] > 0 /\ first[s] # None
  /\ since[s] = None =>
       \/ p.driverAt = 0 /\ p.driver = None /\ p.cur = None
       \/ p.driverAt < clock[s] /\ p.curAt < clock[s] /\ p.driverAt < p.boundary

\* The order holds s, and behind it nothing but members of set.
Behind(order, s, set) ==
  \E i \in 1 .. Len(order) :
    order[i] = s /\ \A j \in 1 .. Len(order) : j > i => order[j] \in set

\* s has been used: it is last, and behind another one as long as there is room.
Touched(old, new, s) ==
  /\ Behind(new, s, {})
  /\ \A q \in Session \ {s} : \A set :
       Behind(old, q, set) /\ IsFiniteSet(set) /\ Cardinality(set \cup {s}) < maxSessions
       => Behind(new, q, set \cup {s})

(* A session that was not crowded out has kept its entry: only those that  *)
(* used the store since it did are behind it.                              *)
Kept(s) ==
  s \notin crowded /\ first[s] # None => since[s] = first[s] /\ Behind(pin.order, s, others[s])

Own(s) ==
  {turn.of[s].last, turn.of[s].driver, pin.of[s].cur, pin.of[s].driver} \subseteq Models(s) \cup {None}

(* An undisturbed session has no stream but the one its turn waits for,    *)
(* and while its prompt is open its run is the one it was classified into. *)
Undisturbed(s) ==
  /\ \A st \in streams : st.session = s /\ ~st.sub => Awaited(st)
  /\ \A st, other \in streams :
        st.session = s /\ ~st.sub /\ other.session = s /\ ~other.sub => st = other
  /\ \/ phase[s] \in {"streaming", "acting", "delegating", "switching", "more"}
     \/ phase[s] = "started" /\ ~fresh[s]
     => turn.of[s].run = ran[s]

Sound(s) == Dated(s) /\ Pinned(s) /\ Kept(s) /\ Own(s) /\ (s \in disturbed \/ Undisturbed(s))

IInv == TypeOK /\ ContextAlive /\ \A s \in Session : Sound(s)

-----------------------------------------------------------------------------
(* The orders of the stores: no session twice.                             *)
Distinct(order) == \A i, j \in 1 .. Len(order) : i # j => order[i] # order[j]

LEMMA ToSetOfSeq ==
  ASSUME NEW order \in Seq(Session)
  PROVE  /\ ToSet(order) = {order[i] : i \in 1 .. Len(order)}
         /\ ToSet(order) \subseteq Session /\ Len(order) \in Nat
         /\ \A i \in 1 .. Len(order) : order[i] \in Session
BY LenProperties, ElementOfSeq DEF ToSet

LEMMA WithoutProperties ==
  ASSUME NEW order \in Seq(Session), NEW s, Distinct(order)
  PROVE  /\ Without(order, s) \in Seq(Session) /\ Distinct(Without(order, s))
         /\ Len(Without(order, s)) <= Len(order)
         /\ ToSet(Without(order, s)) = ToSet(order) \ {s}
         /\ \A q, set : q # s /\ Behind(order, q, set) => Behind(Without(order, s), q, set)
<1> DEFINE n == Len(order)
           w == Without(order, s)
<1>1. /\ n \in Nat /\ DOMAIN order = 1 .. n /\ ToSet(order) = {order[i] : i \in 1 .. n}
      /\ \A i \in 1 .. n : order[i] \in Session
  BY LenProperties, ToSetOfSeq
<1>2. CASE s \notin ToSet(order)
  <2>1. w = order
    BY <1>2 DEF Without
  <2> HIDE DEF w
  <2> QED
    BY <1>1, <1>2, <2>1 DEF w
<1>3. CASE s \in ToSet(order)
  <2> DEFINE k == CHOOSE i \in DOMAIN order : order[i] = s
             a == SubSeq(order, 1, k - 1)
             b == SubSeq(order, k + 1, n)
  <2>1. k \in 1 .. n /\ order[k] = s
    BY <1>1, <1>3
  <2>2. w = a \o b
    BY <1>3 DEF Without, RemoveAt
  <2> HIDE DEF k, n, w
  <2>3. /\ a \in Seq(Session) /\ Len(a) = k - 1
        /\ \A i \in 1 .. k - 1 : a[i] = order[i]
    <3>1. 1 \in Int /\ k - 1 \in Int /\ \A i \in 1 .. k - 1 : i \in 1 .. n
      BY <1>1, <2>1
    <3>2. /\ a \in Seq(Session) /\ Len(a) = IF 1 <= k - 1 THEN k - 1 - 1 + 1 ELSE 0
          /\ \A i \in 1 .. k - 1 - 1 + 1 : a[i] = order[1 + i - 1]
      BY <1>1, <3>1, SubSeqProperties
    <3>3. k - 1 - 1 + 1 = k - 1 /\ (~(1 <= k - 1) => k - 1 = 0)
      BY <1>1, <2>1
    <3>4. \A i \in 1 .. k - 1 : 1 + i - 1 = i
      BY <3>1
    <3> HIDE DEF a
    <3> QED
      BY <3>2, <3>3, <3>4
  <2>4. /\ b \in Seq(Session) /\ Len(b) = n - k
        /\ \A i \in 1 .. n - k : b[i] = order[k + i]
    <3>1. k + 1 \in Int /\ n \in Int /\ \A i \in k + 1 .. n : i \in 1 .. n
      BY <1>1, <2>1
    <3>2. /\ b \in Seq(Session) /\ Len(b) = IF k + 1 <= n THEN n - (k + 1) + 1 ELSE 0
          /\ \A i \in 1 .. n - (k + 1) + 1 : b[i] = order[k + 1 + i - 1]
      BY <1>1, <3>1, SubSeqProperties
    <3>3. n - (k + 1) + 1 = n - k /\ (~(k + 1 <= n) => n - k = 0)
      BY <1>1, <2>1
    <3>4. \A i \in 1 .. n - k : k + 1 + i - 1 = k + i
      BY <3>1, <2>1
    <3> HIDE DEF b
    <3> QED
      BY <3>2, <3>3, <3>4
  <2> HIDE DEF a, b
  <2>5. /\ w \in Seq(Session) /\ Len(w) = n - 1
        /\ \A i \in 1 .. n - 1 : w[i] = IF i < k THEN order[i] ELSE order[i + 1]
    <3>1. /\ w \in Seq(Session) /\ Len(w) = (k - 1) + (n - k)
          /\ \A i \in 1 .. (k - 1) + (n - k) : w[i] = IF i <= k - 1 THEN a[i] ELSE b[i - (k - 1)]
      BY <2>2, <2>3, <2>4, ConcatProperties
    <3>2. (k - 1) + (n - k) = n - 1
      BY <1>1, <2>1
    <3>3. ASSUME NEW i \in 1 .. n - 1 PROVE w[i] = IF i < k THEN order[i] ELSE order[i + 1]
      <4>1. CASE i < k
        <5>1. i \in 1 .. k - 1 /\ i <= k - 1
          BY <1>1, <2>1, <4>1
        <5> QED
          BY <2>3, <3>1, <3>2, <4>1, <5>1
      <4>2. CASE ~(i < k)
        <5>1. /\ i - (k - 1) \in 1 .. n - k /\ ~(i <= k - 1) /\ k + (i - (k - 1)) = i + 1
          BY <1>1, <2>1, <4>2
        <5> QED
          BY <2>4, <3>1, <3>2, <4>2, <5>1
      <4> QED
        BY <4>1, <4>2
    <3> QED
      BY <3>1, <3>2, <3>3
  <2>6. ASSUME NEW i \in 1 .. n - 1
        PROVE  \E x \in 1 .. n : x # k /\ w[i] = order[x] /\ x = IF i < k THEN i ELSE i + 1
    <3>1. CASE i < k
      BY <1>1, <2>1, <2>5, <3>1
    <3>2. CASE ~(i < k)
      <4>1. i + 1 \in 1 .. n /\ i + 1 # k
        BY <1>1, <2>1, <3>2
      <4> QED
        BY <2>5, <3>2, <4>1
    <3> QED
      BY <3>1, <3>2
  <2>7. ASSUME NEW i \in 1 .. n - 1, NEW j \in 1 .. n - 1, i # j PROVE w[i] # w[j]
    <3>1. PICK x \in 1 .. n : w[i] = order[x] /\ x = IF i < k THEN i ELSE i + 1
      BY <2>6
    <3>2. PICK y \in 1 .. n : w[j] = order[y] /\ y = IF j < k THEN j ELSE j + 1
      BY <2>6
    <3>3. x # y
      BY <1>1, <2>1, <2>7, <3>1, <3>2
    <3> QED
      BY <3>1, <3>2, <3>3 DEF Distinct, n
  <2>8. ASSUME NEW i \in 1 .. n - 1 PROVE w[i] \in ToSet(order) \ {s}
    <3>1. PICK x \in 1 .. n : x # k /\ w[i] = order[x]
      BY <2>6
    <3>2. order[x] # order[k]
      BY <2>1, <3>1 DEF Distinct, n
    <3> QED
      BY <1>1, <2>1, <3>1, <3>2
  <2>9. ASSUME NEW x \in 1 .. n, x # k PROVE \E i \in 1 .. n - 1 : w[i] = order[x]
    <3>1. CASE x < k
      <4>1. x \in 1 .. n - 1
        BY <1>1, <2>1, <3>1
      <4> QED
        BY <2>5, <3>1, <4>1
    <3>2. CASE ~(x < k)
      <4>1. x - 1 \in 1 .. n - 1 /\ ~(x - 1 < k) /\ x - 1 + 1 = x
        BY <1>1, <2>1, <2>9, <3>2
      <4> QED
        BY <2>5, <4>1
    <3> QED
      BY <3>1, <3>2
  <2>10. ToSet(w) = {w[i] : i \in 1 .. n - 1}
    BY <2>5, ToSetOfSeq
  <2>11. ToSet(w) = ToSet(order) \ {s}
    <3>1. ToSet(w) \subseteq ToSet(order) \ {s}
      BY <2>8, <2>10
    <3>2. ASSUME NEW v \in ToSet(order) \ {s} PROVE v \in ToSet(w)
      <4>1. PICK x \in 1 .. n : v = order[x]
        BY <1>1
      <4> QED
        BY <2>1, <2>9, <2>10, <4>1
    <3> QED
      BY <3>1, <3>2
  <2>12. n - 1 <= n
    BY <1>1
  <2>13. ASSUME NEW q, NEW set, q # s, Behind(order, q, set) PROVE Behind(w, q, set)
    <3>1. PICK x \in 1 .. n : order[x] = q /\ \A y \in 1 .. n : y > x => order[y] \in set
      BY <2>13 DEF Behind, n
    <3>2. x # k
      BY <2>1, <2>13, <3>1
    <3>3. PICK i \in 1 .. n - 1 : w[i] = q /\ i = IF x < k THEN x ELSE x - 1
      <4>1. CASE x < k
        <5>1. x \in 1 .. n - 1
          BY <1>1, <2>1, <4>1
        <5> QED
          BY <2>5, <3>1, <4>1, <5>1
      <4>2. CASE ~(x < k)
        <5>1. x - 1 \in 1 .. n - 1 /\ ~(x - 1 < k) /\ x - 1 + 1 = x
          BY <1>1, <2>1, <3>2, <4>2
        <5> QED
          BY <2>5, <3>1, <4>2, <5>1
      <4> QED
        BY <4>1, <4>2
    <3>4. ASSUME NEW j \in 1 .. n - 1, j > i PROVE w[j] \in set
      <4>1. PICK y \in 1 .. n : w[j] = order[y] /\ y = IF j < k THEN j ELSE j + 1
        BY <2>6
      <4>2. y > x
        BY <1>1, <2>1, <3>2, <3>3, <3>4, <4>1
      <4> QED
        BY <3>1, <4>1, <4>2
    <3> QED
      BY <2>5, <3>3, <3>4 DEF Behind
  <2> QED
    BY <2>5, <2>7, <2>11, <2>12, <2>13 DEF Distinct, w, n
<1> QED
  BY <1>2, <1>3

(* A session that is touched becomes the last of the order, and pushes the *)
(* first one out when there are too many.                                  *)
LEMMA TouchProperties ==
  ASSUME maxSessions \in Nat \ {0}, NEW order \in Seq(Session), Bounded(order),
         NEW s \in Session
  PROVE  LET o == Append(Without(order, s), s) IN
         /\ o \in Seq(Session) /\ o # <<>> /\ ToSet(o) = ToSet(order) \cup {s}
         /\ s \in ToSet(o) /\ Len(o) \in Nat
         /\ Len(o) <= maxSessions => Bounded(o)
         /\ Len(o) > maxSessions =>
              /\ Tail(o) \in Seq(Session) /\ Bounded(Tail(o)) /\ Tail(o) # <<>>
              /\ Head(o) \in ToSet(order) \ {s}
              /\ ToSet(Tail(o)) = ToSet(o) \ {Head(o)}
<1> DEFINE w == Without(order, s)
           o == Append(w, s)
           m == Len(w)
<1>1. /\ w \in Seq(Session) /\ Distinct(w) /\ m <= maxSessions /\ m \in Nat
      /\ ToSet(w) = ToSet(order) \ {s} /\ ToSet(w) = {w[i] : i \in 1 .. m}
  <2>1. Distinct(order) /\ Len(order) <= maxSessions
    BY DEF Bounded, Distinct
  <2>2. /\ w \in Seq(Session) /\ Distinct(w) /\ m <= Len(order)
        /\ ToSet(w) = ToSet(order) \ {s}
    BY <2>1, WithoutProperties
  <2>3. m \in Nat /\ Len(order) \in Nat /\ ToSet(w) = {w[i] : i \in 1 .. m}
    BY <2>2, ToSetOfSeq
  <2> HIDE DEF m
  <2>4. m <= maxSessions
    BY <2>1, <2>2, <2>3
  <2> QED
    BY <2>2, <2>3, <2>4
<1> HIDE DEF w
<1>2. /\ o \in Seq(Session) /\ o # <<>> /\ Len(o) = m + 1 /\ o[m + 1] = s
      /\ \A i \in 1 .. m : o[i] = w[i]
  BY <1>1, AppendProperties
<1> HIDE DEF o
<1>3. ToSet(o) = {o[i] : i \in 1 .. m + 1}
  BY <1>2, ToSetOfSeq
<1>4. 1 .. m + 1 = (1 .. m) \cup {m + 1}
  BY <1>1
<1>5. ToSet(o) = ToSet(w) \cup {s}
  <2>1. ToSet(o) \subseteq ToSet(w) \cup {s}
    <3> SUFFICES ASSUME NEW i \in 1 .. m + 1 PROVE o[i] \in ToSet(w) \cup {s}
      BY <1>3
    <3> QED
      BY <1>1, <1>2, <1>4
  <2>2. s \in ToSet(o)
    BY <1>2, <1>3, <1>4
  <2>3. ASSUME NEW i \in 1 .. m PROVE w[i] \in ToSet(o)
    BY <1>2, <1>3, <1>4
  <2> QED
    BY <1>1, <2>1, <2>2, <2>3
<1>6. ASSUME NEW i \in 1 .. m + 1, NEW j \in 1 .. m + 1, i # j PROVE o[i] # o[j]
  <2>1. \A x \in 1 .. m : w[x] # s
    BY <1>1
  <2>2. CASE i \in 1 .. m /\ j \in 1 .. m
    BY <1>1, <1>2, <1>6, <2>2 DEF Distinct, m
  <2>3. CASE i = m + 1 \/ j = m + 1
    BY <1>2, <1>4, <1>6, <2>1, <2>3
  <2> QED
    BY <1>4, <2>2, <2>3
<1>7. Len(o) <= maxSessions => Bounded(o)
  BY <1>2, <1>6 DEF Bounded
<1>8. ASSUME Len(o) > maxSessions
      PROVE  /\ Tail(o) \in Seq(Session) /\ Bounded(Tail(o)) /\ Tail(o) # <<>>
             /\ Head(o) \in ToSet(order) \ {s}
             /\ ToSet(Tail(o)) = ToSet(o) \ {Head(o)}
  <2> DEFINE t == Tail(o)
  <2>1. m = maxSessions /\ m > 0
    BY <1>1, <1>2, <1>8
  <2>2. t \in Seq(Session) /\ Len(t) = m /\ \A i \in 1 .. m : t[i] = o[i + 1]
    <3>1. Len(t) = m + 1 - 1 /\ t \in Seq(Session) /\ \A i \in 1 .. Len(t) : t[i] = o[i + 1]
      BY <1>2, HeadTailProperties
    <3>2. m + 1 - 1 = m
      BY <1>1
    <3> QED
      BY <3>1, <3>2
  <2>3. Head(o) = o[1]
    BY <1>2
  <2> HIDE DEF t
  <2>4. \A i \in 1 .. m : i + 1 \in 1 .. m + 1 /\ i + 1 # 1
    BY <1>1
  <2>5. 1 \in 1 .. m + 1 /\ 1 \in 1 .. m
    BY <1>1, <2>1
  <2>6. ASSUME NEW i \in 1 .. m, NEW j \in 1 .. m, i # j PROVE t[i] # t[j]
    <3>1. i + 1 # j + 1
      BY <2>6
    <3> QED
      BY <1>6, <2>2, <2>4, <3>1
  <2>7. Bounded(t)
    BY <1>1, <2>2, <2>6 DEF Bounded
  <2>8. o[1] \in ToSet(order) \ {s}
    <3>1. o[1] = w[1]
      BY <1>2, <2>5
    <3> QED
      BY <1>1, <2>5, <3>1
  <2>9. ToSet(t) = {t[i] : i \in 1 .. m}
    BY <2>2, ToSetOfSeq
  <2>10. ToSet(t) = ToSet(o) \ {o[1]}
    <3>1. ASSUME NEW i \in 1 .. m PROVE t[i] \in ToSet(o) \ {o[1]}
      BY <1>3, <1>6, <2>2, <2>4, <2>5
    <3>2. ASSUME NEW x \in 1 .. m + 1, o[x] # o[1] PROVE o[x] \in ToSet(t)
      <4>1. x - 1 \in 1 .. m /\ x - 1 + 1 = x
        BY <1>1, <3>2
      <4> QED
        BY <2>2, <2>9, <4>1
    <3> QED
      BY <1>3, <2>9, <3>1, <3>2
  <2>11. t # <<>>
    BY <1>1, <2>1, <2>2, EmptySeq
  <2> QED
    BY <2>2, <2>3, <2>7, <2>8, <2>10, <2>11 DEF t
<1> QED
  BY <1>1, <1>2, <1>5, <1>7, <1>8 DEF o, w

(* Behind the touched session there is nobody.  Behind another one there   *)
(* is also the touched one now; and if it was pushed out, the store is     *)
(* full of those that were behind it.                                      *)
LEMMA TouchBehind ==
  ASSUME maxSessions \in Nat \ {0}, NEW order \in Seq(Session), Bounded(order),
         NEW s \in Session
  PROVE  LET o == Append(Without(order, s), s)
             new == IF Len(o) <= maxSessions THEN o ELSE Tail(o)
         IN  Touched(order, new, s)
<1> DEFINE w == Without(order, s)
           o == Append(w, s)
           m == Len(w)
           new == IF Len(o) <= maxSessions THEN o ELSE Tail(o)
<1>1. /\ w \in Seq(Session) /\ m \in Nat
      /\ \A q \in Session \ {s} : \A set : Behind(order, q, set) => Behind(w, q, set)
  <2>1. Distinct(order)
    BY DEF Bounded, Distinct
  <2> QED
    BY <2>1, WithoutProperties, ToSetOfSeq
<1>2. /\ o \in Seq(Session) /\ o # <<>>
      /\ Len(o) > maxSessions => Tail(o) \in Seq(Session) /\ Bounded(Tail(o))
  BY TouchProperties
<1> HIDE DEF w
<1>3. /\ Len(o) = m + 1 /\ o[m + 1] = s /\ \A i \in 1 .. m : o[i] = w[i]
  BY <1>1, AppendProperties
<1>4. ASSUME NEW q, NEW set, Behind(w, q, set)
      PROVE  \E x \in 1 .. m : w[x] = q /\ \A y \in 1 .. m : y > x => w[y] \in set
  BY <1>4 DEF Behind, m
<1> HIDE DEF o
<1>5. CASE Len(o) <= maxSessions
  <2>1. new = o
    BY <1>5
  <2>2. Behind(o, s, {})
    <3>1. m + 1 \in 1 .. Len(o) /\ \A j \in 1 .. Len(o) : ~(j > m + 1)
      BY <1>1, <1>3
    <3> QED
      BY <1>3, <3>1 DEF Behind
  <2>3. ASSUME NEW q, NEW set, Behind(w, q, set) PROVE Behind(o, q, set \cup {s})
    <3>1. PICK x \in 1 .. m : w[x] = q /\ \A y \in 1 .. m : y > x => w[y] \in set
      BY <1>4, <2>3
    <3>2. x \in 1 .. Len(o) /\ o[x] = q
      BY <1>1, <1>3, <3>1
    <3>3. ASSUME NEW j \in 1 .. Len(o), j > x PROVE o[j] \in set \cup {s}
      BY <1>1, <1>3, <3>1, <3>3
    <3> QED
      BY <3>2, <3>3 DEF Behind
  <2> QED
    BY <1>1, <2>1, <2>2, <2>3 DEF o, w, Touched
<1>6. CASE ~(Len(o) <= maxSessions)
  <2> DEFINE t == Tail(o)
  <2>1. new = t /\ Len(o) > maxSessions /\ m \in Nat /\ m >= maxSessions /\ m > 0
    BY <1>1, <1>3, <1>6
  <2>2. t \in Seq(Session) /\ Bounded(t) /\ Len(t) = m /\ \A i \in 1 .. m : t[i] = o[i + 1]
    <3>1. Len(t) = m + 1 - 1 /\ \A i \in 1 .. Len(t) : t[i] = o[i + 1]
      BY <1>2, <1>3, HeadTailProperties
    <3>2. m + 1 - 1 = m
      BY <1>1
    <3> QED
      BY <1>2, <2>1, <3>1, <3>2
  <2> HIDE DEF t
  <2>3. Behind(t, s, {})
    <3>1. m \in 1 .. Len(t) /\ t[m] = s /\ \A j \in 1 .. Len(t) : ~(j > m)
      BY <1>1, <1>3, <2>1, <2>2
    <3> QED
      BY <3>1 DEF Behind
  <2>4. ASSUME NEW q, NEW set, Behind(w, q, set), IsFiniteSet(set),
               Cardinality(set \cup {s}) < maxSessions
        PROVE  Behind(t, q, set \cup {s})
    <3>1. PICK x \in 1 .. m : w[x] = q /\ \A y \in 1 .. m : y > x => w[y] \in set
      BY <1>4, <2>4
    <3>2. ASSUME NEW j \in 1 .. m, j + 1 > x PROVE t[j] \in set \cup {s}
      <4>1. t[j] = o[j + 1]
        BY <2>2
      <4>2. CASE j + 1 \in 1 .. m
        BY <1>3, <3>1, <3>2, <4>1, <4>2
      <4>3. CASE j + 1 = m + 1
        BY <1>3, <4>1, <4>3
      <4> QED
        BY <1>1, <4>2, <4>3
    <3>3. CASE x = 1
      <4>1. \A j \in 1 .. m : t[j] \in set \cup {s}
        BY <1>1, <3>2, <3>3
      <4>2. t \in [1 .. m -> set \cup {s}]
        <5>1. t \in [1 .. m -> Session]
          BY <2>2, LenProperties
        <5> QED
          BY <4>1, <5>1
      <4>3. t \in Injection(1 .. m, set \cup {s})
        <5>1. \A i, j \in 1 .. m : i # j => t[i] # t[j]
          BY <2>2 DEF Bounded
        <5> QED
          BY <4>2, <5>1 DEF Injection, IsInjective
      <4>4. IsFiniteSet(set \cup {s}) /\ Cardinality(1 .. m) = m
        <5>1. IsFiniteSet(set \cup {s})
          BY <2>4, FS_AddElement
        <5>2. Cardinality(1 .. m) = IF 1 > m THEN 0 ELSE m - 1 + 1
          BY <2>1, FS_Interval
        <5>3. ~(1 > m) /\ m - 1 + 1 = m
          BY <2>1
        <5> QED
          BY <5>1, <5>2, <5>3
      <4>5. m <= Cardinality(set \cup {s}) /\ Cardinality(set \cup {s}) \in Nat
        BY <4>3, <4>4, FS_Injection, FS_CardinalityType
      <4> QED
        BY <2>1, <2>4, <4>5
    <3>4. CASE x # 1
      <4>1. x - 1 \in 1 .. m /\ t[x - 1] = q
        <5>1. x - 1 \in 1 .. m /\ x - 1 + 1 = x
          BY <1>1, <3>1, <3>4
        <5> QED
          BY <1>3, <2>2, <3>1, <5>1
      <4>2. ASSUME NEW j \in 1 .. m, j > x - 1 PROVE t[j] \in set \cup {s}
        BY <1>1, <3>1, <3>2, <4>2
      <4> QED
        BY <2>2, <4>1, <4>2 DEF Behind
    <3> QED
      BY <3>3, <3>4
  <2> QED
    BY <1>1, <2>1, <2>3, <2>4 DEF o, w, Touched
<1> QED
  BY <1>5, <1>6

-----------------------------------------------------------------------------
(* The operations of a store.                                              *)
LEMMA LookupStore ==
  ASSUME maxSessions \in Nat \ {0}, NEW states, NEW empty \in states,
         NEW store, StoreOK(store, states, empty), NEW s \in Session
  PROVE  LET new == Lookup(store, s, empty) IN
         /\ StoreOK(new, states, empty)
         /\ s \in Held(new) /\ s \notin Lost(store, new) /\ Touched(store.order, new.order, s)
         /\ \A q \in Session : new.of[q] = IF q \in Lost(store, new) THEN empty ELSE store.of[q]
<1> DEFINE o == Append(Without(store.order, s), s)
           new == Lookup(store, s, empty)
<1>1. /\ store \in [order : Seq(Session), of : [Session -> states]]
      /\ Bounded(store.order) /\ \A q \in Session \ ToSet(store.order) : store.of[q] = empty
  BY DEF StoreOK, Held
<1>2. /\ o \in Seq(Session) /\ o # <<>> /\ ToSet(o) = ToSet(store.order) \cup {s}
      /\ s \in ToSet(o) /\ Len(o) \in Nat
      /\ Len(o) <= maxSessions => Bounded(o)
      /\ Len(o) > maxSessions =>
           /\ Tail(o) \in Seq(Session) /\ Bounded(Tail(o))
           /\ Head(o) \in ToSet(store.order) \ {s}
           /\ ToSet(Tail(o)) = ToSet(o) \ {Head(o)}
  BY <1>1, TouchProperties
<1>3. new = IF Len(o) <= maxSessions THEN [store EXCEPT !.order = o]
            ELSE [order |-> Tail(o), of |-> [store.of EXCEPT ![Head(o)] = empty]]
  BY DEF Lookup
<1>4. ToSet(store.order) \subseteq Session
  BY <1>1, ToSetOfSeq
<1>0. Touched(store.order, new.order, s)
  <2>1. new.order = IF Len(o) <= maxSessions THEN o ELSE Tail(o)
    BY <1>1, <1>3
  <2> HIDE DEF new
  <2> QED
    BY <1>1, <2>1, TouchBehind
<1> HIDE DEF o, new
<1>5. CASE Len(o) <= maxSessions
  <2>1. /\ new \in [order : Seq(Session), of : [Session -> states]]
        /\ new.order = o /\ new.of = store.of
    BY <1>1, <1>2, <1>3, <1>5
  <2>2. Lost(store, new) = {} /\ s \in Held(new)
    BY <1>2, <2>1 DEF Lost, Held
  <2> QED
    BY <1>0, <1>1, <1>2, <1>5, <2>1, <2>2 DEF StoreOK, Held, new
<1>6. CASE ~(Len(o) <= maxSessions)
  <2>1. Len(o) > maxSessions
    BY <1>2, <1>6
  <2>2. /\ new.order = Tail(o) /\ new.of = [store.of EXCEPT ![Head(o)] = empty]
        /\ new = [order |-> new.order, of |-> new.of]
    BY <1>3, <1>6
  <2>3. new \in [order : Seq(Session), of : [Session -> states]]
    <3>1. new.order \in Seq(Session)
      BY <1>2, <2>1, <2>2
    <3>2. new.of \in [Session -> states]
      BY <1>1, <2>2
    <3> QED
      BY <2>2, <3>1, <3>2
  <2>4. Held(new) = (ToSet(store.order) \cup {s}) \ {Head(o)} /\ Head(o) \in ToSet(store.order) \ {s}
    BY <1>2, <2>1, <2>2 DEF Held
  <2>5. Lost(store, new) = {Head(o)} /\ s \in Held(new) /\ s # Head(o)
    BY <2>4 DEF Lost, Held
  <2>6. \A q \in Session : new.of[q] = IF q = Head(o) THEN empty ELSE store.of[q]
    BY <1>1, <2>2
  <2>7. \A q \in Session \ Held(new) : new.of[q] = empty
    BY <1>1, <2>4, <2>6
  <2> QED
    BY <1>0, <1>2, <2>1, <2>2, <2>3, <2>5, <2>6, <2>7 DEF StoreOK, new
<1> QED
  BY <1>5, <1>6

LEMMA WriteStore ==
  ASSUME maxSessions \in Nat \ {0}, NEW states, NEW empty \in states,
         NEW store, StoreOK(store, states, empty), NEW s \in Session, NEW value \in states
  PROVE  LET new == Write(store, s, empty, value) IN
         /\ StoreOK(new, states, empty)
         /\ s \notin Lost(store, new) /\ Touched(store.order, new.order, s)
         /\ \A q \in Session : new.of[q] = IF q = s THEN value
                                           ELSE IF q \in Lost(store, new) THEN empty
                                           ELSE store.of[q]
<1> DEFINE look == Lookup(store, s, empty)
           new == Write(store, s, empty, value)
<1>1. /\ StoreOK(look, states, empty)
      /\ s \in Held(look) /\ s \notin Lost(store, look) /\ Touched(store.order, look.order, s)
      /\ \A q \in Session : look.of[q] = IF q \in Lost(store, look) THEN empty ELSE store.of[q]
  BY LookupStore
<1>2. new = [look EXCEPT !.of[s] = value]
  BY DEF Write
<1> HIDE DEF look, new
<1>3. /\ new \in [order : Seq(Session), of : [Session -> states]]
      /\ new.order = look.order /\ new.of = [look.of EXCEPT ![s] = value]
  BY <1>1, <1>2 DEF StoreOK
<1>4. Held(new) = Held(look) /\ Lost(store, new) = Lost(store, look)
  BY <1>3 DEF Held, Lost
<1>5. \A q \in Session : new.of[q] = IF q = s THEN value ELSE look.of[q]
  BY <1>1, <1>3 DEF StoreOK
<1>6. StoreOK(new, states, empty)
  BY <1>1, <1>3, <1>4, <1>5 DEF StoreOK
<1> QED
  BY <1>1, <1>3, <1>4, <1>5, <1>6 DEF new

LEMMA ForgetStore ==
  ASSUME maxSessions \in Nat \ {0}, NEW states, NEW empty \in states,
         NEW store, StoreOK(store, states, empty), NEW s \in Session
  PROVE  LET new == Forget(store, s, empty) IN
         /\ StoreOK(new, states, empty)
         /\ \A q \in Session : new.of[q] = IF q = s THEN empty ELSE store.of[q]
         /\ \A q \in Session \ {s} : \A set : Behind(store.order, q, set) => Behind(new.order, q, set)
<1> DEFINE w == Without(store.order, s)
           new == Forget(store, s, empty)
<1>1. /\ store.order \in Seq(Session) /\ store.of \in [Session -> states]
      /\ Bounded(store.order) /\ \A q \in Session \ ToSet(store.order) : store.of[q] = empty
  BY DEF StoreOK, Held
<1>2. /\ w \in Seq(Session) /\ Distinct(w) /\ Len(w) <= Len(store.order)
      /\ ToSet(w) = ToSet(store.order) \ {s}
      /\ \A q, set : q # s /\ Behind(store.order, q, set) => Behind(w, q, set)
  <2>1. Distinct(store.order)
    BY <1>1 DEF Bounded, Distinct
  <2> QED
    BY <1>1, <2>1, WithoutProperties
<1>3. Bounded(w)
  <2>1. Len(w) \in Nat /\ Len(store.order) \in Nat
    BY <1>1, <1>2, ToSetOfSeq
  <2>2. Len(store.order) <= maxSessions
    BY <1>1 DEF Bounded
  <2> HIDE DEF w
  <2>3. Len(w) <= maxSessions
    BY <1>2, <2>1, <2>2
  <2> QED
    BY <1>2, <2>3 DEF Bounded, Distinct
<1>4. new = [order |-> w, of |-> [store.of EXCEPT ![s] = empty]]
  BY DEF Forget
<1> HIDE DEF w, new
<1>5. new \in [order : Seq(Session), of : [Session -> states]] /\ new.order = w
  BY <1>1, <1>2, <1>4
<1>6. \A q \in Session : new.of[q] = IF q = s THEN empty ELSE store.of[q]
  BY <1>1, <1>4
<1>7. StoreOK(new, states, empty)
  BY <1>1, <1>2, <1>3, <1>5, <1>6 DEF StoreOK, Held
<1> QED
  BY <1>2, <1>5, <1>6, <1>7 DEF new

-----------------------------------------------------------------------------
(* A step is about one session.  What it may do to the others: it may push *)
(* an entry of theirs out of a store, and the history notes that.          *)
TurnStep(s) ==
  /\ StoreOK(turn, TurnStates, EmptyTurn)'
  /\ \A q \in Session \ {s} :
        \/ turn'.of[q] = turn.of[q]
        \/ turn'.of[q] = EmptyTurn /\ q \in disturbed'

PinStep(s) ==
  /\ StoreOK(pin, PinStates, EmptyPin)' /\ HistoryOK'
  /\ \A q \in Session \ {s} :
        /\ first'[q] = first[q] /\ (Kept(q) => Kept(q)')
        /\ \/ pin'.of[q] = pin.of[q] /\ since'[q] = since[q]
           \/ pin'.of[q] = EmptyPin /\ since'[q] = None

SessionStep(s) ==
  /\ maxSessions' = maxSessions
  /\ phase' \in [Session -> Phases] /\ clock' \in [Session -> Nat]
  /\ fresh' \in [Session -> BOOLEAN] /\ ran' \in [Session -> Group \cup {None}]
  /\ disturbed \subseteq disturbed' /\ disturbed' \subseteq Session /\ streams' \subseteq Streams
  /\ \A q \in Session \ {s} :
        /\ phase'[q] = phase[q] /\ clock'[q] = clock[q]
        /\ fresh'[q] = fresh[q] /\ ran'[q] = ran[q]
  /\ \A st \in streams' : st \in streams \/ st.session = s

ContextStep == live' \in Seq(Session) /\ Bounded(live)' /\ ContextAlive'

LEMMA StatesTyped ==
  /\ EmptyTurn \in TurnStates /\ EmptyPin \in PinStates
  /\ EmptyTurn.start = 0 /\ EmptyTurn.last = None /\ EmptyTurn.run = None /\ EmptyTurn.driver = None
  /\ EmptyPin.cur = None /\ EmptyPin.curAt = 0 /\ EmptyPin.driver = None
  /\ EmptyPin.driverAt = 0 /\ EmptyPin.boundary = 0
BY DEF EmptyTurn, EmptyPin, TurnStates, PinStates

LEMMA StepPreserves ==
  ASSUME IInv, NEW s \in Session, TurnStep(s), PinStep(s), SessionStep(s), ContextStep, Sound(s)'
  PROVE  IInv'
<1>1. TypeOK'
  BY DEF IInv, TypeOK, TurnStep, PinStep, SessionStep, ContextStep
<1>2. ASSUME NEW q \in Session, q # s PROVE Sound(q)'
  <2>1. /\ phase'[q] = phase[q] /\ clock'[q] = clock[q] /\ fresh'[q] = fresh[q] /\ ran'[q] = ran[q]
        /\ \A st \in streams' : st.session = q => st \in streams
        /\ clock[q] \in Nat
    BY <1>2 DEF SessionStep, IInv, TypeOK
  <2>2. turn'.of[q] = turn.of[q] \/ (turn'.of[q] = EmptyTurn /\ q \in disturbed')
    BY <1>2 DEF TurnStep
  <2>3. /\ first'[q] = first[q] /\ (Kept(q) => Kept(q)')
        /\ \/ pin'.of[q] = pin.of[q] /\ since'[q] = since[q]
           \/ pin'.of[q] = EmptyPin /\ since'[q] = None
    BY <1>2 DEF PinStep
  <2>4. Dated(q) /\ Pinned(q) /\ Kept(q) /\ Own(q) /\ (q \in disturbed \/ Undisturbed(q))
    BY DEF IInv, Sound
  <2>5. Dated(q)'
    BY <2>1, <2>2, <2>3, <2>4, StatesTyped DEF Dated
  <2>6. Pinned(q)'
    BY <2>1, <2>3, <2>4, StatesTyped DEF Pinned
  <2>7. Own(q)'
    BY <2>2, <2>3, <2>4, StatesTyped DEF Own, Models
  <2>8. ASSUME q \notin disturbed' PROVE Undisturbed(q)'
    <3>1. q \notin disturbed /\ turn'.of[q] = turn.of[q] /\ Undisturbed(q)
      BY <2>2, <2>4, <2>8 DEF SessionStep
    <3>2. \A st \in streams' : st.session = q => st \in streams /\ (Awaited(st)' <=> Awaited(st))
      BY <2>1 DEF Awaited
    <3> QED
      BY <2>1, <3>1, <3>2 DEF Undisturbed
  <2> QED
    BY <2>3, <2>4, <2>5, <2>6, <2>7, <2>8 DEF Sound
<1>3. \A q \in Session : Sound(q)'
  BY <1>2
<1> QED
  BY <1>1, <1>3 DEF IInv, ContextStep

-----------------------------------------------------------------------------
(* What the handlers do to the stores.                                     *)
LEMMA TurnWrites ==
  ASSUME IInv, maxSessions' = maxSessions, NEW s \in Session, NEW value \in TurnStates,
         turn' = Write(turn, s, EmptyTurn, value), disturbed' = disturbed \cup Lost(turn, turn')
  PROVE  /\ TurnStep(s) /\ turn'.of[s] = value
         /\ disturbed \subseteq disturbed' /\ disturbed' \subseteq Session
         /\ s \in disturbed' => s \in disturbed
<1>1. maxSessions \in Nat \ {0} /\ StoreOK(turn, TurnStates, EmptyTurn) /\ disturbed \subseteq Session
  BY DEF IInv, TypeOK
<1> DEFINE new == Write(turn, s, EmptyTurn, value)
<1>2. /\ StoreOK(new, TurnStates, EmptyTurn) /\ s \notin Lost(turn, new)
      /\ \A q \in Session : new.of[q] = IF q = s THEN value
                                        ELSE IF q \in Lost(turn, new) THEN EmptyTurn ELSE turn.of[q]
  BY <1>1, StatesTyped, WriteStore
<1>3. Lost(turn, new) \subseteq Session
  BY <1>1, ToSetOfSeq DEF StoreOK, Lost, Held
<1> HIDE DEF new
<1>4. turn' = new
  BY DEF new
<1>5. StoreOK(turn, TurnStates, EmptyTurn)'
  BY <1>2, <1>4 DEF StoreOK, Bounded, Held
<1> QED
  BY <1>1, <1>2, <1>3, <1>4, <1>5 DEF TurnStep

LEMMA TurnLooksUp ==
  ASSUME IInv, maxSessions' = maxSessions, NEW s \in Session,
         turn' = Lookup(turn, s, EmptyTurn), disturbed' = disturbed \cup Lost(turn, turn')
  PROVE  /\ TurnStep(s) /\ turn'.of[s] = turn.of[s]
         /\ disturbed \subseteq disturbed' /\ disturbed' \subseteq Session
         /\ s \in disturbed' => s \in disturbed
<1>1. maxSessions \in Nat \ {0} /\ StoreOK(turn, TurnStates, EmptyTurn) /\ disturbed \subseteq Session
  BY DEF IInv, TypeOK
<1> DEFINE new == Lookup(turn, s, EmptyTurn)
<1>2. /\ StoreOK(new, TurnStates, EmptyTurn) /\ s \notin Lost(turn, new)
      /\ \A q \in Session : new.of[q] = IF q \in Lost(turn, new) THEN EmptyTurn ELSE turn.of[q]
  BY <1>1, StatesTyped, LookupStore
<1>3. Lost(turn, new) \subseteq Session
  BY <1>1, ToSetOfSeq DEF StoreOK, Lost, Held
<1> HIDE DEF new
<1>4. turn' = new
  BY DEF new
<1>5. StoreOK(turn, TurnStates, EmptyTurn)'
  BY <1>2, <1>4 DEF StoreOK, Bounded, Held
<1> QED
  BY <1>1, <1>2, <1>3, <1>4, <1>5 DEF TurnStep

(* The history after a session has used the Router's store.                *)
LEMMA HistoryAfter ==
  ASSUME IInv, maxSessions' = maxSessions, NEW s \in Session,
         StoreOK(pin, PinStates, EmptyPin)', Touched(pin.order, pin'.order, s),
         \A q \in Session \ {s} :
            /\ pin'.of[q] = IF q \in Lost(pin, pin') THEN EmptyPin ELSE pin.of[q]
            /\ since'[q] = IF q \in Lost(pin, pin') THEN None ELSE since[q]
            /\ first'[q] = first[q]
            /\ q \in crowded' <=> q \in crowded \cup Crowded(others'),
         first' \in [Session -> Ref \cup {None}], since' \in [Session -> Ref \cup {None}],
         others' = OthersAfter(s), crowded' \subseteq Session
  PROVE  PinStep(s) /\ others'[s] = {}
<1>1. /\ maxSessions \in Nat /\ others \in [Session -> SUBSET Session]
      /\ \A q \in Session : IsFiniteSet(others[q])
  BY DEF IInv, TypeOK, HistoryOK
<1>2. \A q \in Session : others'[q] = IF q = s \/ first'[q] = None THEN {} ELSE others[q] \cup {s}
  BY DEF OthersAfter
<1>3. others' \in [Session -> SUBSET Session]
  BY <1>1 DEF OthersAfter
<1>4. ASSUME NEW q \in Session PROVE IsFiniteSet(others'[q]) /\ Cardinality(others'[q]) \in Nat
  <2>1. IsFiniteSet({}) /\ IsFiniteSet(others[q] \cup {s})
    BY <1>1, FS_EmptySet, FS_AddElement
  <2>2. IsFiniteSet(others'[q])
    BY <1>2, <2>1
  <2> QED
    BY <2>2, FS_CardinalityType
<1>5. HistoryOK'
  BY <1>3, <1>4 DEF HistoryOK
<1>6. ASSUME NEW q \in Session \ {s}, Kept(q), q \notin crowded', first'[q] # None
      PROVE  since'[q] = first'[q] /\ Behind(pin'.order, q, others'[q])
  <2>1. q \notin crowded /\ q \notin Crowded(others') /\ first'[q] = first[q]
    BY <1>6
  <2>2. since[q] = first[q] /\ Behind(pin.order, q, others[q]) /\ others'[q] = others[q] \cup {s}
    BY <1>2, <1>6, <2>1 DEF Kept
  <2>3. Cardinality(others'[q]) < maxSessions
    BY <1>1, <1>4, <2>1 DEF Crowded
  <2>4. Behind(pin'.order, q, others'[q])
    BY <1>1, <2>2, <2>3 DEF Touched
  <2>5. q \notin Lost(pin, pin')
    <3>1. pin'.order \in Seq(Session)
      BY DEF StoreOK
    <3> QED
      BY <2>4, <3>1, ToSetOfSeq DEF Behind, Lost, Held
  <2> QED
    BY <2>1, <2>2, <2>4, <2>5
<1>7. \A q \in Session \ {s} : Kept(q) => Kept(q)'
  BY <1>6 DEF Kept
<1> QED
  BY <1>2, <1>5, <1>7 DEF PinStep

LEMMA UsedBy ==
  ASSUME IInv, maxSessions' = maxSessions, NEW s \in Session, NEW ref \in Ref \cup {None},
         StoreOK(pin, PinStates, EmptyPin)', Touched(pin.order, pin'.order, s),
         s \notin Lost(pin, pin'),
         \A q \in Session \ {s} :
            pin'.of[q] = IF q \in Lost(pin, pin') THEN EmptyPin ELSE pin.of[q],
         PinUsed(s, ref)
  PROVE  /\ PinStep(s) /\ Kept(s)'
         /\ first'[s] = (IF first[s] = None THEN ref ELSE first[s])
         /\ since'[s] = (IF since[s] = None THEN ref ELSE since[s])
<1>1. /\ first \in [Session -> Ref \cup {None}] /\ since \in [Session -> Ref \cup {None}]
      /\ crowded \subseteq Session /\ Pinned(s) /\ Kept(s)
  BY DEF IInv, TypeOK, HistoryOK, Sound
<1>2. /\ first' = [first EXCEPT ![s] = IF @ = None THEN ref ELSE @]
      /\ since' = [Forgotten(since, Lost(pin, pin')) EXCEPT ![s] = IF @ = None THEN ref ELSE @]
      /\ others' = OthersAfter(s) /\ crowded' = crowded \cup Crowded(others')
  BY DEF PinUsed
<1>3. /\ first' \in [Session -> Ref \cup {None}] /\ \A q \in Session \ {s} : first'[q] = first[q]
      /\ first'[s] = (IF first[s] = None THEN ref ELSE first[s])
  BY <1>1, <1>2
<1>4. /\ since' \in [Session -> Ref \cup {None}]
      /\ \A q \in Session \ {s} : since'[q] = IF q \in Lost(pin, pin') THEN None ELSE since[q]
      /\ since'[s] = (IF since[s] = None THEN ref ELSE since[s])
  BY <1>1, <1>2 DEF Forgotten
<1>5. PinStep(s) /\ others'[s] = {}
  <2>1. crowded' \subseteq Session
    BY <1>1, <1>2 DEF Crowded
  <2> QED
    BY <1>2, <1>3, <1>4, <2>1, HistoryAfter
<1>6. Kept(s)'
  <2> SUFFICES ASSUME s \notin crowded', first'[s] # None
               PROVE  since'[s] = first'[s] /\ Behind(pin'.order, s, {})
    BY <1>5 DEF Kept
  <2>1. Behind(pin'.order, s, {})
    BY DEF Touched
  <2>2. first[s] # None => since[s] = first[s]
    BY <1>1, <1>2 DEF Kept
  <2>3. first[s] = None => since[s] = None
    BY <1>1 DEF Pinned
  <2> QED
    BY <1>3, <1>4, <2>1, <2>2, <2>3
<1> QED
  BY <1>3, <1>4, <1>5, <1>6

LEMMA PinWritten ==
  ASSUME IInv, maxSessions' = maxSessions, NEW s \in Session, NEW value \in PinStates,
         pin' = Write(pin, s, EmptyPin, value)
  PROVE  /\ StoreOK(pin, PinStates, EmptyPin)' /\ Touched(pin.order, pin'.order, s)
         /\ s \notin Lost(pin, pin') /\ pin'.of[s] = value
         /\ \A q \in Session \ {s} :
               pin'.of[q] = IF q \in Lost(pin, pin') THEN EmptyPin ELSE pin.of[q]
<1>1. maxSessions \in Nat \ {0} /\ StoreOK(pin, PinStates, EmptyPin)
  BY DEF IInv, TypeOK
<1> DEFINE new == Write(pin, s, EmptyPin, value)
<1>2. /\ StoreOK(new, PinStates, EmptyPin) /\ s \notin Lost(pin, new)
      /\ Touched(pin.order, new.order, s)
      /\ \A q \in Session : new.of[q] = IF q = s THEN value
                                        ELSE IF q \in Lost(pin, new) THEN EmptyPin ELSE pin.of[q]
  BY <1>1, StatesTyped, WriteStore
<1> HIDE DEF new
<1>3. pin' = new
  BY DEF new
<1>4. StoreOK(pin, PinStates, EmptyPin)'
  BY <1>2, <1>3 DEF StoreOK, Bounded, Held
<1> QED
  BY <1>2, <1>3, <1>4

LEMMA PinLooksUp ==
  ASSUME IInv, maxSessions' = maxSessions, NEW s \in Session,
         pin' = Lookup(pin, s, EmptyPin), PinUsed(s, None)
  PROVE  /\ PinStep(s) /\ Kept(s)' /\ pin'.of[s] = pin.of[s]
         /\ first'[s] = first[s] /\ since'[s] = since[s]
<1>1. maxSessions \in Nat \ {0} /\ StoreOK(pin, PinStates, EmptyPin)
  BY DEF IInv, TypeOK
<1> DEFINE new == Lookup(pin, s, EmptyPin)
<1>2. /\ StoreOK(new, PinStates, EmptyPin) /\ s \notin Lost(pin, new)
      /\ Touched(pin.order, new.order, s)
      /\ \A q \in Session : new.of[q] = IF q \in Lost(pin, new) THEN EmptyPin ELSE pin.of[q]
  BY <1>1, StatesTyped, LookupStore
<1> HIDE DEF new
<1>3. pin' = new
  BY DEF new
<1>4. StoreOK(pin, PinStates, EmptyPin)'
  BY <1>2, <1>3 DEF StoreOK, Bounded, Held
<1>5. None \in Ref \cup {None}
  OBVIOUS
<1>6. /\ PinStep(s) /\ Kept(s)'
      /\ first'[s] = (IF first[s] = None THEN None ELSE first[s])
      /\ since'[s] = (IF since[s] = None THEN None ELSE since[s])
  BY <1>2, <1>3, <1>4, <1>5, UsedBy
<1> QED
  BY <1>2, <1>3, <1>6

LEMMA TurnKept ==
  ASSUME IInv, maxSessions' = maxSessions, NEW s \in Session, turn' = turn
  PROVE  TurnStep(s)
BY DEF IInv, TypeOK, TurnStep, StoreOK, Bounded, Held

LEMMA PinKept ==
  ASSUME IInv, maxSessions' = maxSessions, NEW s \in Session, pin' = pin, UNCHANGED pinHistory
  PROVE  PinStep(s) /\ (Kept(s) => Kept(s)')
BY DEF IInv, TypeOK, PinStep, StoreOK, Bounded, Held, HistoryOK, Kept, pinHistory

LEMMA ContextKept ==
  ASSUME IInv, maxSessions' = maxSessions, UNCHANGED context
  PROVE  ContextStep
BY DEF IInv, TypeOK, context, ContextStep, ContextAlive, Bounded

(* What is known of a session.                                             *)
LEMMA Known ==
  ASSUME IInv, NEW s \in Session
  PROVE  /\ turn.of[s] \in TurnStates /\ pin.of[s] \in PinStates
         /\ clock[s] \in Nat /\ phase[s] \in Phases /\ fresh[s] \in BOOLEAN
         /\ first[s] \in Ref \cup {None} /\ since[s] \in Ref \cup {None}
         /\ ran[s] \in Group \cup {None} /\ streams \subseteq Streams
         /\ Dated(s) /\ Pinned(s) /\ Kept(s) /\ Own(s) /\ (s \in disturbed \/ Undisturbed(s))
BY DEF IInv, TypeOK, HistoryOK, StoreOK, Sound

LEMMA DriversTyped ==
  /\ \A s \in Session, g \in Group : Driver[s][g] \in Ref /\ Driver[s][g] \in Models(s)
  /\ \A s \in Session : Models(s) \subseteq Ref
  /\ None \notin Ref /\ None \notin Group
BY SessionsAssumption DEF Models

\* An undisturbed session has a stream of its own only while it streams.
LEMMA NoneOpen ==
  ASSUME IInv, NEW s \in Session, s \notin disturbed, phase[s] # "streaming"
  PROVE  \A st \in streams : st.session = s => st.sub
BY Known DEF Undisturbed, Awaited

-----------------------------------------------------------------------------
(* The handlers of a session.                                              *)
LEMMA SessionStartSound ==
  ASSUME IInv, maxSessions' = maxSessions, NEW s \in Session, SessionStart(s)
  PROVE  IInv'
<1> USE DEF SessionStart, stores, history, pinHistory, Go
<1>1. TurnStep(s) /\ PinStep(s) /\ Kept(s)'
  BY Known, TurnKept, PinKept
<1>2. SessionStep(s)
  BY DEF IInv, TypeOK, SessionStep, Phases
<1>3. ContextStep
  <2> DEFINE o == Append(Without(live, s), s)
  <2>1. maxSessions \in Nat \ {0} /\ live \in Seq(Session) /\ Bounded(live)
    BY DEF IInv, TypeOK
  <2>2. /\ o \in Seq(Session) /\ s \in ToSet(o) /\ Len(o) \in Nat
        /\ Len(o) <= maxSessions => Bounded(o)
        /\ Len(o) > maxSessions =>
             /\ Tail(o) \in Seq(Session) /\ Bounded(Tail(o))
             /\ Head(o) \in ToSet(live) \ {s}
             /\ ToSet(Tail(o)) = ToSet(o) \ {Head(o)}
    BY <2>1, TouchProperties
  <2>3. live' = IF Len(o) > maxSessions THEN Tail(o) ELSE o
    BY DEF StartedLast
  <2> HIDE DEF o
  <2>4. live' \in Seq(Session) /\ s \in ToSet(live') /\ Bounded(live')
    <3>1. CASE Len(o) > maxSessions
      BY <2>2, <2>3, <3>1
    <3>2. CASE ~(Len(o) > maxSessions)
      BY <2>1, <2>2, <2>3, <3>2
    <3> QED
      BY <3>1, <3>2
  <2> QED
    BY <2>4 DEF ContextStep, ContextAlive, Bounded
<1>4. Sound(s)'
  <2>1. Dated(s)'
    BY Known DEF Dated, IInv, TypeOK
  <2>2. Pinned(s)' /\ Own(s)'
    BY Known DEF Pinned, Own, Models
  <2>3. s \notin disturbed => Undisturbed(s)'
    BY NoneOpen DEF Undisturbed, IInv, TypeOK
  <2> QED
    BY <1>1, <2>1, <2>2, <2>3 DEF Sound
<1> QED
  BY <1>1, <1>2, <1>3, <1>4, StepPreserves

LEMMA TurnStartSound ==
  ASSUME IInv, maxSessions' = maxSessions, NEW s \in Session, TurnStart(s)
  PROVE  IInv'
<1> DEFINE tv == [turn.of[s] EXCEPT !.start = clock'[s]]
           pv == [pin.of[s] EXCEPT !.boundary = clock'[s]]
<1>1. /\ phase[s] \in {"idle", "more"}
      /\ clock' = [clock EXCEPT ![s] = @ + 1] /\ fresh' = [fresh EXCEPT ![s] = phase[s] = "idle"]
      /\ phase' = [phase EXCEPT ![s] = "started"] /\ streams' = streams /\ ran' = ran
      /\ UNCHANGED context
      /\ turn' = Write(turn, s, EmptyTurn, tv) /\ disturbed' = disturbed \cup Lost(turn, turn')
      /\ pin' = Write(pin, s, EmptyPin, pv) /\ first' = [first EXCEPT ![s] = None]
      /\ since' = Forgotten(since, Lost(pin, pin') \cup {s})
      /\ others' = OthersAfter(s) /\ crowded' = (crowded \ {s}) \cup Crowded(others')
  BY DEF TurnStart, Go
<1>2. /\ clock[s] \in Nat /\ clock'[s] = clock[s] + 1 /\ clock'[s] \in Nat
      /\ clock' \in [Session -> Nat]
  BY <1>1 DEF IInv, TypeOK
<1>3. /\ tv \in TurnStates /\ tv.start = clock'[s]
      /\ tv.last = turn.of[s].last /\ tv.run = turn.of[s].run /\ tv.driver = turn.of[s].driver
      /\ pv \in PinStates /\ pv.boundary = clock'[s]
      /\ pv.cur = pin.of[s].cur /\ pv.curAt = pin.of[s].curAt
      /\ pv.driver = pin.of[s].driver /\ pv.driverAt = pin.of[s].driverAt
  BY <1>2, Known DEF TurnStates, PinStates
<1> HIDE DEF tv, pv
<1>4. /\ first' \in [Session -> Ref \cup {None}] /\ \A q \in Session \ {s} : first'[q] = first[q]
      /\ since' \in [Session -> Ref \cup {None}]
      /\ \A q \in Session \ {s} : since'[q] = IF q \in Lost(pin, pin') THEN None ELSE since[q]
      /\ crowded' \subseteq Session /\ first'[s] = None /\ since'[s] = None
  BY <1>1 DEF Forgotten, Crowded, IInv, TypeOK, HistoryOK
<1>5. /\ TurnStep(s) /\ turn'.of[s] = tv
      /\ disturbed \subseteq disturbed' /\ disturbed' \subseteq Session
  BY <1>1, <1>3, TurnWrites
<1>6. PinStep(s) /\ Kept(s)' /\ pin'.of[s] = pv
  <2>1. /\ StoreOK(pin, PinStates, EmptyPin)' /\ Touched(pin.order, pin'.order, s)
        /\ pin'.of[s] = pv
        /\ \A q \in Session \ {s} :
              pin'.of[q] = IF q \in Lost(pin, pin') THEN EmptyPin ELSE pin.of[q]
    BY <1>1, <1>3, PinWritten
  <2>2. \A q \in Session \ {s} : q \in crowded' <=> q \in crowded \cup Crowded(others')
    BY <1>1
  <2>3. PinStep(s)
    BY <1>1, <1>4, <2>1, <2>2, HistoryAfter
  <2> QED
    BY <1>4, <2>1, <2>3 DEF Kept
<1>7. SessionStep(s)
  BY <1>1, <1>2, <1>5 DEF IInv, TypeOK, SessionStep, Phases
<1>8. Sound(s)'
  <2>1. Dated(s)'
    BY <1>1, <1>2, <1>3, <1>5, <1>6, Known DEF Dated, PinStates
  <2>2. Pinned(s)'
    BY <1>2, <1>3, <1>4, <1>6, Known DEF Pinned, Dated, PinStates
  <2>3. Own(s)'
    BY <1>3, <1>5, <1>6, Known DEF Own, Models
  <2>4. ASSUME s \notin disturbed' PROVE Undisturbed(s)'
    <3>1. s \notin disturbed /\ Undisturbed(s) /\ phase[s] # "streaming"
      BY <1>1, <1>5, <2>4, Known
    <3>2. \A st \in streams' : st.session = s => st.sub
      BY <1>1, <3>1, NoneOpen
    <3>3. phase'[s] = "started" /\ fresh'[s] = (phase[s] = "idle") /\ ran'[s] = ran[s]
      BY <1>1 DEF IInv, TypeOK
    <3>4. phase[s] = "more" => turn.of[s].run = ran[s]
      BY <3>1 DEF Undisturbed
    <3>5. ~fresh'[s] => turn'.of[s].run = ran'[s]
      BY <1>1, <1>3, <1>5, <3>3, <3>4
    <3> QED
      BY <3>2, <3>3, <3>5 DEF Undisturbed
  <2> QED
    BY <1>6, <2>1, <2>2, <2>3, <2>4 DEF Sound
<1> QED
  BY <1>1, <1>5, <1>6, <1>7, <1>8, ContextKept, StepPreserves

LEMMA FollowUpSound ==
  ASSUME IInv, maxSessions' = maxSessions, NEW s \in Session, NEW up \in SUBSET Group, FollowUp(s, up)
  PROVE  IInv'
<1>0. PICK group : group = FollowUpGroup(turn.of[s].run, up)
  OBVIOUS
<1> DEFINE new == [session |-> s, sub |-> FALSE, at |-> clock[s], step |-> "walk",
                   group |-> group]
<1>1. /\ phase[s] = "started" /\ ~fresh[s]
      /\ \/ group # None /\ streams' = streams \cup {new} /\ phase' = [phase EXCEPT ![s] = "streaming"]
         \/ streams' = streams /\ phase' = [phase EXCEPT ![s] = "acting"]
      /\ turn' = Lookup(turn, s, EmptyTurn) /\ disturbed' = disturbed \cup Lost(turn, turn')
      /\ pin' = pin /\ UNCHANGED pinHistory /\ clock' = clock /\ fresh' = fresh /\ ran' = ran
      /\ UNCHANGED context
  BY <1>0 DEF FollowUp, IsFollowUp, Opened, Go
<1>2. new \in Streams
  <2>1. group \in Group \cup {None}
    BY <1>0, SessionsAssumption DEF FollowUpGroup, BaseGroup
  <2> QED
    BY <2>1, Known DEF Streams
<1>3. new.session = s /\ ~new.sub /\ new.at = clock[s]
  OBVIOUS
<1> HIDE DEF new
<1>4. /\ TurnStep(s) /\ turn'.of[s] = turn.of[s]
      /\ disturbed \subseteq disturbed' /\ disturbed' \subseteq Session
  BY <1>1, TurnLooksUp
<1>5. PinStep(s) /\ Kept(s)'
  BY <1>1, Known, PinKept
<1>6. /\ phase' \in [Session -> Phases] /\ \A q \in Session \ {s} : phase'[q] = phase[q]
      /\ \/ streams' = streams \cup {new} /\ phase'[s] = "streaming"
         \/ streams' = streams /\ phase'[s] = "acting"
  BY <1>1 DEF IInv, TypeOK, Phases
<1>7. SessionStep(s)
  BY <1>1, <1>2, <1>3, <1>4, <1>6 DEF IInv, TypeOK, SessionStep
<1>8. Sound(s)'
  <2>1. Dated(s)'
    BY <1>1, <1>3, <1>4, <1>6, Known DEF Dated
  <2>2. Pinned(s)'
    BY <1>1, Known DEF Pinned, pinHistory
  <2>3. Own(s)'
    BY <1>1, <1>4, Known DEF Own, Models
  <2>4. ASSUME s \notin disturbed' PROVE Undisturbed(s)'
    <3>1. s \notin disturbed /\ Undisturbed(s)
      BY <1>4, <2>4, Known
    <3>2. \A st \in streams : st.session = s => st.sub
      BY <1>1, <3>1, NoneOpen
    <3>3. \A st \in streams' : st.session = s /\ ~st.sub => st = new /\ phase'[s] = "streaming"
      BY <1>6, <3>2
    <3>4. ASSUME NEW st \in streams', st.session = s, ~st.sub PROVE Awaited(st)'
      <4>1. st.session = s /\ ~st.sub /\ st.at = clock'[s] /\ phase'[s] = "streaming"
        BY <1>1, <1>3, <3>3, <3>4
      <4> QED
        BY <4>1 DEF Awaited
    <3>5. turn'.of[s].run = ran'[s]
      BY <1>1, <1>4, <3>1 DEF Undisturbed
    <3>6. \A st, other \in streams' :
             st.session = s /\ ~st.sub /\ other.session = s /\ ~other.sub => st = other
      BY <3>3
    <3> QED
      BY <3>4, <3>5, <3>6 DEF Undisturbed
  <2> QED
    BY <1>5, <2>1, <2>2, <2>3, <2>4 DEF Sound
<1> QED
  BY <1>1, <1>4, <1>5, <1>7, <1>8, ContextKept, StepPreserves

LEMMA NewTurnSound ==
  ASSUME IInv, maxSessions' = maxSessions, NEW s \in Session, NEW hinted \in BOOLEAN,
         NewTurn(s, hinted)
  PROVE  IInv'
<1>0. PICK new : new = [session |-> s, sub |-> FALSE, at |-> clock[s], step |-> "classify",
                        group |-> None]
  OBVIOUS
<1> DEFINE tv == [turn.of[s] EXCEPT !.run = None, !.driver = None]
<1>1. /\ phase[s] = "started"
      /\ streams' = streams \cup {new} /\ phase' = [phase EXCEPT ![s] = "streaming"]
      /\ turn' = Write(turn, s, EmptyTurn, tv) /\ disturbed' = disturbed \cup Lost(turn, turn')
      /\ pin' = pin /\ UNCHANGED pinHistory /\ clock' = clock /\ fresh' = fresh
      /\ ran' = [ran EXCEPT ![s] = None] /\ UNCHANGED context
  BY <1>0 DEF NewTurn, Opened, Go
<1>2. new \in Streams
  BY <1>0, Known DEF Streams
<1>3. new.session = s /\ ~new.sub /\ new.at = clock[s]
  BY <1>0
<1>4. /\ tv \in TurnStates /\ tv.start = turn.of[s].start /\ tv.last = turn.of[s].last
      /\ tv.run = None /\ tv.driver = None
  BY Known DEF TurnStates
<1> HIDE DEF tv
<1>5. /\ TurnStep(s) /\ turn'.of[s] = tv
      /\ disturbed \subseteq disturbed' /\ disturbed' \subseteq Session
  BY <1>1, <1>4, TurnWrites
<1>6. PinStep(s) /\ Kept(s)'
  BY <1>1, Known, PinKept
<1>7. SessionStep(s)
  BY <1>1, <1>2, <1>3, <1>5 DEF IInv, TypeOK, SessionStep, Phases
<1>8. phase'[s] = "streaming" /\ ran'[s] = None
  BY <1>1 DEF IInv, TypeOK
<1>9. Sound(s)'
  <2>1. Dated(s)'
    BY <1>1, <1>3, <1>4, <1>5, <1>8, Known DEF Dated
  <2>2. Pinned(s)'
    BY <1>1, Known DEF Pinned, pinHistory
  <2>3. Own(s)'
    BY <1>1, <1>4, <1>5, Known DEF Own, Models
  <2>4. ASSUME s \notin disturbed' PROVE Undisturbed(s)'
    <3>1. s \notin disturbed
      BY <1>5, <2>4
    <3>2. \A st \in streams : st.session = s => st.sub
      BY <1>1, <3>1, NoneOpen
    <3>3. \A st \in streams' : st.session = s /\ ~st.sub => st = new
      BY <1>1, <3>2
    <3>4. Awaited(new)'
      BY <1>1, <1>3, <1>8 DEF Awaited
    <3> QED
      BY <1>4, <1>5, <1>8, <3>3, <3>4 DEF Undisturbed
  <2> QED
    BY <1>6, <2>1, <2>2, <2>3, <2>4 DEF Sound
<1> QED
  BY <1>1, <1>5, <1>6, <1>7, <1>9, ContextKept, StepPreserves

LEMMA ToolCallSound ==
  ASSUME IInv, maxSessions' = maxSessions, NEW s \in Session, ToolCall(s)
  PROVE  IInv'
<1>1. /\ phase[s] = "acting" /\ phase' = phase /\ streams' = streams
      /\ turn' = Lookup(turn, s, EmptyTurn) /\ disturbed' = disturbed \cup Lost(turn, turn')
      /\ pin' = Lookup(pin, s, EmptyPin) /\ PinUsed(s, None)
      /\ clock' = clock /\ fresh' = fresh /\ ran' = ran /\ UNCHANGED context
  BY DEF ToolCall
<1>2. /\ TurnStep(s) /\ turn'.of[s] = turn.of[s]
      /\ disturbed \subseteq disturbed' /\ disturbed' \subseteq Session
  BY <1>1, TurnLooksUp
<1>3. /\ PinStep(s) /\ Kept(s)' /\ pin'.of[s] = pin.of[s]
      /\ first'[s] = first[s] /\ since'[s] = since[s]
  BY <1>1, PinLooksUp
<1>4. SessionStep(s)
  BY <1>1, <1>2 DEF IInv, TypeOK, SessionStep
<1>5. Sound(s)'
  <2>1. Dated(s)' /\ Pinned(s)' /\ Own(s)'
    BY <1>1, <1>2, <1>3, Known DEF Dated, Pinned, Own, Models
  <2>2. s \notin disturbed' => Undisturbed(s)'
    BY <1>1, <1>2, Known DEF Undisturbed, Awaited
  <2> QED
    BY <1>3, <2>1, <2>2 DEF Sound
<1> QED
  BY <1>1, <1>2, <1>3, <1>4, <1>5, ContextKept, StepPreserves

LEMMA SubCallSound ==
  ASSUME IInv, maxSessions' = maxSessions, NEW s \in Session, SubCall(s)
  PROVE  IInv'
<1>1. PICK step \in {"classify", "walk"} :
        Opened([session |-> s, sub |-> TRUE, at |-> clock[s], step |-> step, group |-> None])
  BY DEF SubCall
<1> DEFINE new == [session |-> s, sub |-> TRUE, at |-> clock[s], step |-> step, group |-> None]
<1>2. /\ phase[s] = "acting" /\ streams' = streams \cup {new}
      /\ phase' = [phase EXCEPT ![s] = "delegating"]
      /\ turn' = turn /\ pin' = pin /\ UNCHANGED pinHistory /\ disturbed' = disturbed
      /\ clock' = clock /\ fresh' = fresh /\ ran' = ran /\ UNCHANGED context
  BY <1>1 DEF SubCall, Opened, Go, stores, history
<1>3. new \in Streams /\ new.session = s /\ new.sub
  BY Known DEF Streams
<1> HIDE DEF new
<1>4. phase'[s] = "delegating"
  BY <1>2 DEF IInv, TypeOK
<1>5. SessionStep(s)
  BY <1>2, <1>3 DEF IInv, TypeOK, SessionStep, Phases
<1>6. Sound(s)'
  <2>1. Dated(s)'
    BY <1>2, <1>3, <1>4, Known DEF Dated
  <2>2. Pinned(s)' /\ Own(s)'
    BY <1>2, Known DEF Pinned, Own, Models, pinHistory
  <2>3. ASSUME s \notin disturbed' PROVE Undisturbed(s)'
    <3>1. s \notin disturbed /\ Undisturbed(s)
      BY <1>2, <2>3, Known
    <3>2. \A st \in streams' : st.session = s => st.sub
      BY <1>2, <1>3, <3>1, NoneOpen
    <3>3. turn'.of[s].run = ran'[s]
      BY <1>2, <3>1 DEF Undisturbed
    <3> QED
      BY <3>2, <3>3 DEF Undisturbed
  <2>4. Kept(s)'
    BY <1>2, Known, PinKept
  <2> QED
    BY <2>1, <2>2, <2>3, <2>4 DEF Sound
<1> QED
  BY <1>2, <1>5, <1>6, TurnKept, PinKept, ContextKept, StepPreserves

\* Between its tools a session waits for nothing of its own.
LEMMA TurnsOn ==
  ASSUME IInv, maxSessions' = maxSessions, NEW s \in Session, NEW to \in {"acting", "switching"},
         phase[s] \in {"acting", "switching"}, phase' = [phase EXCEPT ![s] = to],
         UNCHANGED <<clock, fresh, streams, ran>>,
         disturbed \subseteq disturbed', disturbed' \subseteq Session,
         turn'.of[s].run = turn.of[s].run
  PROVE  /\ SessionStep(s) /\ phase'[s] = to
         /\ s \notin disturbed' => Undisturbed(s)'
<1>1. phase'[s] = to
  BY DEF IInv, TypeOK
<1>2. SessionStep(s)
  BY DEF IInv, TypeOK, SessionStep, Phases
<1>3. ASSUME s \notin disturbed' PROVE Undisturbed(s)'
  <2>1. s \notin disturbed /\ Undisturbed(s)
    BY <1>3, Known
  <2>2. \A st \in streams' : st.session = s => st.sub
    BY <2>1, NoneOpen
  <2>3. turn'.of[s].run = ran'[s]
    BY <2>1 DEF Undisturbed
  <2> QED
    BY <2>2, <2>3 DEF Undisturbed
<1> QED
  BY <1>1, <1>2, <1>3

LEMMA LoadSound ==
  ASSUME IInv, maxSessions' = maxSessions, NEW s \in Session, Load(s)
  PROVE  IInv'
<1>0. PICK to \in {"acting", "switching"} : phase' = [phase EXCEPT ![s] = to]
  BY DEF Load, Go
<1>1. /\ routerCtx' = ctx /\ live' = live /\ ctx' = ctx /\ phase[s] = "acting"
      /\ turn' = turn /\ pin' = pin /\ UNCHANGED pinHistory /\ disturbed' = disturbed
      /\ clock' = clock /\ fresh' = fresh /\ ran' = ran /\ streams' = streams
  BY DEF Load, stores, history
<1>2. ContextStep
  BY <1>1 DEF IInv, TypeOK, ContextStep, ContextAlive, Bounded
<1>3. /\ SessionStep(s) /\ phase'[s] = to
      /\ s \notin disturbed' => Undisturbed(s)'
  <2>1. disturbed' \subseteq Session
    BY <1>1 DEF IInv, TypeOK
  <2> QED
    BY <1>0, <1>1, <2>1, TurnsOn
<1>4. Sound(s)'
  <2>1. Dated(s)' /\ Pinned(s)' /\ Own(s)'
    BY <1>1, <1>3, Known DEF Dated, Pinned, Own, Models, pinHistory
  <2>2. Kept(s)'
    BY <1>1, Known, PinKept
  <2> QED
    BY <1>3, <2>1, <2>2 DEF Sound
<1> QED
  BY <1>1, <1>2, <1>3, <1>4, TurnKept, PinKept, StepPreserves

LEMMA SetModelFailsSound ==
  ASSUME IInv, maxSessions' = maxSessions, NEW s \in Session, SetModelFails(s)
  PROVE  IInv'
<1>1. /\ phase[s] = "switching" /\ phase' = [phase EXCEPT ![s] = "acting"] /\ UNCHANGED context
      /\ turn' = turn /\ pin' = pin /\ UNCHANGED pinHistory /\ disturbed' = disturbed
      /\ clock' = clock /\ fresh' = fresh /\ ran' = ran /\ streams' = streams
  BY DEF SetModelFails, Go, stores, history
<1>2. /\ SessionStep(s) /\ phase'[s] = "acting"
      /\ s \notin disturbed' => Undisturbed(s)'
  <2>1. disturbed' \subseteq Session /\ "acting" \in {"acting", "switching"}
    BY <1>1 DEF IInv, TypeOK
  <2> QED
    BY <1>1, <2>1, TurnsOn
<1>3. Sound(s)'
  <2>1. Dated(s)' /\ Pinned(s)' /\ Own(s)'
    BY <1>1, <1>2, Known DEF Dated, Pinned, Own, Models, pinHistory
  <2>2. Kept(s)'
    BY <1>1, Known, PinKept
  <2> QED
    BY <1>2, <2>1, <2>2 DEF Sound
<1> QED
  BY <1>1, <1>2, <1>3, TurnKept, PinKept, ContextKept, StepPreserves

LEMMA TurnEndSound ==
  ASSUME IInv, maxSessions' = maxSessions, NEW s \in Session, TurnEnd(s)
  PROVE  IInv'
<1>1. PICK to \in {"idle", "more"} : Go(s, to)
  BY DEF TurnEnd
<1>2. /\ phase[s] = "acting" /\ phase' = [phase EXCEPT ![s] = to] /\ streams' = streams
      /\ turn' = Lookup(turn, s, EmptyTurn) /\ disturbed' = disturbed \cup Lost(turn, turn')
      /\ pin' = IF turn.of[s].start = 0 THEN pin ELSE Lookup(pin, s, EmptyPin)
      /\ (IF turn.of[s].start = 0 THEN UNCHANGED pinHistory ELSE PinUsed(s, None))
      /\ clock' = clock /\ fresh' = fresh /\ ran' = ran /\ UNCHANGED context
  BY <1>1 DEF TurnEnd, Go
<1>3. phase'[s] = to
  BY <1>2 DEF IInv, TypeOK
<1>4. /\ TurnStep(s) /\ turn'.of[s] = turn.of[s]
      /\ disturbed \subseteq disturbed' /\ disturbed' \subseteq Session
  BY <1>2, TurnLooksUp
<1>5. /\ PinStep(s) /\ Kept(s)' /\ pin'.of[s] = pin.of[s]
      /\ first'[s] = first[s] /\ since'[s] = since[s]
  <2>1. CASE turn.of[s].start = 0
    BY <1>2, <2>1, Known, PinKept DEF pinHistory
  <2>2. CASE turn.of[s].start # 0
    BY <1>2, <2>2, PinLooksUp
  <2> QED
    BY <2>1, <2>2
<1>6. SessionStep(s)
  BY <1>2, <1>4 DEF IInv, TypeOK, SessionStep, Phases
<1>7. Sound(s)'
  <2>1. Dated(s)'
    BY <1>2, <1>3, <1>4, <1>5, Known DEF Dated
  <2>2. Pinned(s)' /\ Own(s)'
    <3>1. Pinned(s)'
      BY <1>2, <1>5, Known DEF Pinned
    <3>2. Own(s)'
      BY <1>4, <1>5, Known DEF Own, Models
    <3> QED
      BY <3>1, <3>2
  <2>3. ASSUME s \notin disturbed' PROVE Undisturbed(s)'
    <3>1. s \notin disturbed /\ Undisturbed(s)
      BY <1>4, <2>3, Known
    <3>2. \A st \in streams' : st.session = s => st.sub
      BY <1>2, <3>1, NoneOpen
    <3>3. turn'.of[s].run = ran'[s]
      BY <1>2, <1>4, <3>1 DEF Undisturbed
    <3> QED
      BY <3>2, <3>3 DEF Undisturbed
  <2> QED
    BY <1>5, <2>1, <2>2, <2>3 DEF Sound
<1> QED
  BY <1>2, <1>4, <1>5, <1>6, <1>7, ContextKept, StepPreserves

(* The first model a turn records stays its driver; later ones become only *)
(* the factual model.                                                      *)
LEMMA NotedKeepsDriver ==
  ASSUME IInv, maxSessions' = maxSessions, NEW s \in Session, NEW ref \in Ref,
         Noted(s, ref), clock[s] > 0
  PROVE  /\ PinStep(s) /\ Kept(s)'
         /\ pin'.of[s].cur = ref /\ pin'.of[s].curAt = clock[s]
         /\ pin'.of[s].boundary = pin.of[s].boundary
         /\ pin'.of[s].driver = since'[s] /\ pin'.of[s].driverAt = clock[s]
         /\ since'[s] # None /\ first'[s] # None
         /\ pin'.of[s].driver \in {ref, pin.of[s].driver}
<1> DEFINE p == pin.of[s]
           noted == Recorded(p, ref, clock[s])
           named == IF since[s] = None THEN ref ELSE since[s]
<1>1. /\ p \in PinStates /\ clock[s] \in Nat /\ since[s] \in Ref \cup {None} /\ Dated(s) /\ Pinned(s)
  BY Known
<1>2. /\ noted \in PinStates /\ noted.cur = ref /\ noted.curAt = clock[s]
      /\ noted.boundary = p.boundary
      /\ noted.driver = (IF p.driverAt = 0 \/ p.driverAt < p.boundary THEN ref ELSE p.driver)
      /\ noted.driverAt = (IF p.driverAt = 0 \/ p.driverAt < p.boundary THEN clock[s] ELSE p.driverAt)
  BY <1>1 DEF Recorded, PinStates
<1>3. pin' = Write(pin, s, EmptyPin, noted)
  BY DEF Noted
<1>5. named # None
  BY <1>1, DriversTyped
<1> HIDE DEF noted
<1>6. /\ PinStep(s) /\ Kept(s)' /\ pin'.of[s] = noted /\ since'[s] = named
      /\ first'[s] = (IF first[s] = None THEN ref ELSE first[s])
  <2>1. /\ StoreOK(pin, PinStates, EmptyPin)' /\ Touched(pin.order, pin'.order, s)
        /\ s \notin Lost(pin, pin') /\ pin'.of[s] = noted
        /\ \A q \in Session \ {s} :
              pin'.of[q] = IF q \in Lost(pin, pin') THEN EmptyPin ELSE pin.of[q]
    BY <1>2, <1>3, PinWritten
  <2>2. PinUsed(s, ref) /\ ref \in Ref \cup {None}
    BY DEF Noted
  <2> QED
    BY <2>1, <2>2, UsedBy
<1> HIDE DEF named
<1>7. noted.driver = named /\ noted.driverAt = clock[s]
  <2>1. CASE since[s] = None
    <3>1. p.driverAt = 0 \/ p.driverAt < p.boundary
      BY <1>1, <2>1 DEF Pinned
    <3> QED
      BY <1>2, <2>1, <3>1 DEF named
  <2>2. CASE since[s] # None
    <3>1. p.driver = since[s] /\ p.driverAt = clock[s] /\ p.boundary <= clock[s]
      BY <1>1, <2>2 DEF Pinned, Dated
    <3>2. ~(p.driverAt = 0 \/ p.driverAt < p.boundary)
      BY <1>1, <3>1 DEF PinStates
    <3> QED
      BY <1>2, <2>2, <3>1, <3>2 DEF named
  <2> QED
    BY <2>1, <2>2
<1>8. noted.driver \in {ref, p.driver}
  BY <1>2
<1> QED
  BY <1>2, <1>5, <1>6, <1>7, <1>8, DriversTyped

LEMMA SetModelSound ==
  ASSUME IInv, maxSessions' = maxSessions, NEW s \in Session, NEW ref \in Models(s), SetModel(s, ref)
  PROVE  IInv'
<1>1. /\ phase[s] = "switching" /\ phase' = [phase EXCEPT ![s] = "acting"] /\ Noted(s, ref)
      /\ turn' = Lookup(turn, s, EmptyTurn) /\ disturbed' = disturbed \cup Lost(turn, turn')
      /\ UNCHANGED context
      /\ clock' = clock /\ fresh' = fresh /\ ran' = ran /\ streams' = streams
  BY DEF SetModel, Go
<1>2. clock[s] > 0 /\ ref \in Ref
  BY <1>1, Known, DriversTyped DEF Dated
<1>3. /\ TurnStep(s) /\ turn'.of[s] = turn.of[s]
      /\ disturbed \subseteq disturbed' /\ disturbed' \subseteq Session
  BY <1>1, TurnLooksUp
<1>4. /\ PinStep(s) /\ Kept(s)'
      /\ pin'.of[s].cur = ref /\ pin'.of[s].curAt = clock[s]
      /\ pin'.of[s].boundary = pin.of[s].boundary
      /\ pin'.of[s].driver = since'[s] /\ pin'.of[s].driverAt = clock[s]
      /\ since'[s] # None /\ first'[s] # None
      /\ pin'.of[s].driver \in {ref, pin.of[s].driver}
  BY <1>1, <1>2, NotedKeepsDriver
<1>5. /\ SessionStep(s) /\ phase'[s] = "acting"
      /\ s \notin disturbed' => Undisturbed(s)'
  <2>1. "acting" \in {"acting", "switching"}
    OBVIOUS
  <2> QED
    BY <1>1, <1>3, <2>1, TurnsOn
<1>6. Sound(s)'
  <2>1. Dated(s)'
    BY <1>1, <1>2, <1>3, <1>4, Known DEF Dated
  <2>2. Pinned(s)'
    BY <1>1, <1>2, <1>4 DEF Pinned
  <2>3. Own(s)'
    BY <1>3, <1>4, Known DEF Own, Models
  <2> QED
    BY <1>4, <1>5, <2>1, <2>2, <2>3 DEF Sound
<1> QED
  BY <1>1, <1>3, <1>4, <1>5, <1>6, ContextKept, StepPreserves

LEMMA SessionShutdownSound ==
  ASSUME IInv, maxSessions' = maxSessions, NEW s \in Session, SessionShutdown(s)
  PROVE  IInv'
<1>1. /\ live' = Without(live, s) /\ ctx' = LatestOf(live') /\ routerCtx' = ctx'
      /\ turn' = Forget(turn, s, EmptyTurn) /\ pin' = Forget(pin, s, EmptyPin)
      /\ phase' = [phase EXCEPT ![s] = "gone"]
      /\ first' = [first EXCEPT ![s] = None] /\ since' = [since EXCEPT ![s] = None]
      /\ others' = [others EXCEPT ![s] = {}] /\ crowded' = crowded \ {s}
      /\ disturbed' = IF \E st \in streams : st.session = s /\ ~st.sub
                      THEN disturbed \cup {s} ELSE disturbed
      /\ clock' = clock /\ fresh' = fresh /\ ran' = ran /\ streams' = streams
  BY DEF SessionShutdown, Go, LeavesStream
<1>2. /\ maxSessions \in Nat \ {0} /\ HistoryOK
      /\ phase \in [Session -> Phases]
      /\ StoreOK(turn, TurnStates, EmptyTurn) /\ StoreOK(pin, PinStates, EmptyPin)
      /\ live \in Seq(Session) /\ Bounded(live) /\ disturbed \subseteq Session
  BY DEF IInv, TypeOK
<1>3. TurnStep(s) /\ turn'.of[s] = EmptyTurn
  <2> DEFINE new == Forget(turn, s, EmptyTurn)
  <2>1. /\ StoreOK(new, TurnStates, EmptyTurn)
        /\ \A q \in Session : new.of[q] = IF q = s THEN EmptyTurn ELSE turn.of[q]
    BY <1>2, StatesTyped, ForgetStore
  <2> HIDE DEF new
  <2>2. turn' = new
    BY <1>1 DEF new
  <2>3. StoreOK(turn, TurnStates, EmptyTurn)'
    BY <2>1, <2>2 DEF StoreOK, Bounded, Held
  <2> QED
    BY <2>1, <2>2, <2>3 DEF TurnStep
<1>4. PinStep(s) /\ pin'.of[s] = EmptyPin /\ first'[s] = None /\ since'[s] = None
  <2> DEFINE new == Forget(pin, s, EmptyPin)
  <2>1. /\ StoreOK(new, PinStates, EmptyPin)
        /\ \A q \in Session : new.of[q] = IF q = s THEN EmptyPin ELSE pin.of[q]
        /\ \A q \in Session \ {s} : \A set : Behind(pin.order, q, set) => Behind(new.order, q, set)
    BY <1>2, StatesTyped, ForgetStore
  <2> HIDE DEF new
  <2>2. pin' = new
    BY <1>1 DEF new
  <2>3. StoreOK(pin, PinStates, EmptyPin)'
    BY <2>1, <2>2 DEF StoreOK, Bounded, Held
  <2>4. /\ first'[s] = None /\ since'[s] = None
        /\ \A q \in Session \ {s} : /\ first'[q] = first[q] /\ since'[q] = since[q]
                                    /\ others'[q] = others[q] /\ (q \in crowded' <=> q \in crowded)
    BY <1>1, <1>2 DEF HistoryOK
  <2>5. HistoryOK'
    <3>1. others' \in [Session -> SUBSET Session] /\ \A q \in Session : IsFiniteSet(others'[q])
      BY <1>1, <1>2, FS_EmptySet DEF HistoryOK
    <3> QED
      BY <1>1, <1>2, <3>1 DEF HistoryOK
  <2>6. \A q \in Session \ {s} : Kept(q) => Kept(q)'
    BY <2>1, <2>2, <2>4 DEF Kept
  <2> QED
    BY <2>1, <2>2, <2>3, <2>4, <2>5, <2>6 DEF PinStep
<1>5. SessionStep(s)
  BY <1>1, <1>2 DEF IInv, TypeOK, SessionStep, Phases
<1>6. ContextStep
  <2>1. /\ live' \in Seq(Session) /\ Distinct(live') /\ Len(live') <= Len(live)
    BY <1>1, <1>2, WithoutProperties DEF Bounded, Distinct
  <2>2. /\ Len(live') \in Nat /\ Len(live) \in Nat /\ Len(live) <= maxSessions
        /\ ToSet(live') = {live'[i] : i \in 1 .. Len(live')}
    BY <1>2, <2>1, ToSetOfSeq DEF Bounded
  <2>3. Len(live') <= maxSessions'
    BY <1>2, <2>1, <2>2
  <2>4. Bounded(live)'
    BY <2>1, <2>3 DEF Bounded, Distinct
  <2>5. live' # <<>> => ctx' \in ToSet(live')
    <3>1. ASSUME live' # <<>> PROVE Len(live') \in 1 .. Len(live')
      BY <2>1, <2>2, <3>1, EmptySeq
    <3> QED
      BY <1>1, <2>2, <3>1 DEF LatestOf
  <2> QED
    BY <1>1, <2>1, <2>4, <2>5 DEF ContextStep, ContextAlive
<1>7. Sound(s)'
  <2>1. phase'[s] = "gone"
    BY <1>1, <1>2
  <2>2. Dated(s)'
    BY <1>1, <1>3, <1>4, <2>1, Known, StatesTyped DEF Dated
  <2>3. Pinned(s)' /\ Own(s)' /\ Kept(s)'
    BY <1>3, <1>4, StatesTyped DEF Pinned, Own, Models, Kept
  <2>4. s \notin disturbed' => Undisturbed(s)'
    <3>1. s \notin disturbed' => \A st \in streams' : st.session = s => st.sub
      BY <1>1
    <3> QED
      BY <2>1, <3>1 DEF Undisturbed
  <2> QED
    BY <2>2, <2>3, <2>4 DEF Sound
<1> QED
  BY <1>3, <1>4, <1>5, <1>6, <1>7, StepPreserves

LEMMA KilledSound ==
  ASSUME IInv, maxSessions' = maxSessions, NEW s \in Session, Killed(s)
  PROVE  IInv'
<1>1. /\ phase' = [phase EXCEPT ![s] = "gone"]
      /\ disturbed' = IF \E st \in streams : st.session = s /\ ~st.sub
                      THEN disturbed \cup {s} ELSE disturbed
      /\ turn' = turn /\ pin' = pin /\ UNCHANGED pinHistory /\ UNCHANGED context
      /\ clock' = clock /\ fresh' = fresh /\ ran' = ran /\ streams' = streams
  BY DEF Killed, Go, LeavesStream, stores
<1>2. SessionStep(s)
  BY <1>1 DEF IInv, TypeOK, SessionStep, Phases
<1>3. Sound(s)'
  <2>1. phase'[s] = "gone"
    BY <1>1 DEF IInv, TypeOK
  <2>2. Dated(s)' /\ Pinned(s)' /\ Own(s)'
    BY <1>1, <2>1, Known DEF Dated, Pinned, Own, Models, pinHistory
  <2>3. s \notin disturbed' => Undisturbed(s)'
    <3>1. s \notin disturbed' => \A st \in streams' : st.session = s => st.sub
      BY <1>1
    <3> QED
      BY <2>1, <3>1 DEF Undisturbed
  <2>4. Kept(s)'
    BY <1>1, Known, PinKept
  <2> QED
    BY <2>2, <2>3, <2>4 DEF Sound
<1> QED
  BY <1>1, <1>2, <1>3, TurnKept, PinKept, ContextKept, StepPreserves

-----------------------------------------------------------------------------
(* The steps of a stream.                                                  *)
LEMMA StreamKnown ==
  ASSUME IInv, NEW st \in streams
  PROVE  /\ st.session \in Session /\ st.sub \in BOOLEAN /\ st.at \in Nat
         /\ clock[st.session] > 0 /\ st \in Streams
<1>1. st \in Streams
  BY DEF IInv, TypeOK
<1>2. st.session \in Session /\ st.sub \in BOOLEAN /\ st.at \in Nat
  BY <1>1 DEF Streams
<1> QED
  BY <1>1, <1>2, Known DEF Dated

\* A stream that goes from its classification to its walk is still the same one.
LEMMA WalkBegins ==
  ASSUME IInv, NEW st \in streams, NEW new, new = [st EXCEPT !.step = "walk"],
         streams' = (streams \ {st}) \cup {new}, phase' = phase, clock' = clock
  PROVE  /\ streams' \subseteq Streams /\ new.session = st.session /\ new.sub = st.sub
         /\ \A x \in streams' : x \in streams \/ x.session = st.session
         /\ \A x \in streams' : x.session = st.session => clock[st.session] > 0
         /\ \A s \in Session : Undisturbed(s) =>
              /\ \A x \in streams' : x.session = s /\ ~x.sub => Awaited(x)'
              /\ \A x, other \in streams' :
                   x.session = s /\ ~x.sub /\ other.session = s /\ ~other.sub => x = other
<1>1. st \in Streams /\ clock[st.session] > 0
  BY StreamKnown
<1>2. new \in Streams /\ new.session = st.session /\ new.sub = st.sub /\ new.at = st.at
  BY <1>1 DEF Streams
<1>3. \A x : Awaited(x)' = Awaited(x)
  BY DEF Awaited
<1>4. Awaited(new) = Awaited(st)
  BY <1>2 DEF Awaited
<1>5. ASSUME NEW s \in Session, Undisturbed(s)
      PROVE  /\ \A x \in streams' : x.session = s /\ ~x.sub => Awaited(x)'
             /\ \A x, other \in streams' :
                  x.session = s /\ ~x.sub /\ other.session = s /\ ~other.sub => x = other
  <2>1. \A x \in streams : x.session = s /\ ~x.sub => Awaited(x)
    BY <1>5 DEF Undisturbed
  <2>2. \A x, other \in streams :
           x.session = s /\ ~x.sub /\ other.session = s /\ ~other.sub => x = other
    BY <1>5 DEF Undisturbed
  <2>3. \A x \in streams' : x.session = s /\ ~x.sub => Awaited(x)'
    BY <1>2, <1>3, <1>4, <2>1
  <2>4. ASSUME st.session = s, ~st.sub PROVE \A x \in streams : x.session = s /\ ~x.sub => x = st
    BY <2>2, <2>4
  <2>5. \A x, other \in streams' :
           x.session = s /\ ~x.sub /\ other.session = s /\ ~other.sub => x = other
    BY <1>2, <2>2, <2>4
  <2> QED
    BY <2>3, <2>5
<1> QED
  BY <1>1, <1>2, <1>5 DEF IInv, TypeOK

LEMMA ClassifiedSound ==
  ASSUME IInv, maxSessions' = maxSessions, NEW st \in streams, NEW g \in Group, Classified(st, g)
  PROVE  IInv'
<1> DEFINE named == [turn.of[st.session] EXCEPT !.last = Selected(st, g), !.run = g,
                                                !.driver = Selected(st, g)]
<1>0. PICK s \in Session : s = st.session
  BY StreamKnown
<1>1. PICK value : value = IF st.sub THEN turn.of[s] ELSE named
  OBVIOUS
<1>2. PICK new : new = [st EXCEPT !.step = "walk"]
  OBVIOUS
<1>3. /\ streams' = (streams \ {st}) \cup {new}
      /\ turn' = Write(turn, s, EmptyTurn, value) /\ disturbed' = disturbed \cup Lost(turn, turn')
      /\ ran' = (IF Awaited(st) THEN [ran EXCEPT ![s] = g] ELSE ran)
      /\ pin' = pin /\ UNCHANGED pinHistory /\ UNCHANGED context
      /\ phase' = phase /\ clock' = clock /\ fresh' = fresh
  BY <1>0, <1>1, <1>2 DEF Classified
<1>4. /\ value \in TurnStates /\ value.start = turn.of[s].start
      /\ st.sub => value = turn.of[s]
      /\ ~st.sub => value.last = Driver[s][g] /\ value.run = g /\ value.driver = Driver[s][g]
  <2>1. turn.of[s] \in TurnStates /\ Driver[s][g] \in Ref
    BY Known, DriversTyped
  <2>2. CASE st.sub
    BY <1>1, <2>1, <2>2
  <2>3. CASE ~st.sub
    <3>1. value = [turn.of[s] EXCEPT !.last = Driver[s][g], !.run = g, !.driver = Driver[s][g]]
      BY <1>0, <1>1, <2>3 DEF Selected
    <3> QED
      BY <2>1, <2>3, <3>1 DEF TurnStates
  <2> QED
    BY <2>2, <2>3
<1> HIDE DEF named
<1>5. /\ TurnStep(s) /\ turn'.of[s] = value
      /\ disturbed \subseteq disturbed' /\ disturbed' \subseteq Session
  BY <1>3, <1>4, TurnWrites
<1>6. /\ streams' \subseteq Streams /\ new.session = s /\ new.sub = st.sub
      /\ \A x \in streams' : x \in streams \/ x.session = s
      /\ \A x \in streams' : x.session = s => clock[s] > 0
      /\ Undisturbed(s) =>
           /\ \A x \in streams' : x.session = s /\ ~x.sub => Awaited(x)'
           /\ \A x, other \in streams' :
                x.session = s /\ ~x.sub /\ other.session = s /\ ~other.sub => x = other
  BY <1>0, <1>2, <1>3, WalkBegins
<1>7. /\ ran' \in [Session -> Group \cup {None}] /\ \A q \in Session \ {s} : ran'[q] = ran[q]
      /\ ran'[s] = IF Awaited(st) THEN g ELSE ran[s]
  BY <1>3 DEF IInv, TypeOK
<1>8. SessionStep(s)
  BY <1>3, <1>5, <1>6, <1>7 DEF IInv, TypeOK, SessionStep
<1>9. Sound(s)'
  <2>1. Dated(s)'
    BY <1>3, <1>4, <1>5, <1>6, Known DEF Dated
  <2>2. Pinned(s)'
    BY <1>3, Known DEF Pinned, pinHistory
  <2>3. Own(s)'
    <3>1. Own(s) /\ Driver[s][g] \in Models(s)
      BY Known, DriversTyped
    <3>2. {value.last, value.driver} \subseteq Models(s) \cup {None}
      BY <1>4, <3>1 DEF Own
    <3> QED
      BY <1>3, <1>5, <3>1, <3>2 DEF Own, Models
  <2>4. ASSUME s \notin disturbed' PROVE Undisturbed(s)'
    <3>1. s \notin disturbed /\ Undisturbed(s)
      BY <1>5, <2>4, Known
    <3>2. ~st.sub => Awaited(st)
      BY <1>0, <3>1 DEF Undisturbed
    <3>3. \/ phase[s] \in {"streaming", "acting", "delegating", "switching", "more"}
          \/ phase[s] = "started" /\ ~fresh[s]
          => turn'.of[s].run = ran'[s]
      <4>1. CASE st.sub
        <5>1. ~Awaited(st)
          BY <4>1 DEF Awaited
        <5> QED
          BY <1>4, <1>5, <1>7, <3>1, <4>1, <5>1 DEF Undisturbed
      <4>2. CASE ~st.sub
        BY <1>4, <1>5, <1>7, <3>2, <4>2
      <4> QED
        BY <4>1, <4>2
    <3> QED
      BY <1>3, <1>6, <3>1, <3>3 DEF Undisturbed
  <2>5. Kept(s)'
    BY <1>3, Known, PinKept
  <2> QED
    BY <2>1, <2>2, <2>3, <2>4, <2>5 DEF Sound
<1> QED
  BY <1>3, <1>5, <1>8, <1>9, PinKept, ContextKept, StepPreserves

LEMMA HandsOverSound ==
  ASSUME IInv, maxSessions' = maxSessions, NEW st \in streams, HandsOver(st),
         UNCHANGED <<stores, context, clock, fresh, history>>
  PROVE  IInv'
<1>0. PICK s \in Session : s = st.session
  BY StreamKnown
<1>1. PICK awaited \in BOOLEAN :
        awaited = (Awaited(st) \/ (st.sub /\ st.at = clock[s] /\ phase[s] = "delegating"))
  OBVIOUS
<1>2. /\ streams' = streams \ {st}
      /\ phase' = IF awaited THEN [phase EXCEPT ![s] = "acting"] ELSE phase
      /\ turn' = turn /\ pin' = pin /\ UNCHANGED pinHistory /\ disturbed' = disturbed /\ ran' = ran
      /\ clock' = clock /\ fresh' = fresh /\ UNCHANGED context
  BY <1>0, <1>1 DEF HandsOver, stores, history
<1>3. /\ phase' \in [Session -> Phases] /\ \A q \in Session \ {s} : phase'[q] = phase[q]
      /\ phase'[s] = IF awaited THEN "acting" ELSE phase[s]
  BY <1>2 DEF IInv, TypeOK, Phases
<1>4. SessionStep(s)
  BY <1>2, <1>3 DEF IInv, TypeOK, SessionStep
<1>5. Sound(s)'
  <2>1. Dated(s)'
    BY <1>0, <1>2, <1>3, Known, StreamKnown DEF Dated
  <2>2. Pinned(s)' /\ Own(s)'
    BY <1>2, Known DEF Pinned, Own, Models, pinHistory
  <2>3. ASSUME s \notin disturbed' PROVE Undisturbed(s)'
    <3>1. s \notin disturbed /\ Undisturbed(s)
      BY <1>2, <2>3, Known
    <3>2. CASE awaited
      <4>1. phase[s] \in {"streaming", "delegating"}
        BY <1>0, <1>1, <3>2 DEF Awaited
      <4>2. \A x \in streams' : x.session = s => x.sub
        <5>1. CASE Awaited(st)
          BY <1>0, <1>2, <3>1, <5>1 DEF Undisturbed, Awaited
        <5>2. CASE phase[s] = "delegating"
          BY <1>2, <3>1, <5>2, NoneOpen
        <5> QED
          BY <1>1, <3>2, <5>1, <5>2
      <4>3. turn'.of[s].run = ran'[s]
        BY <1>2, <3>1, <4>1 DEF Undisturbed
      <4> QED
        BY <4>2, <4>3 DEF Undisturbed
    <3>3. CASE ~awaited
      BY <1>2, <1>3, <3>1, <3>3 DEF Undisturbed, Awaited
    <3> QED
      BY <3>2, <3>3
  <2>4. Kept(s)'
    BY <1>2, Known, PinKept
  <2> QED
    BY <2>1, <2>2, <2>3, <2>4 DEF Sound
<1> QED
  BY <1>2, <1>4, <1>5, TurnKept, PinKept, ContextKept, StepPreserves

LEMMA StreamEndsSound ==
  ASSUME IInv, maxSessions' = maxSessions, NEW st \in streams, StreamEnds(st)
  PROVE  IInv'
BY HandsOverSound DEF StreamEnds

LEMMA ClassificationFailsSound ==
  ASSUME IInv, maxSessions' = maxSessions, NEW st \in streams, NEW up \in SUBSET Group,
         ClassificationFails(st, up)
  PROVE  IInv'
<1>0. UNCHANGED <<stores, context, clock, fresh, history>>
  BY DEF ClassificationFails
<1>1. CASE HandsOver(st)
  BY <1>0, <1>1, HandsOverSound
<1>2. CASE streams' = (streams \ {st}) \cup {[st EXCEPT !.step = "walk"]} /\ phase' = phase
  <2>0. PICK s \in Session : s = st.session
    BY StreamKnown
  <2>1. PICK new : new = [st EXCEPT !.step = "walk"]
    OBVIOUS
  <2>2. /\ streams' = (streams \ {st}) \cup {new}
        /\ turn' = turn /\ pin' = pin /\ UNCHANGED pinHistory /\ disturbed' = disturbed /\ ran' = ran
        /\ phase' = phase /\ clock' = clock /\ fresh' = fresh /\ UNCHANGED context
    BY <1>0, <1>2, <2>1 DEF stores, history
  <2>3. /\ streams' \subseteq Streams
        /\ \A x \in streams' : x \in streams \/ x.session = s
        /\ \A x \in streams' : x.session = s => clock[s] > 0
        /\ Undisturbed(s) =>
             /\ \A x \in streams' : x.session = s /\ ~x.sub => Awaited(x)'
             /\ \A x, other \in streams' :
                  x.session = s /\ ~x.sub /\ other.session = s /\ ~other.sub => x = other
    BY <2>0, <2>1, <2>2, WalkBegins
  <2>4. SessionStep(s)
    BY <2>2, <2>3 DEF IInv, TypeOK, SessionStep
  <2>5. Sound(s)'
    <3>1. Dated(s)' /\ Pinned(s)' /\ Own(s)'
      BY <2>2, <2>3, Known DEF Dated, Pinned, Own, Models, pinHistory
    <3>2. s \notin disturbed' => Undisturbed(s)'
      BY <2>2, <2>3, Known DEF Undisturbed
    <3>3. Kept(s)'
      BY <2>2, Known, PinKept
    <3> QED
      BY <3>1, <3>2, <3>3 DEF Sound
  <2> QED
    BY <2>2, <2>4, <2>5, TurnKept, PinKept, ContextKept, StepPreserves
<1> QED
  BY <1>1, <1>2 DEF ClassificationFails

LEMMA ServeSound ==
  ASSUME IInv, maxSessions' = maxSessions, NEW st \in streams, NEW g \in Group,
         Serve(st, Selected(st, g))
  PROVE  IInv'
<1>0. PICK s \in Session : s = st.session
  BY StreamKnown
<1>1. PICK ref : ref = Driver[s][g]
  OBVIOUS
<1>2. PICK value : value = [turn.of[s] EXCEPT !.last = ref]
  OBVIOUS
<1>3. /\ Noted(s, ref)
      /\ turn' = Write(turn, s, EmptyTurn, value) /\ disturbed' = disturbed \cup Lost(turn, turn')
      /\ UNCHANGED context
      /\ phase' = phase /\ clock' = clock /\ fresh' = fresh /\ streams' = streams /\ ran' = ran
  <2>1. ~st.sub
    BY DEF Serve
  <2>2. Selected(st, g) = ref
    BY <1>0, <1>1, <2>1 DEF Selected
  <2> QED
    BY <1>0, <1>2, <2>2 DEF Serve
<1>4. ref \in Ref /\ ref \in Models(s) /\ clock[s] > 0
  BY <1>0, <1>1, DriversTyped, StreamKnown
<1>5. /\ value \in TurnStates /\ value.start = turn.of[s].start /\ value.last = ref
      /\ value.run = turn.of[s].run /\ value.driver = turn.of[s].driver
  BY <1>2, <1>4, Known DEF TurnStates
<1>6. /\ TurnStep(s) /\ turn'.of[s] = value
      /\ disturbed \subseteq disturbed' /\ disturbed' \subseteq Session
  BY <1>3, <1>5, TurnWrites
<1>7. /\ PinStep(s) /\ Kept(s)'
      /\ pin'.of[s].cur = ref /\ pin'.of[s].curAt = clock[s]
      /\ pin'.of[s].boundary = pin.of[s].boundary
      /\ pin'.of[s].driver = since'[s] /\ pin'.of[s].driverAt = clock[s]
      /\ since'[s] # None /\ first'[s] # None
      /\ pin'.of[s].driver \in {ref, pin.of[s].driver}
  BY <1>3, <1>4, NotedKeepsDriver
<1>8. SessionStep(s)
  BY <1>3, <1>6 DEF IInv, TypeOK, SessionStep
<1>9. Sound(s)'
  <2>1. Dated(s)'
    BY <1>3, <1>4, <1>5, <1>6, <1>7, Known DEF Dated
  <2>2. Pinned(s)'
    BY <1>3, <1>4, <1>7 DEF Pinned
  <2>3. Own(s)'
    BY <1>4, <1>5, <1>6, <1>7, Known DEF Own, Models
  <2>4. s \notin disturbed' => Undisturbed(s)'
    BY <1>3, <1>5, <1>6, Known DEF Undisturbed, Awaited
  <2> QED
    BY <1>7, <2>1, <2>2, <2>3, <2>4 DEF Sound
<1> QED
  BY <1>3, <1>6, <1>7, <1>8, <1>9, ContextKept, StepPreserves

-----------------------------------------------------------------------------
LEMMA InitSound == Init => IInv
<1> SUFFICES ASSUME Init PROVE IInv
  OBVIOUS
<1>1. maxSessions \in Nat \ {0}
  BY SessionsAssumption DEF Init
<1>2. <<>> \in Seq(Session) /\ Bounded(<<>>)
  BY <1>1, EmptySeq DEF Bounded
<1>3. StoreOK(turn, TurnStates, EmptyTurn) /\ StoreOK(pin, PinStates, EmptyPin)
  BY <1>2, StatesTyped DEF Init, StoreOK
<1>4. TypeOK
  <2>1. HistoryOK
    BY FS_EmptySet DEF Init, HistoryOK
  <2> QED
    BY <1>1, <1>2, <1>3, <2>1 DEF Init, TypeOK, Phases
<1>5. ContextAlive
  BY DEF Init, ContextAlive
<1>6. ASSUME NEW s \in Session PROVE Sound(s)
  BY StatesTyped DEF Init, Sound, Dated, Pinned, Kept, Own, Models, Undisturbed
<1> QED
  BY <1>4, <1>5, <1>6 DEF IInv

LEMMA NextSound == IInv /\ [Next]_vars => IInv'
<1> SUFFICES ASSUME IInv, [Next]_vars PROVE IInv'
  OBVIOUS
<1>1. ASSUME NEW s \in Session, UNCHANGED maxSessions,
             \/ SessionStart(s) \/ TurnStart(s)
             \/ \E up \in SUBSET Group : FollowUp(s, up)
             \/ \E hinted \in BOOLEAN : NewTurn(s, hinted)
             \/ ToolCall(s) \/ SubCall(s) \/ Load(s) \/ SetModelFails(s) \/ TurnEnd(s)
             \/ SessionShutdown(s) \/ Killed(s)
             \/ \E ref \in Models(s) : SetModel(s, ref)
      PROVE  IInv'
  BY <1>1, SessionStartSound, TurnStartSound, FollowUpSound, NewTurnSound, ToolCallSound,
     SubCallSound, LoadSound, SetModelFailsSound, TurnEndSound, SessionShutdownSound, KilledSound, SetModelSound
<1>2. ASSUME NEW st \in streams, UNCHANGED maxSessions,
             \/ \E g \in Group : Classified(st, g) \/ Serve(st, Selected(st, g))
             \/ \E up \in SUBSET Group : ClassificationFails(st, up)
             \/ StreamEnds(st)
      PROVE  IInv'
  BY <1>2, ClassifiedSound, ServeSound, ClassificationFailsSound, StreamEndsSound
<1>3. CASE UNCHANGED vars
  <2>1. UNCHANGED <<maxSessions, stores, context, phase, clock, fresh, streams, pinHistory, ran, disturbed>>
    BY <1>3 DEF vars, stores, context, pinHistory
  <2>2. TypeOK' /\ ContextAlive'
    BY <2>1 DEF IInv, TypeOK, HistoryOK, StoreOK, Bounded, Held, ContextAlive, stores, context,
              pinHistory, TurnStates, PinStates
  <2>3. ASSUME NEW s \in Session PROVE Sound(s)'
    <3>1. Dated(s)' /\ Pinned(s)' /\ Own(s)'
      BY <2>1, Known DEF Dated, Pinned, Own, Models, stores, pinHistory
    <3>2. s \in disturbed' \/ Undisturbed(s)'
      BY <2>1, Known DEF Undisturbed, Awaited, stores
    <3>3. Kept(s)'
      BY <2>1, Known DEF Kept, stores, pinHistory
    <3> QED
      BY <3>1, <3>2, <3>3 DEF Sound
  <2> QED
    BY <2>2, <2>3 DEF IInv
<1> QED
  BY <1>1, <1>2, <1>3 DEF Next, Step

LEMMA Inductive == Spec => []IInv
BY InitSound, NextSound, PTL DEF Spec

-----------------------------------------------------------------------------
LEMMA SoundIsPinned == IInv => DriverPinned
<1> SUFFICES ASSUME IInv, NEW s \in Session
             PROVE  /\ first[s] # None /\ s \notin crowded => ReadBlockRef(s) = first[s]
                    /\ since[s] # None => ReadBlockRef(s) = since[s]
                    /\ since[s] = None /\ turn.of[s].start = clock[s] => ReadBlockRef(s) = None
  BY DEF DriverPinned
<1>1. /\ turn.of[s] \in TurnStates /\ pin.of[s] \in PinStates
      /\ clock[s] \in Nat /\ Dated(s) /\ Pinned(s) /\ Kept(s)
  BY Known
<1>2. /\ turn.of[s].start \in Nat /\ pin.of[s].driverAt \in Nat /\ pin.of[s].curAt \in Nat
  BY <1>1 DEF TurnStates, PinStates
<1>3. ASSUME since[s] # None PROVE ReadBlockRef(s) = since[s]
  <2>1. pin.of[s].driver = since[s] /\ pin.of[s].driverAt = clock[s] /\ turn.of[s].start <= clock[s]
    BY <1>1, <1>3 DEF Pinned, Dated
  <2>2. TurnDriverRef(s) = since[s]
    BY <1>1, <1>2, <2>1 DEF TurnDriverRef
  <2> QED
    BY <1>3, <2>2 DEF ReadBlockRef
<1>4. ASSUME since[s] = None, turn.of[s].start = clock[s] PROVE ReadBlockRef(s) = None
  <2>1. CASE pin.of[s].driverAt = 0 /\ pin.of[s].driver = None /\ pin.of[s].cur = None
    BY <2>1 DEF ReadBlockRef, TurnDriverRef, CurModel
  <2>2. CASE pin.of[s].driverAt < clock[s] /\ pin.of[s].curAt < clock[s]
    <3>1. /\ turn.of[s].start > 0 /\ pin.of[s].driverAt < turn.of[s].start
          /\ pin.of[s].curAt < turn.of[s].start
      BY <1>1, <1>2, <1>4, <2>2
    <3> QED
      BY <3>1 DEF ReadBlockRef, TurnDriverRef, CurModel
  <2> QED
    BY <1>1, <1>4, <2>1, <2>2 DEF Pinned
<1>5. first[s] # None /\ s \notin crowded => since[s] = first[s]
  BY <1>1 DEF Kept
<1> QED
  BY <1>3, <1>4, <1>5

(* Whatever sub-calls, other sessions and Router replacements come in      *)
(* between, the read block judges the first model the open turn recorded   *)
(* as long as fewer other sessions than the store holds have used it since *)
(* this one did; after an eviction the first one recorded since; and never *)
(* a model of an earlier turn (SessionStore; noteTurnStart, setCurModel,   *)
(* getTurnDriverRef in routing.ts).                                        *)
THEOREM FirstModelDrives == Spec => []DriverPinned
BY Inductive, SoundIsPinned, PTL

(* Whatever a session's entries name is a model of that very session, and  *)
(* the stores stay bounded, hold a session at most once and nothing of one *)
(* they do not hold (SessionStore in turn-state.ts, the sub-call scope).   *)
THEOREM StateIsOwn == Spec => []OwnState
<1>1. IInv => OwnState
  BY DEF IInv, TypeOK, StoreOK, TurnStates, PinStates, OwnState, WellFormed, Sound, Own
<1> QED
  BY <1>1, Inductive, PTL

(* The Router's context is that of a session that started and has not shut *)
(* down, as long as one is known (LiveSessionContexts).                    *)
THEOREM ContextOutlivesChildren == Spec => []ContextAlive
<1>1. IInv => ContextAlive
  BY DEF IInv
<1> QED
  BY <1>1, Inductive, PTL

(* A tool follow-up continues in the group its own prompt was classified   *)
(* into while that resolves, else in the base group (planToolFollowUp), in *)
(* a session that lost no entry and left no stream behind.                 *)
THEOREM FollowUpsContinue == Spec => FollowUpContinues
<1>1. IInv /\ [Next]_vars => [\A s \in Session \ disturbed : \A up \in SUBSET Group : StaysInRun(s, up)]_vars
  <2> SUFFICES ASSUME IInv, NEW s \in Session \ disturbed, NEW up \in SUBSET Group,
                      FollowUp(s, up), NEW st \in streams' \ streams
               PROVE  st.group = IF ran[s] \in up THEN ran[s] ELSE BaseGroup(up)
    BY DEF StaysInRun
  <2>1. phase[s] = "started" /\ ~fresh[s] /\ st.group = FollowUpGroup(turn.of[s].run, up)
    BY DEF FollowUp, IsFollowUp, Opened
  <2>2. turn.of[s].run = ran[s]
    BY <2>1, Known DEF Undisturbed
  <2> QED
    BY <2>1, <2>2 DEF FollowUpGroup, BaseGroup
<1> QED
  BY <1>1, Inductive, PTL DEF Spec, FollowUpContinues

-----------------------------------------------------------------------------
(* Escalation.  EscalationInv is inductive as it stands: CallMeaning says  *)
(* what an open check may still do, PendingMeaning ties the flag to the    *)
(* history, and EarnedLevel needs CallMeaning for the answer that raises.  *)
EscalationIInv == EscalationInv /\ EarnedLevel

\* The starting state satisfies the invariant.
LEMMA EscalationInitHolds == EscalationInit => EscalationIInv
<1> SUFFICES ASSUME EscalationInit PROVE EscalationIInv
  OBVIOUS
<1>1. EscalationType
  <2>1. level \in Levels /\ streak \in 0..(Threshold - 1) /\ turnCount \in 0..(Cadence + 1)
        /\ checks \in 0..2
    BY EscalationAssumption DEF EscalationInit, Levels
  <2>2. pending \in BOOLEAN /\ evidence \in BOOLEAN /\ call \in Calls \cup {NoCall}
    BY Zenon DEF EscalationInit
  <2> QED
    BY <2>1, <2>2 DEF EscalationType
<1>2. PendingMeaning /\ CallMeaning /\ EarnedLevel
  BY DEF EscalationInit, PendingMeaning, CallMeaning, EarnedLevel
<1> QED
  BY <1>1, <1>2 DEF EscalationIInv, EscalationInv

\* reset() preserves it: an open check stops counting.
LEMMA ResetSteps == EscalationIInv /\ Reset => EscalationIInv'
<1> SUFFICES ASSUME EscalationIInv, Reset PROVE EscalationIInv'
  OBVIOUS
<1> USE EscalationAssumption
<1>1. call' \in Calls \cup {NoCall} /\ (call' # NoCall => ~call'.current)
  BY DEF EscalationIInv, EscalationInv, EscalationType, Reset, Calls
<1>2. EscalationType'
  <2>1. level' \in Levels /\ streak' \in 0..(Threshold - 1) /\ turnCount' \in 0..(Cadence + 1)
        /\ checks' \in 0..2
    BY DEF Reset, Levels
  <2>2. pending' \in BOOLEAN /\ evidence' \in BOOLEAN
    BY Zenon DEF Reset
  <2> QED
    BY <1>1, <2>1, <2>2 DEF EscalationType
<1>3. PendingMeaning' /\ CallMeaning' /\ EarnedLevel'
  BY <1>1 DEF Reset, PendingMeaning, CallMeaning, EarnedLevel
<1> QED
  BY <1>2, <1>3 DEF EscalationIInv, EscalationInv

\* recordTurn() preserves it, whether or not it begins a check.
LEMMA RecordTurnSteps ==
    ASSUME EscalationIInv, NEW half \in Halves, RecordTurn(half)
    PROVE  EscalationIInv'
<1> USE EscalationAssumption
<1> DEFINE raised == Raises(half) /\ level # Top
<1>1. /\ level \in Levels /\ streak \in 0..(Threshold - 1) /\ turnCount \in 0..(Cadence + 1)
      /\ pending \in BOOLEAN /\ call \in Calls \cup {NoCall} /\ checks \in 0..2
      /\ evidence \in BOOLEAN /\ PendingMeaning /\ CallMeaning /\ EarnedLevel
  BY DEF EscalationIInv, EscalationInv, EscalationType
<1>2. raised \in BOOLEAN
  BY DEF Raises
<1>3. /\ level' \in Levels /\ level' >= level
      /\ raised => level' > level
      /\ ~raised => level' = level
  BY <1>1 DEF RecordTurn, NextLevel, Levels
<1>4. streak' \in 0..(Threshold - 1)
  BY <1>1 DEF RecordTurn, StreakAfter, Raises, Halves, Prompts
<1>5. turnCount' \in 0..(Cadence + 1)
  BY <1>1 DEF RecordTurn, Counted
<1>6. NoCheck(raised) \/ \E hasModel \in BOOLEAN : Dispatches(hasModel, raised)
  BY DEF RecordTurn
<1> HIDE DEF raised
<1>7. CASE NoCheck(raised)
  <2>1. /\ pending' = (pending \/ raised) /\ checks' = IF raised THEN 0 ELSE checks
        /\ evidence' = (evidence \/ raised) /\ call' = call
    BY <1>7 DEF NoCheck, ChecksBefore
  <2>2. EscalationType'
    BY <1>1, <1>2, <1>3, <1>4, <1>5, <2>1 DEF EscalationType
  <2>3. PendingMeaning'
    BY <1>1, <1>2, <2>1 DEF PendingMeaning
  <2>4. CallMeaning'
    BY <1>1, <1>2, <1>3, <2>1 DEF CallMeaning, Calls, Levels
  <2>5. EarnedLevel'
    BY <1>1, <1>2, <1>3, <2>1 DEF EarnedLevel, Levels
  <2> QED
    BY <2>2, <2>3, <2>4, <2>5 DEF EscalationIInv, EscalationInv
<1>8. CASE \E hasModel \in BOOLEAN : Dispatches(hasModel, raised) /\ ~NoCheck(raised)
  <2>1. /\ call' = [level |-> level', muted |-> pending \/ raised, current |-> TRUE]
        /\ pending' = FALSE /\ evidence' = TRUE
        /\ checks' = IF (IF raised THEN 0 ELSE checks) = 0 THEN 1 ELSE 2
    BY <1>8 DEF Dispatches, ChecksBefore
  <2>2. call' \in Calls
    BY <1>1, <1>2, <1>3, <2>1 DEF Calls
  <2>3. EscalationType'
    <3>1. pending' \in BOOLEAN /\ evidence' \in BOOLEAN
      BY <2>1, Zenon
    <3>2. checks' \in 0..2
      BY <2>1
    <3> QED
      BY <1>3, <1>4, <1>5, <2>2, <3>1, <3>2 DEF EscalationType
  <2>4. PendingMeaning'
    BY <2>1 DEF PendingMeaning
  <2>5. ~call'.muted => checks' = 2
    BY <1>1, <1>2, <2>1 DEF PendingMeaning
  <2>6. CallMeaning'
    BY <1>3, <2>1, <2>5 DEF CallMeaning, Levels
  <2>7. EarnedLevel'
    BY <2>1 DEF EarnedLevel
  <2> QED
    BY <2>3, <2>4, <2>6, <2>7 DEF EscalationIInv, EscalationInv
<1> QED
  BY <1>6, <1>7, <1>8

\* The answer of a check preserves it: it raises only for its own session.
LEMMA AnsweredSteps ==
    ASSUME EscalationIInv, NEW loop \in BOOLEAN, Answered(loop)
    PROVE  EscalationIInv'
<1> USE EscalationAssumption
<1>1. level \in Levels /\ call \in Calls /\ CallMeaning /\ EarnedLevel
  BY DEF EscalationIInv, EscalationInv, EscalationType, Answered
<1>2. level' \in Levels /\ (level' # level => call.current)
  BY <1>1 DEF Answered, NextLevel, Levels
<1>3. EscalationType' /\ PendingMeaning' /\ CallMeaning'
  BY <1>2 DEF EscalationIInv, EscalationInv, EscalationType, PendingMeaning, CallMeaning, Answered
<1>4. EarnedLevel'
  BY <1>1, <1>2 DEF EarnedLevel, CallMeaning, Answered
<1> QED
  BY <1>3, <1>4 DEF EscalationIInv, EscalationInv

\* Every step preserves the invariant.
LEMMA EscalationSteps == EscalationIInv /\ [EscalationNext]_escalationVars => EscalationIInv'
<1> SUFFICES ASSUME EscalationIInv, [EscalationNext]_escalationVars PROVE EscalationIInv'
  OBVIOUS
<1>1. CASE Reset
  BY <1>1, ResetSteps
<1>2. ASSUME NEW half \in Halves, RecordTurn(half) PROVE EscalationIInv'
  BY <1>2, RecordTurnSteps
<1>3. ASSUME NEW reply \in Replies, Answered(ShouldEscalate(reply)) PROVE EscalationIInv'
  <2>1. ShouldEscalate(reply) \in BOOLEAN
    BY DEF ShouldEscalate
  <2> QED
    BY <1>3, <2>1, AnsweredSteps
<1>4. CASE UNCHANGED escalationVars
  BY <1>4 DEF escalationVars, EscalationIInv, EscalationInv, EarnedLevel, EscalationType,
              PendingMeaning, CallMeaning
<1> QED
  BY <1>1, <1>2, <1>3, <1>4 DEF EscalationNext

\* The flags and the open check always mean what the code takes them for.
THEOREM EscalationInvariant == EscalationSpec => []EscalationInv
<1>1. EscalationIInv => EscalationInv
  BY DEF EscalationIInv
<1> QED
  BY EscalationInitHolds, EscalationSteps, <1>1, PTL DEF EscalationSpec

\* No level without evidence from the running session: reset() really starts
\* over, although it cannot cancel the open check.
THEOREM EveryLevelEarned == EscalationSpec => []EarnedLevel
<1>1. EscalationIInv => EarnedLevel
  BY DEF EscalationIInv
<1> QED
  BY EscalationInitHolds, EscalationSteps, <1>1, PTL DEF EscalationSpec

\* The two detectors never raise twice for one incident.
THEOREM RaisesNeverStack == EscalationSpec => NoStackedRaise
<1>1. EscalationIInv /\ [EscalationNext]_escalationVars =>
        [(\E loop \in BOOLEAN : Answered(loop)) /\ level' # level => checks = 2]_escalationVars
  <2> SUFFICES ASSUME EscalationIInv, NEW loop \in BOOLEAN, Answered(loop), level' # level
               PROVE  checks = 2
    OBVIOUS
  <2>1. call # NoCall /\ ~call.muted /\ level = call.level /\ call.current
    BY DEF Answered
  <2> QED
    BY <2>1 DEF EscalationIInv, EscalationInv, CallMeaning
<1> QED
  BY EscalationInitHolds, EscalationSteps, <1>1, PTL DEF EscalationSpec, NoStackedRaise
=============================================================================
