------------------------ MODULE ConsumeDetectionProofs ------------------------
(***************************************************************************)
(* Proofs about ConsumeDetection, for any number of attempts and events.   *)
(* A step changes one attempt and appends items to the proxy.  What a step *)
(* of an attempt whose loop is attached owes to the invariant is LiveStep, *)
(* a statement about that attempt's new record and its items; the invariant*)
(* follows from it once for all events (LivePreserves).                    *)
(***************************************************************************)
EXTENDS ConsumeDetection, SequenceTheorems, TLAPS

-----------------------------------------------------------------------------
\* The loop of an attempt is attached: it may still write.
Live(s) == s.reading /\ ~s.abandoned

\* The attempt has had its turn.
Started(s) == s.reading \/ s.verdict # "none"

\* The user's stream has been ended by this attempt, or is about to be judged so.
Closed(s) == (Live(s) /\ s.terminal) \/ s.verdict \in {"ok", "aborted"}

\* The final error of the walk has been written.
Finished == \E i \in DOMAIN proxy : proxy[i].from = 0

(* What the fields of an attempt say of each other.                        *)
Placed(s) ==
    /\ s.held # <<>> => s.hold /\ s.heldText /\ Live(s) /\ ~s.terminal
    /\ Live(s) => s.verdict = "none" /\ s.found = {}
    /\ s.verdict = "ok" => s.terminal \/ s.drained
    /\ Live(s) /\ s.terminal => s.had /\ ~s.hold
    /\ s.abandoned => s.verdict \in {"empty_timeout", "stall_timeout"}
    /\ ~Started(s) => s.n = 0 /\ ~s.abandoned /\ ~s.terminal /\ s.found = {}

(* With k events shown: what is held comes next, and nothing is missing    *)
(* while the loop runs or when the attempt succeeded.                      *)
Accounted(s, a, k) ==
    /\ Follow(s.held, a, k)
    /\ Live(s) /\ ~s.terminal => s.n = k + Len(s.held)
    /\ Live(s) /\ s.terminal => s.n = k
    /\ s.verdict = "ok" => s.n = k
    /\ ~Started(s) => k = 0

(* Text is shown only when the opening is no longer held.                  *)
NoText(a) == \A i \in From(a) : proxy[i].kind # "text"

Withheld(s, a) ==
    /\ s.verdict = "tool_markup_as_text" => NoText(a)
    /\ (Live(s) \/ ~Started(s)) /\ s.hold => NoText(a)

(* An attempt that has received its terminal event has put it on the proxy. *)
Capped(a) ==
    at[a].terminal /\ (Live(at[a]) \/ at[a].verdict = "ok") =>
        \E i \in From(a) : proxy[i] = Item(a, at[a].n, "end")

(* An end on the proxy is the walk's, an intruder's, or of an attempt that  *)
(* is done: nobody is left to write.                                       *)
EndsOwned ==
    \A i \in Ended : proxy[i].from # 0 =>
        proxy[i].from \in Intruders \/ Closed(at[proxy[i].from])

(* Nothing is behind an end, but where an intruder is one of the two.      *)
EndsApart ==
    \A i \in Ended, j \in DOMAIN proxy :
        i < j => {proxy[i].from, proxy[j].from} \cap Intruders # {}

IInv ==
    /\ at \in [Attempts -> AttemptType]
    /\ proxy \in Seq(ItemType)
    /\ \A a \in Attempts : Placed(at[a])
    /\ \A a \in Attempts : Intrudes(a) \/
          \E k \in 0 .. Events + 1 : ShownUpTo(a, k) /\ Accounted(at[a], a, k)
    /\ \A a \in Attempts : Withheld(at[a], a)
    /\ \A a, b \in Attempts : Started(at[a]) /\ b < a => at[b].verdict \in Failed
    /\ Finished => \A a \in Attempts : at[a].verdict \in Failed
    /\ \A a \in Attempts : Capped(a)
    /\ EndsOwned /\ EndsApart

-----------------------------------------------------------------------------
(* Items are appended to the proxy.                                        *)
\* Items of attempt a that follow its first k, its end among them or not.
Written(items, a, k) == \A i \in DOMAIN items : items[i] = Item(a, k + i, items[i].kind)

LEMMA Pushed ==
  ASSUME proxy \in Seq(ItemType), NEW items \in Seq(ItemType), proxy' = proxy \o items
  PROVE  /\ proxy' \in Seq(ItemType)
         /\ Len(proxy) \in Nat /\ Len(items) \in Nat /\ Len(proxy') = Len(proxy) + Len(items)
         /\ DOMAIN proxy = 1 .. Len(proxy) /\ DOMAIN items = 1 .. Len(items)
         /\ DOMAIN proxy' = 1 .. Len(proxy) + Len(items)
         /\ \A i \in 1 .. Len(proxy) : proxy'[i] = proxy[i]
         /\ \A i \in 1 .. Len(items) : proxy'[Len(proxy) + i] = items[i]
         /\ \A i \in Len(proxy) + 1 .. Len(proxy) + Len(items) :
               proxy'[i] = items[i - Len(proxy)] /\ i - Len(proxy) \in 1 .. Len(items)
<1>1. /\ proxy \o items \in Seq(ItemType)
      /\ Len(proxy \o items) = Len(proxy) + Len(items)
      /\ \A i \in 1 .. Len(proxy) + Len(items) : (proxy \o items)[i] =
            IF i <= Len(proxy) THEN proxy[i] ELSE items[i - Len(proxy)]
  BY ConcatProperties
<1>2. /\ DOMAIN proxy = 1 .. Len(proxy) /\ DOMAIN items = 1 .. Len(items)
      /\ DOMAIN proxy' = 1 .. Len(proxy') /\ Len(proxy) \in Nat /\ Len(items) \in Nat
  BY <1>1, LenProperties
<1>3. \A i \in 1 .. Len(proxy) : proxy'[i] = proxy[i]
  BY <1>1, <1>2
<1>4. ASSUME NEW i \in 1 .. Len(items) PROVE proxy'[Len(proxy) + i] = items[i]
  <2>1. /\ Len(proxy) + i \in 1 .. Len(proxy) + Len(items)
        /\ ~(Len(proxy) + i <= Len(proxy)) /\ Len(proxy) + i - Len(proxy) = i
    BY <1>2
  <2> QED
    BY <1>1, <2>1
<1>5. ASSUME NEW i \in Len(proxy) + 1 .. Len(proxy) + Len(items)
      PROVE  proxy'[i] = items[i - Len(proxy)] /\ i - Len(proxy) \in 1 .. Len(items)
  <2>1. /\ i \in 1 .. Len(proxy) + Len(items) /\ ~(i <= Len(proxy))
        /\ i - Len(proxy) \in 1 .. Len(items)
    BY <1>2
  <2> QED
    BY <1>1, <2>1
<1> QED
  BY <1>1, <1>2, <1>3, <1>4, <1>5

(* What is new on the proxy is one of them.                                *)
LEMMA NewItems ==
  ASSUME proxy \in Seq(ItemType), NEW items \in Seq(ItemType), proxy' = proxy \o items,
         NEW a, \A i \in DOMAIN items : items[i].from = a
  PROVE  \A i \in DOMAIN proxy' \ DOMAIN proxy : proxy'[i].from = a
<1> SUFFICES ASSUME NEW i \in DOMAIN proxy' \ DOMAIN proxy PROVE proxy'[i].from = a
  OBVIOUS
<1>1. /\ i \in 1 .. Len(proxy) + Len(items) /\ ~(i \in 1 .. Len(proxy))
      /\ Len(proxy) \in Nat /\ Len(items) \in Nat
  BY Pushed
<1>2. i \in Len(proxy) + 1 .. Len(proxy) + Len(items)
  BY <1>1
<1> QED
  BY <1>2, Pushed

(* They leave what an attempt that wrote none of them has shown.           *)
LEMMA OthersKeep ==
  ASSUME proxy \in Seq(ItemType), NEW items \in Seq(ItemType), proxy' = proxy \o items,
         NEW b, \A i \in DOMAIN items : items[i].from # b
  PROVE  /\ From(b)' = From(b)
         /\ \A i \in From(b) : proxy'[i] = proxy[i]
         /\ \A k \in Nat : ShownUpTo(b, k) => ShownUpTo(b, k)'
         /\ NoText(b) => NoText(b)'
<1>1. From(b)' \subseteq From(b)
  <2> SUFFICES ASSUME NEW i \in From(b)' PROVE i \in From(b)
    OBVIOUS
  <2>1. i \in 1 .. Len(proxy) + Len(items) /\ proxy'[i].from = b /\ Len(proxy) \in Nat /\ Len(items) \in Nat
    BY Pushed DEF From
  <2>2. CASE i \in 1 .. Len(proxy)
    BY <2>1, <2>2, Pushed DEF From
  <2>3. CASE i \in Len(proxy) + 1 .. Len(proxy) + Len(items)
    BY <2>1, <2>3, Pushed
  <2> QED
    BY <2>1, <2>2, <2>3
<1>2. From(b) \subseteq From(b)' /\ \A i \in From(b) : proxy'[i] = proxy[i]
  <2> SUFFICES ASSUME NEW i \in From(b) PROVE i \in From(b)' /\ proxy'[i] = proxy[i]
    OBVIOUS
  <2>1. i \in 1 .. Len(proxy) /\ proxy[i].from = b /\ Len(proxy) \in Nat /\ Len(items) \in Nat
    BY Pushed DEF From
  <2>2. i \in 1 .. Len(proxy) + Len(items) /\ proxy'[i] = proxy[i]
    BY <2>1, Pushed
  <2> QED
    BY <2>1, <2>2, Pushed DEF From
<1>3. From(b)' = From(b)
  BY <1>1, <1>2
<1>4. ASSUME NEW k \in Nat, ShownUpTo(b, k) PROVE ShownUpTo(b, k)'
  BY <1>2, <1>3, <1>4 DEF ShownUpTo
<1>5. NoText(b) => NoText(b)'
  BY <1>2, <1>3 DEF NoText
<1> QED
  BY <1>2, <1>3, <1>4, <1>5

(* They extend what their attempt has shown.                               *)
LEMMA ShownExtends ==
  ASSUME proxy \in Seq(ItemType), NEW items \in Seq(ItemType), proxy' = proxy \o items,
         NEW a, NEW k \in Nat, ShownUpTo(a, k), Written(items, a, k)
  PROVE  ShownUpTo(a, k + Len(items))'
<1> DEFINE L == Len(proxy)
           M == Len(items)
<1>1. /\ L \in Nat /\ M \in Nat /\ DOMAIN proxy = 1 .. L /\ DOMAIN items = 1 .. M
      /\ DOMAIN proxy' = 1 .. L + M
      /\ \A i \in 1 .. L : proxy'[i] = proxy[i]
      /\ \A i \in 1 .. M : proxy'[L + i] = items[i]
      /\ \A i \in L + 1 .. L + M : proxy'[i] = items[i - L] /\ i - L \in 1 .. M
  BY Pushed
<1>2. \A i \in 1 .. M : items[i].from = a /\ items[i].n = k + i
  BY <1>1 DEF Written, Item
<1> HIDE DEF L, M
<1>3. \A i \in From(a)' : \/ i \in From(a) /\ proxy'[i].n = proxy[i].n /\ i <= L /\ i \in Nat
                                           /\ proxy[i].n \in 1 .. k
                          \/ i \in L + 1 .. L + M /\ proxy'[i].n = k + (i - L) /\ i - L \in 1 .. M
  <2> SUFFICES ASSUME NEW i \in From(a)'
               PROVE  \/ i \in From(a) /\ proxy'[i].n = proxy[i].n /\ i <= L /\ i \in Nat
                                       /\ proxy[i].n \in 1 .. k
                      \/ i \in L + 1 .. L + M /\ proxy'[i].n = k + (i - L) /\ i - L \in 1 .. M
    OBVIOUS
  <2>1. i \in 1 .. L + M /\ proxy'[i].from = a
    BY <1>1 DEF From
  <2>2. CASE i \in 1 .. L
    <3>1. i \in From(a) /\ proxy'[i] = proxy[i]
      BY <1>1, <2>1, <2>2 DEF From
    <3>2. proxy[i].n \in 1 .. k
      BY <3>1 DEF ShownUpTo
    <3> QED
      BY <1>1, <2>2, <3>1, <3>2
  <2>3. CASE i \in L + 1 .. L + M
    BY <1>1, <1>2, <2>3
  <2> QED
    BY <1>1, <2>1, <2>2, <2>3
<1>4. ASSUME NEW i \in From(a)', NEW j \in From(a)', i < j PROVE proxy'[i].n < proxy'[j].n
  <2>1. CASE i \in From(a) /\ j \in From(a) /\ proxy'[i].n = proxy[i].n /\ proxy'[j].n = proxy[j].n
    BY <1>4, <2>1 DEF ShownUpTo
  <2>2. CASE /\ i \in From(a) /\ proxy'[i].n = proxy[i].n /\ proxy[i].n \in 1 .. k
             /\ j \in L + 1 .. L + M /\ proxy'[j].n = k + (j - L) /\ j - L \in 1 .. M
    BY <1>1, <2>2
  <2>3. CASE /\ i \in L + 1 .. L + M /\ j \in Nat /\ j <= L
    BY <1>1, <1>4, <2>3
  <2>4. CASE /\ i \in L + 1 .. L + M /\ proxy'[i].n = k + (i - L)
             /\ j \in L + 1 .. L + M /\ proxy'[j].n = k + (j - L)
    BY <1>1, <1>4, <2>4
  <2> QED
    BY <1>3, <2>1, <2>2, <2>3, <2>4
<1>5. {proxy'[i].n : i \in From(a)'} \subseteq 1 .. k + M
  <2> SUFFICES ASSUME NEW i \in From(a)' PROVE proxy'[i].n \in 1 .. k + M
    OBVIOUS
  <2>1. \/ proxy'[i].n \in 1 .. k
        \/ proxy'[i].n = k + (i - L) /\ i - L \in 1 .. M
    BY <1>3
  <2>2. M \in Nat
    BY <1>1
  <2>3. ASSUME NEW d \in 1 .. M PROVE k + d \in 1 .. k + M
    BY <2>2
  <2>4. 1 .. k \subseteq 1 .. k + M
    BY <2>2
  <2> QED
    BY <2>1, <2>3, <2>4
<1>6. 1 .. k + M \subseteq {proxy'[i].n : i \in From(a)'}
  <2> SUFFICES ASSUME NEW x \in 1 .. k + M PROVE \E i \in From(a)' : proxy'[i].n = x
    OBVIOUS
  <2>1. CASE x \in 1 .. k
    <3>1. PICK i \in From(a) : proxy[i].n = x
      BY <2>1 DEF ShownUpTo
    <3>2. i \in 1 .. L /\ i \in 1 .. L + M /\ proxy'[i] = proxy[i] /\ proxy[i].from = a
      BY <1>1, <3>1 DEF From
    <3> QED
      BY <1>1, <3>1, <3>2 DEF From
  <2>2. CASE x \in k + 1 .. k + M
    <3>1. x - k \in 1 .. M /\ L + (x - k) \in 1 .. L + M /\ k + (x - k) = x
      BY <1>1, <2>2
    <3>2. proxy'[L + (x - k)] = items[x - k]
      BY <1>1, <3>1
    <3>3. L + (x - k) \in From(a)'
      BY <1>1, <1>2, <3>1, <3>2 DEF From
    <3> QED
      BY <1>2, <3>1, <3>2, <3>3
  <2>3. x \in 1 .. k \/ x \in k + 1 .. k + M
    <3>1. M \in Nat
      BY <1>1
    <3> QED
      BY <3>1
  <2> QED
    BY <2>1, <2>2, <2>3
<1> QED
  BY <1>4, <1>5, <1>6 DEF ShownUpTo, M

(* They are apart from the ends before them when they have an intruder, or *)
(* every end before them has.                                              *)
LEMMA EndsStayApart ==
  ASSUME proxy \in Seq(ItemType), NEW items \in Seq(ItemType), proxy' = proxy \o items,
         NEW x, \A i \in DOMAIN items : items[i].from = x,
         \A i \in DOMAIN items : items[i].kind = "end" => i = Len(items),
         EndsApart, Intruders \subseteq Intruders',
         \/ items = <<>> \/ x \in Intruders'
         \/ \A i \in Ended : proxy[i].from \in Intruders
  PROVE  EndsApart'
<1> SUFFICES ASSUME NEW i \in Ended', NEW j \in DOMAIN proxy', i < j
             PROVE  proxy'[i].from \in Intruders' \/ proxy'[j].from \in Intruders'
  BY DEF EndsApart
<1> DEFINE L == Len(proxy)
           M == Len(items)
<1>1. /\ L \in Nat /\ M \in Nat /\ DOMAIN proxy = 1 .. L /\ DOMAIN items = 1 .. M
      /\ DOMAIN proxy' = 1 .. L + M
      /\ \A n \in 1 .. L : proxy'[n] = proxy[n]
      /\ \A n \in L + 1 .. L + M : proxy'[n] = items[n - L] /\ n - L \in 1 .. M
  BY Pushed
<1>2. i \in 1 .. L + M /\ j \in 1 .. L + M /\ proxy'[i].kind = "end"
  BY <1>1 DEF Ended
<1>3. items = <<>> => M = 0
  BY EmptySeq
<1> HIDE DEF L, M
<1>4. CASE j \in 1 .. L
  <2>1. i \in 1 .. L
    BY <1>1, <1>2, <1>4
  <2>2. i \in Ended /\ j \in DOMAIN proxy /\ proxy'[i] = proxy[i] /\ proxy'[j] = proxy[j]
    BY <1>1, <1>2, <1>4, <2>1 DEF Ended
  <2> QED
    BY <2>2 DEF EndsApart
<1>5. CASE j \in L + 1 .. L + M
  <2>1. proxy'[j].from = x /\ M # 0
    BY <1>1, <1>5
  <2>2. i \in 1 .. L
    <3> SUFFICES ASSUME i \in L + 1 .. L + M PROVE FALSE
      BY <1>1, <1>2
    <3>1. items[i - L].kind = "end" /\ i - L \in 1 .. M
      BY <1>1, <1>2
    <3>2. i - L = M
      BY <1>1, <3>1 DEF M
    <3> QED
      BY <1>1, <1>2, <3>2
  <2>3. i \in Ended /\ proxy'[i] = proxy[i]
    BY <1>1, <1>2, <2>2 DEF Ended
  <2> QED
    BY <1>3, <2>1, <2>3
<1> QED
  BY <1>1, <1>2, <1>4, <1>5

(* What is an end is an old one, or the one just appended; an attempt's    *)
(* own end stays where it is.                                              *)
LEMMA EndsStay ==
  ASSUME proxy \in Seq(ItemType), NEW items \in Seq(ItemType), proxy' = proxy \o items,
         NEW x, \A i \in DOMAIN items : items[i].from = x
  PROVE  /\ \A i \in Ended' : \/ i \in Ended /\ proxy'[i] = proxy[i]
                              \/ proxy'[i].from = x /\ \E n \in DOMAIN items : items[n].kind = "end"
         /\ \A b : \A i \in From(b) : i \in From(b)' /\ proxy'[i] = proxy[i]
<1> DEFINE L == Len(proxy)
           M == Len(items)
<1>1. /\ L \in Nat /\ M \in Nat /\ DOMAIN proxy = 1 .. L /\ DOMAIN items = 1 .. M
      /\ DOMAIN proxy' = 1 .. L + M
      /\ \A n \in 1 .. L : proxy'[n] = proxy[n]
      /\ \A n \in L + 1 .. L + M : proxy'[n] = items[n - L] /\ n - L \in 1 .. M
  BY Pushed
<1> HIDE DEF L, M
<1>2. ASSUME NEW i \in Ended'
      PROVE  \/ i \in Ended /\ proxy'[i] = proxy[i]
             \/ proxy'[i].from = x /\ \E n \in DOMAIN items : items[n].kind = "end"
  <2>1. i \in 1 .. L + M /\ proxy'[i].kind = "end"
    BY <1>1 DEF Ended
  <2>2. CASE i \in 1 .. L
    BY <1>1, <2>1, <2>2 DEF Ended
  <2>3. CASE i \in L + 1 .. L + M
    BY <1>1, <2>1, <2>3
  <2> QED
    BY <1>1, <2>1, <2>2, <2>3
<1>3. ASSUME NEW b, NEW i \in From(b) PROVE i \in From(b)' /\ proxy'[i] = proxy[i]
  <2>1. i \in 1 .. L /\ i \in 1 .. L + M /\ proxy[i].from = b
    BY <1>1 DEF From
  <2> QED
    BY <1>1, <2>1 DEF From
<1> QED
  BY <1>2, <1>3

-----------------------------------------------------------------------------
(* While the loop of one attempt is attached, no other attempt has ended   *)
(* the proxy, and neither has the walk.                                    *)
LEMMA OneWriter ==
  ASSUME IInv, NEW a \in Attempts, Live(at[a])
  PROVE  /\ at[a].verdict = "none" /\ ~Intrudes(a) /\ ~Finished /\ Started(at[a])
         /\ \A b \in Attempts \ {a} : ~Closed(at[b])
         /\ \A b \in Attempts : a < b => ~Started(at[b])
<1>1. at[a].verdict = "none" /\ ~at[a].abandoned /\ at[a].verdict \notin Failed /\ Started(at[a])
  BY DEF IInv, Placed, Live, Failed, Started
<1>2. \A b \in Attempts : a < b => ~Started(at[b])
  BY <1>1 DEF IInv
<1>3. ASSUME NEW b \in Attempts \ {a} PROVE ~Closed(at[b])
  <2>1. CASE b < a
    <3>1. at[b].verdict \in Failed
      BY <1>1, <2>1 DEF IInv
    <3> QED
      BY <3>1 DEF IInv, Placed, Closed, Failed
  <2>2. CASE a < b
    BY <1>2, <2>2 DEF Closed, Started, Live
  <2> QED
    BY <2>1, <2>2, ConsumeAssumption DEF Attempts
<1> QED
  BY <1>1, <1>2, <1>3 DEF IInv, Intrudes

(* What a step of an attached attempt owes to the invariant.               *)
LiveStep(a, s, items) ==
    /\ Becomes(a, s, items)
    /\ s \in AttemptType /\ items \in Seq(ItemType)
    /\ Placed(s) /\ Started(s)
    /\ ~(s.abandoned /\ "aborted" \in s.found)
    /\ \A k \in 0 .. Events + 1 : Accounted(at[a], a, k) =>
          Written(items, a, k) /\ Accounted(s, a, k + Len(items))
    /\ s.verdict = "tool_markup_as_text" \/ (Live(s) /\ s.hold) =>
          at[a].hold /\ \A i \in DOMAIN items : items[i].kind # "text"
    /\ \A i \in DOMAIN items : items[i].kind = "end" => i = Len(items) /\ Closed(s)
    /\ at[a].terminal => items = <<>> /\ Closed(s) /\ s.n = at[a].n
    /\ s.terminal /\ ~at[a].terminal /\ (Live(s) \/ s.verdict = "ok") =>
          items # <<>> /\ items[Len(items)] = Item(a, s.n, "end")

LEMMA LiveShows ==
  ASSUME IInv, NEW a \in Attempts, Live(at[a]), NEW s, NEW items, LiveStep(a, s, items)
  PROVE  /\ \A i \in DOMAIN items : items[i].from = a
         /\ \E k \in 0 .. Events + 1 : ShownUpTo(a, k)' /\ Accounted(s, a, k)
<1>1. PICK k \in 0 .. Events + 1 : ShownUpTo(a, k) /\ Accounted(at[a], a, k)
  BY OneWriter DEF IInv
<1>2. /\ Written(items, a, k) /\ Accounted(s, a, k + Len(items))
      /\ items \in Seq(ItemType) /\ proxy \in Seq(ItemType) /\ proxy' = proxy \o items
  BY <1>1 DEF LiveStep, Becomes, IInv
<1>3. \A i \in DOMAIN items : items[i].from = a
  BY <1>2 DEF Written, Item
<1>4. ShownUpTo(a, k + Len(items))'
  <2>1. k \in Nat /\ ShownUpTo(a, k) /\ Written(items, a, k)
    BY <1>1, <1>2, ConsumeAssumption
  <2>2. items \in Seq(ItemType) /\ proxy \in Seq(ItemType) /\ proxy' = proxy \o items
    BY <1>2
  <2> QED
    BY <2>1, <2>2, ShownExtends
<1>5. k + Len(items) \in 0 .. Events + 1
  <2>1. Len(items) \in Nat /\ DOMAIN items = 1 .. Len(items) /\ Events \in Nat
    BY <1>2, LenProperties, ConsumeAssumption
  <2>2. CASE Len(items) = 0
    BY <1>1, <2>2
  <2>3. CASE Len(items) # 0
    <3>1. Len(items) \in 1 .. Len(items)
      BY <2>1, <2>3
    <3>2. items[Len(items)].n = k + Len(items)
      BY <1>2, <2>1, <3>1 DEF Written, Item
    <3>3. items[Len(items)] \in ItemType
      BY <1>2, <3>1, ElementOfSeq
    <3>4. items[Len(items)].n \in 1 .. Events + 1
      BY <3>3 DEF ItemType
    <3> QED
      BY <2>1, <3>2, <3>4
  <2> QED
    BY <2>2, <2>3
<1> QED
  BY <1>2, <1>3, <1>4, <1>5

LEMMA LivePreserves ==
  ASSUME IInv, NEW a \in Attempts, Live(at[a]), NEW s, NEW items, LiveStep(a, s, items)
  PROVE  IInv'
<1>1. /\ s \in AttemptType /\ items \in Seq(ItemType) /\ proxy' = proxy \o items
      /\ at' = [at EXCEPT ![a] = s] /\ proxy \in Seq(ItemType) /\ at \in [Attempts -> AttemptType]
  BY DEF LiveStep, Becomes, IInv
<1>2. /\ at' \in [Attempts -> AttemptType] /\ at'[a] = s
      /\ \A b \in Attempts \ {a} : at'[b] = at[b]
  BY <1>1
<1>3. \A i \in DOMAIN items : items[i].from = a
  BY LiveShows
<1>4. /\ at[a].verdict = "none" /\ ~Intrudes(a) /\ ~Finished /\ Started(at[a])
      /\ \A b \in Attempts \ {a} : ~Closed(at[b])
      /\ \A b \in Attempts : a < b => ~Started(at[b])
  BY OneWriter
<1>5. proxy' \in Seq(ItemType)
  BY <1>1, Pushed
<1>6. \A b \in Attempts : Placed(at'[b])
  BY <1>2 DEF LiveStep, IInv
<1>7. /\ ~Intrudes(a)' /\ \A b \in Attempts \ {a} : Intrudes(b)' = Intrudes(b)
  BY <1>2 DEF LiveStep, Intrudes
<1>8. ASSUME NEW b \in Attempts, ~Intrudes(b)'
      PROVE  \E k \in 0 .. Events + 1 : ShownUpTo(b, k)' /\ Accounted(at'[b], b, k)
  <2>1. CASE b = a
    BY <1>2, <2>1, LiveShows
  <2>2. CASE b # a
    <3>1. PICK k \in 0 .. Events + 1 : ShownUpTo(b, k) /\ Accounted(at[b], b, k)
      BY <1>7, <1>8, <2>2 DEF IInv
    <3>2. \A i \in DOMAIN items : items[i].from # b
      BY <1>3, <2>2
    <3>3. k \in Nat
      OBVIOUS
    <3>4. ShownUpTo(b, k)'
      BY <1>1, <3>1, <3>2, <3>3, OthersKeep
    <3> QED
      BY <1>2, <2>2, <3>1, <3>4
  <2> QED
    BY <2>1, <2>2
<1>9. ASSUME NEW b \in Attempts PROVE Withheld(at[b], b)'
  <2>1. CASE b = a
    <3>1. s.verdict = "tool_markup_as_text" \/ (Live(s) /\ s.hold) => NoText(a)'
      <4> SUFFICES ASSUME s.verdict = "tool_markup_as_text" \/ (Live(s) /\ s.hold)
                   PROVE  NoText(a)'
        OBVIOUS
      <4>1. at[a].hold /\ \A i \in DOMAIN items : items[i].kind # "text"
        BY DEF LiveStep
      <4>2. NoText(a)
        BY <4>1 DEF IInv, Withheld
      <4> SUFFICES ASSUME NEW i \in From(a)' PROVE proxy'[i].kind # "text"
        BY DEF NoText
      <4>3. i \in 1 .. Len(proxy) + Len(items) /\ Len(proxy) \in Nat /\ Len(items) \in Nat
        BY <1>1, Pushed DEF From
      <4>4. CASE i \in 1 .. Len(proxy)
        BY <1>1, <4>2, <4>4, Pushed DEF NoText, From
      <4>5. CASE i \in Len(proxy) + 1 .. Len(proxy) + Len(items)
        BY <1>1, <4>1, <4>5, Pushed
      <4> QED
        BY <4>3, <4>4, <4>5
    <3>2. Started(s)
      BY DEF LiveStep
    <3> QED
      BY <1>2, <2>1, <3>1, <3>2 DEF Withheld
  <2>2. CASE b # a
    <3>1. NoText(b) => NoText(b)'
      BY <1>1, <1>3, <2>2, OthersKeep
    <3>2. at'[b] = at[b] /\ Withheld(at[b], b)
      BY <1>2, <2>2 DEF IInv
    <3> QED
      BY <3>1, <3>2 DEF Withheld
  <2> QED
    BY <2>1, <2>2
<1>10. ASSUME NEW x \in Attempts, NEW b \in Attempts, Started(at'[x]), b < x
       PROVE  at'[b].verdict \in Failed
  <2>1. CASE b = a
    <3>1. x # a
      BY <1>10, <2>1, ConsumeAssumption DEF Attempts
    <3> QED
      BY <1>2, <1>4, <1>10, <2>1, <3>1
  <2>2. CASE b # a
    <3>1. Started(at[x])
      BY <1>2, <1>4, <1>10
    <3> QED
      BY <1>2, <1>10, <2>2, <3>1 DEF IInv
  <2> QED
    BY <2>1, <2>2
<1>11. ~Finished'
  <2> SUFFICES ASSUME NEW i \in DOMAIN proxy', proxy'[i].from = 0 PROVE FALSE
    BY DEF Finished
  <2>1. i \in 1 .. Len(proxy) + Len(items) /\ Len(proxy) \in Nat /\ Len(items) \in Nat
    BY <1>1, Pushed
  <2>2. CASE i \in 1 .. Len(proxy)
    BY <1>1, <1>4, <2>2, Pushed DEF Finished
  <2>3. CASE i \in Len(proxy) + 1 .. Len(proxy) + Len(items)
    <3>1. proxy'[i].from = a
      BY <1>1, <1>3, <2>3, Pushed
    <3> QED
      BY <3>1, ConsumeAssumption DEF Attempts
  <2> QED
    BY <2>1, <2>2, <2>3
<1>12. Intruders \subseteq Intruders'
  BY <1>4, <1>7 DEF Intruders
<1>13. at[a].terminal => items = <<>> /\ Closed(s) /\ s.n = at[a].n
  BY DEF LiveStep
<1>14. /\ \A i \in Ended' : \/ i \in Ended /\ proxy'[i] = proxy[i]
                            \/ proxy'[i].from = a /\ \E n \in DOMAIN items : items[n].kind = "end"
       /\ \A b : \A i \in From(b) : i \in From(b)' /\ proxy'[i] = proxy[i]
  BY <1>1, <1>3, EndsStay
<1>15. ASSUME NEW i \in Ended
       PROVE  \/ proxy[i].from \in Intruders
              \/ proxy[i].from = a /\ at[a].terminal
  <2>1. i \in DOMAIN proxy /\ proxy[i].from # 0
    BY <1>4 DEF Finished, Ended
  <2>2. proxy[i].from \in Attempts
    <3>1. proxy[i] \in ItemType
      BY <1>1, <2>1, ElementOfSeq, LenProperties
    <3>2. proxy[i].from \in 0 .. AttemptCount
      BY <3>1 DEF ItemType
    <3> QED
      BY <2>1, <3>2, ConsumeAssumption DEF Attempts
  <2>3. proxy[i].from \in Intruders \/ Closed(at[proxy[i].from])
    BY <2>1 DEF IInv, EndsOwned
  <2>4. Closed(at[a]) => at[a].terminal
    BY <1>4 DEF Closed
  <2> QED
    BY <1>4, <2>2, <2>3, <2>4
<1>16. EndsOwned'
  <2> SUFFICES ASSUME NEW i \in Ended', proxy'[i].from \notin Intruders'
               PROVE  Closed(at'[proxy'[i].from])
    BY DEF EndsOwned
  <2>1. CASE i \in Ended /\ proxy'[i] = proxy[i]
    BY <1>2, <1>12, <1>13, <1>15, <2>1
  <2>2. CASE proxy'[i].from = a /\ \E n \in DOMAIN items : items[n].kind = "end"
    BY <1>2, <2>2 DEF LiveStep
  <2> QED
    BY <1>14, <2>1, <2>2
<1>17. EndsApart'
  <2>1. items = <<>> \/ \A i \in Ended : proxy[i].from \in Intruders
    BY <1>13, <1>15
  <2>2. \A i \in DOMAIN items : items[i].kind = "end" => i = Len(items)
    BY DEF LiveStep
  <2>3. EndsApart
    BY DEF IInv
  <2> QED
    BY <1>1, <1>3, <1>12, <2>1, <2>2, <2>3, EndsStayApart
<1>18. ASSUME NEW b \in Attempts PROVE Capped(b)'
  <2> SUFFICES ASSUME at'[b].terminal, Live(at'[b]) \/ at'[b].verdict = "ok"
               PROVE  \E i \in From(b)' : proxy'[i] = Item(b, at'[b].n, "end")
    BY DEF Capped
  <2>1. CASE b # a
    <3>1. PICK i \in From(b) : proxy[i] = Item(b, at[b].n, "end")
      BY <1>2, <2>1 DEF IInv, Capped
    <3> QED
      BY <1>2, <1>14, <2>1, <3>1
  <2>2. CASE b = a /\ at[a].terminal
    <3>1. PICK i \in From(a) : proxy[i] = Item(a, at[a].n, "end")
      BY <2>2 DEF IInv, Capped
    <3> QED
      BY <1>2, <1>13, <1>14, <2>2, <3>1
  <2>3. CASE b = a /\ ~at[a].terminal
    <3>1. items # <<>> /\ items[Len(items)] = Item(a, s.n, "end")
      BY <1>2, <2>3 DEF LiveStep
    <3>2. /\ Len(items) \in 1 .. Len(items) /\ Len(proxy) \in Nat /\ Len(items) \in Nat
          /\ Len(proxy) + Len(items) \in 1 .. Len(proxy) + Len(items)
      BY <1>1, <3>1, EmptySeq, LenProperties
    <3>3. proxy'[Len(proxy) + Len(items)] = Item(a, s.n, "end")
      BY <1>1, <3>1, <3>2, Pushed
    <3>4. Len(proxy) + Len(items) \in From(a)'
      BY <1>1, <3>2, <3>3, Pushed DEF From, Item
    <3> QED
      BY <1>2, <2>3, <3>3, <3>4
  <2> QED
    BY <2>1, <2>2, <2>3
<1> QED
  BY <1>2, <1>5, <1>6, <1>8, <1>9, <1>10, <1>11, <1>16, <1>17, <1>18 DEF IInv

-----------------------------------------------------------------------------
(* The operators on an attempt's record.                                   *)
LEMMA OrderFacts ==
  /\ DOMAIN Order = 1 .. 9 /\ ToSet(Order) = {Order[i] : i \in 1 .. 9}
  /\ Order[1] = "aborted"
  /\ ToSet(Order) \subseteq Verdicts \ {"none", "ok", "empty_timeout", "stall_timeout"}
<1>1. DOMAIN Order = 1 .. 9 /\ Order[1] = "aborted"
  BY DEF Order
<1>2. ToSet(Order) = {Order[i] : i \in 1 .. 9}
  BY <1>1 DEF ToSet
<1>3. \A i \in 1 .. 9 : Order[i] \notin {"none", "ok", "empty_timeout", "stall_timeout"}
  BY DEF Order
<1> QED
  BY <1>1, <1>2, <1>3 DEF Verdicts

LEMMA OrderMembers ==
  {"aborted", "context_overflow", "rate_limit_exceeded", "repetition_loop", "provider_error",
   "tool_markup_as_text", "truncated_length", "stream_threw", "empty_response"} = ToSet(Order)
<1>1. /\ Order[1] = "aborted" /\ Order[2] = "context_overflow"
      /\ Order[3] = "rate_limit_exceeded" /\ Order[4] = "repetition_loop"
      /\ Order[5] = "provider_error" /\ Order[6] = "tool_markup_as_text"
      /\ Order[7] = "truncated_length" /\ Order[8] = "stream_threw"
      /\ Order[9] = "empty_response"
  BY DEF Order
<1>2. \A i \in 1 .. 9 : i = 1 \/ i = 2 \/ i = 3 \/ i = 4 \/ i = 5 \/ i = 6 \/ i = 7 \/ i = 8 \/ i = 9
  OBVIOUS
<1> QED
  BY <1>1, <1>2, OrderFacts

(* The classification: the first finding in the order, or success.         *)
LEMMA Judging ==
  ASSUME NEW s \in AttemptType
  PROVE  LET found == IF s.had THEN s.found ELSE s.found \cup {"empty_response"} IN
         /\ Judged(s) \in AttemptType
         /\ ~Judged(s).reading /\ Judged(s).abandoned = s.abandoned /\ Judged(s).n = s.n
         /\ Judged(s).held = s.held /\ Judged(s).found = s.found
         /\ Judged(s).terminal = s.terminal /\ Judged(s).drained = s.drained
         /\ Judged(s).verdict \in {"ok"} \cup found
         /\ Judged(s).verdict \notin {"none", "empty_timeout", "stall_timeout"}
         /\ Judged(s).verdict = "ok" <=> found = {}
         /\ "aborted" \in found => Judged(s).verdict = "aborted"
<1> DEFINE found == IF s.had THEN s.found ELSE s.found \cup {"empty_response"}
           rank == {i \in DOMAIN Order : Order[i] \in found}
           first == CHOOSE i \in rank : \A j \in rank : i <= j
           v == IF rank = {} THEN "ok" ELSE Order[first]
<1>1. found \subseteq ToSet(Order)
  <2>1. "empty_response" \in ToSet(Order)
    <3>1. Order[9] = "empty_response"
      BY DEF Order
    <3> QED
      BY <3>1, OrderFacts
  <2> QED
    BY <2>1 DEF AttemptType
<1>2. rank \subseteq 1 .. 9
  BY OrderFacts
<1>3. rank = {} <=> found = {}
  BY <1>1, OrderFacts
<1>4. Judged(s) = [s EXCEPT !.reading = FALSE, !.verdict = v]
  BY DEF Judged
<1>5. rank # {} => first \in rank /\ \A j \in rank : first <= j
  <2> SUFFICES ASSUME rank # {} PROVE \E i \in rank : \A j \in rank : i <= j
    OBVIOUS
  <2> HIDE DEF rank
  <2>1. \A j \in rank : j \in Nat /\ (j = 1 \/ j = 2 \/ j = 3 \/ j = 4 \/ j = 5 \/ j = 6
                                   \/ j = 7 \/ j = 8 \/ j = 9)
    BY <1>2
  <2>2. \E i \in rank : \A j \in 1 .. i - 1 : j \notin rank
    <3>1. CASE \E i \in rank : i <= 4
      BY <2>1, <3>1
    <3>2. CASE \A i \in rank : ~(i <= 4)
      BY <2>1, <3>2
    <3> QED
      BY <3>1, <3>2
  <2>3. ASSUME NEW i \in rank, \A j \in 1 .. i - 1 : j \notin rank, NEW j \in rank
        PROVE  i <= j
    <3>1. i \in Nat /\ j \in Nat /\ 1 <= j
      BY <2>1
    <3> QED
      BY <2>3, <3>1
  <2> QED
    BY <2>2, <2>3
<1>6. v \in {"ok"} \cup found /\ (v = "ok" <=> found = {})
  BY <1>1, <1>3, <1>5, OrderFacts
<1>7. "aborted" \in found => v = "aborted"
  <2> SUFFICES ASSUME "aborted" \in found PROVE v = "aborted"
    OBVIOUS
  <2>1. 1 \in rank
    BY OrderFacts
  <2>2. first \in 1 .. 9 /\ first <= 1
    BY <1>2, <1>5, <2>1
  <2> HIDE DEF first
  <2>3. first = 1
    BY <2>2
  <2> QED
    BY <2>1, <2>3, OrderFacts
<1>8. v \in Verdicts /\ v \notin {"none", "empty_timeout", "stall_timeout"}
  BY <1>1, <1>6, OrderFacts DEF Verdicts
<1> HIDE DEF v, found
<1>9. /\ Judged(s).reading = FALSE /\ Judged(s).abandoned = s.abandoned /\ Judged(s).n = s.n
      /\ Judged(s).held = s.held /\ Judged(s).found = s.found /\ Judged(s).verdict = v
      /\ Judged(s).terminal = s.terminal /\ Judged(s).drained = s.drained
      /\ Judged(s) \in AttemptType
  BY <1>4, <1>8 DEF AttemptType
<1> QED
  BY <1>6, <1>7, <1>8, <1>9 DEF found

LEMMA Releasing ==
  ASSUME NEW s \in AttemptType
  PROVE  /\ Released(s) \in AttemptType
         /\ ~Released(s).hold /\ ~Released(s).heldText /\ Released(s).held = <<>>
         /\ Released(s).reading = s.reading /\ Released(s).abandoned = s.abandoned
         /\ Released(s).n = s.n /\ Released(s).had = s.had /\ Released(s).markup = s.markup
         /\ Released(s).terminal = s.terminal /\ Released(s).drained = s.drained
         /\ Released(s).found = s.found
         /\ Released(s).verdict = s.verdict
<1>1. <<>> \in Seq(ItemType)
  OBVIOUS
<1> QED
  BY <1>1 DEF Released, AttemptType

LEMMA Appended ==
  ASSUME NEW S, NEW q \in Seq(S), NEW e \in S
  PROVE  /\ Append(q, e) \in Seq(S) /\ q \o <<e>> = Append(q, e) /\ Append(q, e) # <<>>
         /\ Len(q) \in Nat /\ DOMAIN q = 1 .. Len(q)
         /\ Len(Append(q, e)) = Len(q) + 1 /\ DOMAIN Append(q, e) = 1 .. Len(q) + 1
         /\ \A i \in 1 .. Len(q) : Append(q, e)[i] = q[i]
         /\ Append(q, e)[Len(q) + 1] = e
<1>1. /\ Append(q, e) \in Seq(S) /\ Len(q) \in Nat
      /\ DOMAIN q = 1 .. Len(q) /\ Len(Append(q, e)) = Len(q) + 1
      /\ \A i \in 1 .. Len(q) : Append(q, e)[i] = q[i]
      /\ Append(q, e)[Len(q) + 1] = e
  BY AppendProperties, LenProperties
<1>2. q \o <<e>> = Append(q, e)
  OBVIOUS
<1>3. DOMAIN Append(q, e) = 1 .. Len(q) + 1
  BY <1>1, LenProperties
<1>4. Append(q, e) # <<>>
  BY <1>1, EmptySeq
<1> QED
  BY <1>1, <1>2, <1>3, <1>4

(* What an attached attempt that has not ended the proxy holds, and the    *)
(* item of its next event: they are written next, in this order.           *)
LEMMA NextItem ==
  ASSUME IInv, NEW a \in Attempts, Live(at[a]), ~at[a].terminal,
         NEW kind \in {"text", "other", "end"}
  PROVE  LET e == Item(a, at[a].n + 1, kind)
             w == Append(at[a].held, e)
         IN  /\ e \in ItemType /\ w \in Seq(ItemType) /\ w # <<>>
             /\ at[a].held \o <<e>> = w /\ Len(w) \in Nat /\ w[Len(w)] = e
             /\ DOMAIN w = 1 .. Len(w)
             /\ \A i \in DOMAIN w : w[i].kind = "end" => i = Len(w) /\ kind = "end"
             /\ \A k \in 0 .. Events + 1 : Accounted(at[a], a, k) =>
                  /\ Written(w, a, k) /\ k + Len(w) = at[a].n + 1
                  /\ kind # "end" => Follow(w, a, k)
<1> DEFINE e == Item(a, at[a].n + 1, kind)
           q == at[a].held
           w == Append(q, e)
<1>1. at[a] \in AttemptType
  BY DEF IInv
<1>2. q \in Seq(ItemType) /\ at[a].n \in 0 .. Events
  BY <1>1 DEF AttemptType
<1>3. e \in ItemType /\ e.kind = kind
  <2>1. at[a].n + 1 \in 1 .. Events + 1 /\ a \in 0 .. AttemptCount
    BY <1>2, ConsumeAssumption DEF Attempts
  <2> QED
    BY <2>1 DEF Item, ItemType
<1>4. /\ w \in Seq(ItemType) /\ q \o <<e>> = w /\ w # <<>>
      /\ Len(q) \in Nat /\ DOMAIN q = 1 .. Len(q)
      /\ Len(w) = Len(q) + 1 /\ DOMAIN w = 1 .. Len(q) + 1
      /\ \A i \in 1 .. Len(q) : w[i] = q[i]
      /\ w[Len(q) + 1] = e
  <2>1. q \in Seq(ItemType) /\ e \in ItemType
    BY <1>2, <1>3
  <2> HIDE DEF q, e
  <2> QED
    BY <2>1, Appended
<1>5. ASSUME NEW k \in 0 .. Events + 1, Accounted(at[a], a, k)
      PROVE  /\ Written(w, a, k) /\ k + Len(w) = at[a].n + 1
             /\ kind # "end" => Follow(w, a, k)
             /\ \A i \in 1 .. Len(q) : q[i].kind # "end"
  <2>1. at[a].n = k + Len(q) /\ Follow(q, a, k)
    BY <1>5 DEF Accounted
  <2>2. k + Len(w) = at[a].n + 1 /\ k + (Len(q) + 1) = at[a].n + 1
    BY <1>2, <1>4, <2>1
  <2>3. \A i \in 1 .. Len(q) : q[i] = Item(a, k + i, q[i].kind) /\ q[i].kind # "end"
    BY <1>4, <2>1 DEF Follow
  <2>4. w[Len(q) + 1] = Item(a, k + (Len(q) + 1), kind)
    BY <1>4, <2>2
  <2> HIDE DEF w, e, q
  <2>5. \A i \in 1 .. Len(q) + 1 : i \in 1 .. Len(q) \/ i = Len(q) + 1
    BY <1>4
  <2>6. w[Len(q) + 1].kind = kind
    BY <1>3, <1>4
  <2>7. Written(w, a, k)
    BY <1>4, <2>3, <2>4, <2>5, <2>6 DEF Written
  <2>8. kind # "end" => Follow(w, a, k)
    BY <1>4, <2>3, <2>4, <2>5, <2>6 DEF Follow
  <2> QED
    BY <2>2, <2>3, <2>7, <2>8
<1>6. \E k \in 0 .. Events + 1 : Accounted(at[a], a, k)
  BY OneWriter DEF IInv
<1>7. \A i \in 1 .. Len(q) : w[i].kind # "end"
  BY <1>4, <1>5, <1>6
<1> HIDE DEF w, e, q
<1>8. \A i \in DOMAIN w : w[i].kind = "end" => i = Len(q) + 1 /\ kind = "end"
  <2>1. \A i \in 1 .. Len(q) + 1 : i \in 1 .. Len(q) \/ i = Len(q) + 1
    BY <1>4
  <2> QED
    BY <1>3, <1>4, <1>7, <2>1
<1>9. Len(w) \in Nat /\ DOMAIN w = 1 .. Len(w) /\ w[Len(w)] = e
  BY <1>4
<1> QED
  BY <1>3, <1>4, <1>5, <1>8, <1>9 DEF w, e, q

-----------------------------------------------------------------------------
\* A step of the attached loop of attempt a, whatever the event.
Writes(a) == \E s, items : LiveStep(a, s, items)

(* The loop stops with a verdict: what is held is dropped or goes out, and *)
(* an abort is followed by its end.                                        *)
LEMMA StopStep ==
  ASSUME IInv, NEW a \in Attempts, Live(at[a]), NEW s \in AttemptType, NEW items,
         Becomes(a, s, items),
         s.held = <<>>, ~Live(s), s.verdict # "none", s.abandoned => ~("aborted" \in s.found),
         s.abandoned => s.verdict \in {"empty_timeout", "stall_timeout"},
         \/ items = <<>> \/ items = at[a].held
         \/ s.verdict = "aborted" /\ ~at[a].terminal,
         s.verdict = "aborted" /\ ~at[a].terminal =>
            items = Append(at[a].held, Item(a, at[a].n + 1, "end")),
         s.verdict = "ok" =>
            items = at[a].held /\ s.n = at[a].n /\ (s.terminal \/ s.drained),
         s.terminal => at[a].terminal \/ s.verdict # "ok",
         s.verdict = "tool_markup_as_text" => at[a].hold /\ items = <<>>,
         at[a].terminal => s.n = at[a].n /\ s.verdict \in {"ok", "aborted"}
  PROVE  Writes(a)
<1> DEFINE q == at[a].held
           w == Append(q, Item(a, at[a].n + 1, "end"))
<1>1. at[a] \in AttemptType /\ Placed(at[a])
  BY DEF IInv
<1>2. q \in Seq(ItemType) /\ Len(q) \in Nat /\ DOMAIN q = 1 .. Len(q)
  BY <1>1, LenProperties DEF AttemptType
<1>3. <<>> \in Seq(ItemType) /\ Len(<<>>) = 0 /\ DOMAIN <<>> = {}
  OBVIOUS
<1>4. ~at[a].terminal =>
        /\ w \in Seq(ItemType) /\ w # <<>> /\ Len(w) \in Nat /\ w[Len(w)].kind = "end"
        /\ \A i \in DOMAIN w : w[i].kind = "end" => i = Len(w)
        /\ \A k \in 0 .. Events + 1 : Accounted(at[a], a, k) => Written(w, a, k)
  <2>1. Item(a, at[a].n + 1, "end").kind = "end"
    BY DEF Item
  <2> QED
    BY <2>1, NextItem
<1>5. PICK k0 \in 0 .. Events + 1 : Accounted(at[a], a, k0)
  BY OneWriter DEF IInv
<1>6. \A i \in DOMAIN q : q[i].kind # "end"
  BY <1>5 DEF Accounted, Follow
<1>7. at[a].terminal => q = <<>>
  BY <1>1 DEF Placed
<1> HIDE DEF w, q
<1>8. items \in {<<>>, q} \/ (s.verdict = "aborted" /\ ~at[a].terminal /\ items = w)
  BY DEF w, q
<1>9. items \in Seq(ItemType)
  BY <1>2, <1>3, <1>4, <1>8
<1>10. \A i \in DOMAIN items : items[i].kind = "end" => i = Len(items) /\ Closed(s)
  BY <1>3, <1>4, <1>6, <1>8 DEF Closed
<1>11. Placed(s) /\ Started(s)
  BY DEF Placed, Started, Live
<1>12. ASSUME NEW k \in 0 .. Events + 1, Accounted(at[a], a, k)
       PROVE  Written(items, a, k) /\ Accounted(s, a, k + Len(items))
  <2>1. Follow(q, a, k) /\ (~at[a].terminal => at[a].n = k + Len(q))
        /\ (at[a].terminal => at[a].n = k)
    BY <1>12 DEF Accounted, q
  <2>2. Written(q, a, k) /\ Written(<<>>, a, k)
    BY <1>3, <2>1 DEF Follow, Written
  <2>3. Written(items, a, k)
    BY <1>4, <1>8, <1>12, <2>2
  <2>4. s.verdict = "ok" => s.n = k + Len(items)
    BY <1>3, <1>7, <2>1 DEF q
  <2>5. Follow(s.held, a, k + Len(items))
    BY <1>3 DEF Follow
  <2> QED
    BY <1>11, <2>3, <2>4, <2>5 DEF Accounted
<1>13. at[a].terminal => items = <<>> /\ Closed(s) /\ s.n = at[a].n
  BY <1>7, <1>8 DEF Closed
<1>14. ~(s.terminal /\ ~at[a].terminal /\ (Live(s) \/ s.verdict = "ok"))
  OBVIOUS
<1>15. s.verdict = "tool_markup_as_text" \/ (Live(s) /\ s.hold) =>
          at[a].hold /\ \A i \in DOMAIN items : items[i].kind # "text"
  BY <1>3
<1> QED
  BY <1>9, <1>10, <1>11, <1>12, <1>13, <1>14, <1>15 DEF Writes, LiveStep

(* The same with the verdict of the classification.                        *)
LEMMA JudgedStep ==
  ASSUME IInv, NEW a \in Attempts, Live(at[a]), NEW s \in AttemptType, NEW items,
         Becomes(a, Judged(s), items), s.held = <<>>, ~s.abandoned,
         items = <<>> \/ items = at[a].held \/ ("aborted" \in s.found /\ ~at[a].terminal),
         "aborted" \in s.found /\ ~at[a].terminal =>
            items = Append(at[a].held, Item(a, at[a].n + 1, "end")),
         s.found = {} /\ s.had =>
            items = at[a].held /\ s.n = at[a].n /\ (s.terminal \/ s.drained),
         s.terminal => at[a].terminal \/ s.found # {},
         "tool_markup_as_text" \in s.found => at[a].hold /\ items = <<>>,
         at[a].terminal => s.n = at[a].n /\ s.had /\ s.found \in {{}, {"aborted"}}
  PROVE  Writes(a)
<1> DEFINE j == Judged(s)
           found == IF s.had THEN s.found ELSE s.found \cup {"empty_response"}
<1>1. /\ j \in AttemptType /\ ~j.reading /\ j.abandoned = s.abandoned /\ j.n = s.n
      /\ j.held = s.held /\ j.found = s.found /\ j.verdict \in {"ok"} \cup found
      /\ j.terminal = s.terminal /\ j.drained = s.drained
      /\ j.verdict \notin {"none", "empty_timeout", "stall_timeout"}
      /\ j.verdict = "ok" <=> found = {}
      /\ "aborted" \in found => j.verdict = "aborted"
  BY Judging
<1>2. Becomes(a, j, items)
  OBVIOUS
<1>3. j.verdict = "ok" <=> s.found = {} /\ s.had
  BY <1>1
<1>4. j.verdict = "aborted" <=> "aborted" \in s.found
  BY <1>1
<1>5. j.verdict = "tool_markup_as_text" => "tool_markup_as_text" \in s.found
  BY <1>1
<1>6. at[a].terminal => j.verdict \in {"ok", "aborted"}
  BY <1>1
<1> HIDE DEF j, found
<1> QED
  BY <1>1, <1>2, <1>3, <1>4, <1>5, <1>6, StopStep DEF Live

(* The loop goes on: its event is queued behind what is held, or goes out  *)
(* behind it.                                                              *)
LEMMA ForwardStep ==
  ASSUME IInv, NEW a \in Attempts, Live(at[a]), ~at[a].terminal,
         NEW kind \in {"text", "other", "end"},
         NEW s \in AttemptType, NEW items, Becomes(a, s, items),
         Live(s), s.found = {}, s.verdict = "none", s.n = at[a].n + 1,
         s.terminal <=> kind = "end", s.terminal => s.had /\ ~s.hold,
         LET w == Append(at[a].held, Item(a, at[a].n + 1, kind)) IN
            \/ s.held = w /\ items = <<>> /\ s.hold /\ s.heldText /\ kind # "end"
            \/ s.held = <<>> /\ items = w,
         s.hold => at[a].hold /\ (items = <<>> \/ (at[a].held = <<>> /\ kind # "text"))
  PROVE  Writes(a)
<1> DEFINE q == at[a].held
           e == Item(a, at[a].n + 1, kind)
           w == Append(q, e)
<1>1. at[a] \in AttemptType /\ Placed(at[a])
  BY DEF IInv
<1>2. /\ w \in Seq(ItemType) /\ w # <<>> /\ Len(w) \in Nat /\ w[Len(w)] = e
      /\ DOMAIN w = 1 .. Len(w)
      /\ \A i \in DOMAIN w : w[i].kind = "end" => i = Len(w) /\ kind = "end"
      /\ \A k \in 0 .. Events + 1 : Accounted(at[a], a, k) =>
            /\ Written(w, a, k) /\ k + Len(w) = at[a].n + 1
            /\ kind # "end" => Follow(w, a, k)
  BY NextItem
<1>3. <<>> \in Seq(ItemType) /\ Len(<<>>) = 0 /\ DOMAIN <<>> = {}
  OBVIOUS
<1>4. q = <<>> => DOMAIN w = {1} /\ w[1] = e
  OBVIOUS
<1>5. e.kind = kind
  BY DEF Item
<1> HIDE DEF w, q
<1>6. \/ s.held = w /\ items = <<>> /\ s.hold /\ s.heldText /\ kind # "end"
      \/ s.held = <<>> /\ items = w
  BY DEF w, q
<1>7. items \in Seq(ItemType) /\ Placed(s) /\ Started(s)
  BY <1>2, <1>3, <1>6 DEF Placed, Started, Live
<1>8. ASSUME NEW k \in 0 .. Events + 1, Accounted(at[a], a, k)
      PROVE  Written(items, a, k) /\ Accounted(s, a, k + Len(items))
  <2>1. Written(w, a, k) /\ k + Len(w) = at[a].n + 1 /\ (kind # "end" => Follow(w, a, k))
    BY <1>2, <1>8
  <2>2. CASE s.held = w /\ items = <<>> /\ kind # "end"
    <3>1. k + Len(items) = k
      BY <1>3, <2>2
    <3>2. Written(items, a, k)
      BY <1>3, <2>2 DEF Written
    <3> QED
      BY <1>7, <2>1, <2>2, <3>1, <3>2 DEF Accounted
  <2>3. CASE s.held = <<>> /\ items = w
    <3>1. s.n = k + Len(items) /\ k + Len(items) + Len(s.held) = k + Len(items)
      <4>1. s.n = k + Len(items)
        BY <2>1, <2>3
      <4>2. Len(s.held) = 0 /\ Len(items) \in Nat
        BY <1>2, <1>3, <2>3
      <4>3. k \in Nat
        BY ConsumeAssumption
      <4> QED
        BY <4>1, <4>2, <4>3
    <3>2. Follow(s.held, a, k + Len(items))
      BY <1>3, <2>3 DEF Follow
    <3> QED
      BY <1>7, <2>1, <2>3, <3>1, <3>2 DEF Accounted
  <2> QED
    BY <1>6, <2>2, <2>3
<1>9. s.hold => at[a].hold /\ \A i \in DOMAIN items : items[i].kind # "text"
  BY <1>3, <1>4, <1>5, <1>6 DEF q
<1>10. \A i \in DOMAIN items : items[i].kind = "end" => i = Len(items) /\ Closed(s)
  BY <1>2, <1>3, <1>6 DEF Closed
<1>11. s.terminal => items # <<>> /\ items[Len(items)] = Item(a, s.n, "end")
  BY <1>2, <1>6
<1>12. s.verdict # "tool_markup_as_text" /\ ~(s.abandoned /\ "aborted" \in s.found)
  OBVIOUS
<1> QED
  BY <1>7, <1>8, <1>9, <1>10, <1>11, <1>12 DEF Writes, LiveStep

-----------------------------------------------------------------------------
(* Every event of an attached attempt is one of these steps.               *)
\* The loop reads one more event of a.
LEMMA ReadsOne ==
  ASSUME IInv, NEW a \in Attempts, Reads(a)
  PROVE  /\ Live(at[a]) /\ ~at[a].terminal /\ at[a] \in AttemptType
         /\ at[a].n \in Nat /\ at[a].n + 1 \in 0 .. Events
         /\ at[a].found = {} /\ at[a].verdict = "none"
         /\ at[a].held # <<>> => at[a].hold /\ at[a].heldText
<1>1. at[a] \in AttemptType /\ Placed(at[a]) /\ Live(at[a]) /\ ~at[a].terminal /\ at[a].n < Events
  BY DEF IInv, Reads, Live
<1>2. at[a].n \in 0 .. Events
  BY <1>1 DEF AttemptType
<1> QED
  BY <1>1, <1>2, ConsumeAssumption DEF Placed

LEMMA OtherEventWrites ==
  ASSUME IInv, NEW a \in Attempts, NEW content \in BOOLEAN, OtherEvent(a, content)
  PROVE  Live(at[a]) /\ Writes(a)
<1> DEFINE s == [Next1(a) EXCEPT !.had = @ \/ content]
           e == Item(a, at[a].n + 1, "other")
           h == [s EXCEPT !.held = Append(@, Item(a, s.n, "other"))]
<1>1. Reads(a)
  BY DEF OtherEvent
<1>2. /\ Live(at[a]) /\ ~at[a].terminal /\ at[a] \in AttemptType
      /\ at[a].n + 1 \in 0 .. Events /\ at[a].found = {} /\ at[a].verdict = "none"
      /\ at[a].held # <<>> => at[a].hold /\ at[a].heldText
  BY <1>1, ReadsOne
<1>3. /\ s \in AttemptType /\ Live(s) /\ s.found = {} /\ s.verdict = "none" /\ s.n = at[a].n + 1
      /\ s.held = at[a].held /\ ~s.terminal /\ s.hold = at[a].hold /\ s.heldText = at[a].heldText
  BY <1>2 DEF AttemptType, Next1, Live
<1>4. CASE Holds(s, "other")
  <2>1. Becomes(a, h, <<>>)
    BY <1>4 DEF OtherEvent
  <2>2. s.hold /\ s.heldText
    BY <1>4 DEF Holds
  <2>3. Append(at[a].held, e) \in Seq(ItemType)
    BY <1>2, NextItem
  <2>4. /\ h \in AttemptType /\ Live(h) /\ h.found = {} /\ h.verdict = "none"
        /\ h.n = at[a].n + 1 /\ h.held = Append(at[a].held, e) /\ ~h.terminal
        /\ h.hold /\ h.heldText
    BY <1>3, <2>2, <2>3 DEF AttemptType, Live
  <2> HIDE DEF h, s
  <2> QED
    BY <1>2, <1>3, <2>1, <2>2, <2>4, ForwardStep DEF Holds
<1>5. CASE ~Holds(s, "other")
  <2>1. Becomes(a, s, <<e>>)
    BY <1>3, <1>5 DEF OtherEvent
  <2>2. at[a].held = <<>>
    BY <1>2, <1>3, <1>5 DEF Holds
  <2>3. <<e>> = Append(at[a].held, e)
    BY <2>2
  <2> HIDE DEF s
  <2> QED
    BY <1>2, <1>3, <2>1, <2>2, <2>3, ForwardStep
<1> QED
  BY <1>2, <1>4, <1>5

LEMMA TextEventWrites ==
  ASSUME IInv, NEW a \in Attempts, NEW content \in BOOLEAN, NEW markup \in BOOLEAN,
         NEW full \in BOOLEAN, TextEvent(a, content, markup, full)
  PROVE  Live(at[a]) /\ Writes(a)
<1> DEFINE s == [Next1(a) EXCEPT !.had = @ \/ content,
                                 !.markup = @ \/ (content /\ markup /\ at[a].hold)]
           e == Item(a, at[a].n + 1, "text")
           h == [s EXCEPT !.held = Append(@, Item(a, s.n, "text")), !.heldText = TRUE]
           r == Released(h)
<1>1. Reads(a)
  BY DEF TextEvent
<1>2. /\ Live(at[a]) /\ ~at[a].terminal /\ at[a] \in AttemptType
      /\ at[a].n + 1 \in 0 .. Events /\ at[a].found = {} /\ at[a].verdict = "none"
      /\ at[a].held # <<>> => at[a].hold /\ at[a].heldText
  BY <1>1, ReadsOne
<1>3. /\ s \in AttemptType /\ Live(s) /\ s.found = {} /\ s.verdict = "none" /\ s.n = at[a].n + 1
      /\ s.held = at[a].held /\ ~s.terminal /\ s.hold = at[a].hold
  BY <1>2 DEF AttemptType, Next1, Live
<1> HIDE DEF s
<1>4. Append(at[a].held, e) \in Seq(ItemType)
  BY <1>2, NextItem
<1>5. /\ h \in AttemptType /\ Live(h) /\ h.found = {} /\ h.verdict = "none"
      /\ h.n = at[a].n + 1 /\ h.held = Append(at[a].held, e) /\ ~h.terminal
      /\ h.hold = at[a].hold /\ h.heldText
  BY <1>3, <1>4 DEF AttemptType, Live
<1> HIDE DEF h
<1>6. /\ r \in AttemptType /\ Live(r) /\ r.found = {} /\ r.verdict = "none"
      /\ r.n = at[a].n + 1 /\ r.held = <<>> /\ ~r.terminal /\ ~r.hold
  BY <1>5, Releasing DEF Live
<1>7. CASE ~Holds(s, "text")
  <2>1. Becomes(a, s, <<e>>)
    <3>1. Becomes(a, s, <<Item(a, s.n, "text")>>)
      BY <1>7 DEF TextEvent, s
    <3> QED
      BY <1>3, <3>1
  <2>2. at[a].held = <<>> /\ ~s.hold
    BY <1>2, <1>3, <1>7 DEF Holds
  <2>3. <<e>> = Append(at[a].held, e)
    BY <2>2
  <2> QED
    BY <1>2, <1>3, <2>1, <2>2, <2>3, ForwardStep
<1>8. CASE Holds(s, "text") /\ full /\ ~h.markup
  <2>1. Becomes(a, r, h.held)
    BY <1>8 DEF TextEvent, s, h
  <2> HIDE DEF r
  <2> QED
    BY <1>2, <1>5, <1>6, <2>1, ForwardStep
<1>9. CASE Holds(s, "text") /\ ~(full /\ ~h.markup)
  <2>1. Becomes(a, h, <<>>)
    BY <1>9 DEF TextEvent, s, h
  <2>2. h.hold /\ at[a].hold
    BY <1>3, <1>5, <1>9 DEF Holds
  <2> QED
    BY <1>2, <1>5, <2>1, <2>2, ForwardStep
<1> QED
  BY <1>2, <1>7, <1>8, <1>9

LEMMA ToolCallEventWrites ==
  ASSUME IInv, NEW a \in Attempts, ToolCallEvent(a)
  PROVE  Live(at[a]) /\ Writes(a)
<1> DEFINE s == [Next1(a) EXCEPT !.had = TRUE]
           e == Item(a, at[a].n + 1, "other")
           r == Released(s)
<1>1. Reads(a)
  BY DEF ToolCallEvent
<1>2. /\ Live(at[a]) /\ ~at[a].terminal /\ at[a] \in AttemptType
      /\ at[a].n + 1 \in 0 .. Events /\ at[a].found = {} /\ at[a].verdict = "none"
  BY <1>1, ReadsOne
<1>3. /\ s \in AttemptType /\ s.n = at[a].n + 1 /\ s.held = at[a].held /\ Live(s)
      /\ s.found = {} /\ s.verdict = "none" /\ ~s.terminal
  BY <1>2 DEF AttemptType, Next1, Live
<1>6. /\ r \in AttemptType /\ Live(r) /\ r.found = {} /\ r.verdict = "none"
      /\ r.n = at[a].n + 1 /\ r.held = <<>> /\ ~r.terminal /\ ~r.hold
  <2> HIDE DEF s
  <2> QED
    BY <1>3, Releasing DEF Live
<1>4. s.held \o <<Item(a, s.n, "other")>> = Append(at[a].held, e)
  BY <1>2, <1>3, NextItem
<1>5. Becomes(a, r, Append(at[a].held, e))
  BY <1>4 DEF ToolCallEvent
<1> HIDE DEF s, r
<1> QED
  BY <1>2, <1>5, <1>6, ForwardStep

LEMMA TextIsRejectedWrites ==
  ASSUME IInv, NEW a \in Attempts, NEW why \in {"context_overflow", "repetition_loop"},
         TextIsRejected(a, why)
  PROVE  Live(at[a]) /\ Writes(a)
<1> DEFINE s == [Next1(a) EXCEPT !.had = TRUE, !.found = @ \cup {why}]
           r == Released(s)
<1>1. Reads(a) /\ Becomes(a, Judged(r), <<>>)
  BY DEF TextIsRejected, EndsDiscarding
<1>2. /\ Live(at[a]) /\ ~at[a].terminal /\ at[a] \in AttemptType
      /\ at[a].n + 1 \in 0 .. Events /\ at[a].found = {} /\ at[a].verdict = "none"
  BY <1>1, ReadsOne
<1>3. why \in ToSet(Order)
  BY OrderMembers
<1>4. s \in AttemptType /\ s.found = {why} /\ ~s.abandoned
  BY <1>2, <1>3 DEF AttemptType, Next1, Live
<1>5. r \in AttemptType /\ r.found = {why} /\ r.held = <<>> /\ ~r.abandoned
  <2> HIDE DEF s
  <2> QED
    BY <1>4, Releasing
<1> HIDE DEF s, r
<1> QED
  BY <1>1, <1>2, <1>5, JudgedStep

(* The loop returns, and the code behind the race decides.                 *)
LEMMA EndsStep ==
  ASSUME IInv, NEW a \in Attempts, Live(at[a]), NEW s \in AttemptType, Ends(a, s),
         s.held = at[a].held, s.hold = at[a].hold, ~s.abandoned,
         "aborted" \notin s.found, "tool_markup_as_text" \notin s.found,
         s.found = {} /\ s.had /\ ~(s.hold /\ s.markup) => s.n = at[a].n /\ s.drained,
         at[a].terminal => s.n = at[a].n /\ s.had = at[a].had /\ s.found = at[a].found,
         s.terminal <=> at[a].terminal
  PROVE  Writes(a)
<1> DEFINE r == Released(s)
           m == [r EXCEPT !.found = @ \cup {"tool_markup_as_text"}]
<1>1. /\ r \in AttemptType /\ r.held = <<>> /\ ~r.abandoned /\ r.n = s.n /\ r.had = s.had
      /\ r.found = s.found /\ r.terminal = s.terminal /\ r.drained = s.drained
  BY Releasing
<1>2. "tool_markup_as_text" \in ToSet(Order)
  BY OrderMembers
<1>3. at[a].terminal => at[a].had /\ ~at[a].hold /\ at[a].found = {}
  BY DEF IInv, Placed
<1>4. CASE s.hold /\ s.markup
  <2>1. Becomes(a, Judged(m), <<>>)
    BY <1>4 DEF Ends
  <2> HIDE DEF r
  <2>2. m \in AttemptType /\ m.held = <<>> /\ ~m.abandoned /\ m.found = s.found \cup {"tool_markup_as_text"}
        /\ m.terminal = s.terminal
    BY <1>1, <1>2 DEF AttemptType
  <2> HIDE DEF m
  <2>3. "aborted" \notin m.found /\ m.found # {} /\ ~at[a].terminal
    BY <1>3, <1>4, <2>2
  <2> QED
    BY <1>4, <2>1, <2>2, <2>3, JudgedStep
<1>5. CASE ~(s.hold /\ s.markup)
  <2>1. Becomes(a, Judged(r), at[a].held)
    BY <1>5 DEF Ends
  <2> HIDE DEF r
  <2> QED
    BY <1>1, <1>3, <1>5, <2>1, JudgedStep
<1> QED
  BY <1>4, <1>5

LEMMA DoneEventWrites ==
  ASSUME IInv, NEW a \in Attempts, NEW truncated \in BOOLEAN, DoneEvent(a, truncated)
  PROVE  Live(at[a]) /\ Writes(a)
<1> DEFINE s == Next1(a)
           c == [s EXCEPT !.found = @ \cup {"truncated_length"}]
           r == Released(s)
           t == [r EXCEPT !.terminal = TRUE]
           e == Item(a, at[a].n + 1, "end")
<1>1. Reads(a)
  BY DEF DoneEvent
<1>2. /\ Live(at[a]) /\ ~at[a].terminal /\ at[a] \in AttemptType
      /\ at[a].n + 1 \in 0 .. Events /\ at[a].found = {} /\ at[a].verdict = "none"
  BY <1>1, ReadsOne
<1>3. /\ s \in AttemptType /\ Live(s) /\ s.found = {} /\ s.verdict = "none"
      /\ s.n = at[a].n + 1 /\ s.held = at[a].held /\ ~s.terminal /\ s.hold = at[a].hold
      /\ ~s.abandoned
  BY <1>2 DEF AttemptType, Next1, Live
<1>4. \/ truncated /\ Ends(a, c)
      \/ ~truncated /\ ~s.had /\ Becomes(a, Judged(r), s.held)
      \/ ~truncated /\ s.had /\ s.hold /\ s.markup /\ Ends(a, s)
      \/ s.had /\ Becomes(a, t, s.held \o <<Item(a, s.n, "end")>>)
  BY DEF DoneEvent
<1> HIDE DEF s
<1>5. /\ r \in AttemptType /\ r.held = <<>> /\ ~r.hold /\ ~r.heldText /\ r.reading = s.reading
      /\ ~r.abandoned /\ r.n = s.n /\ r.had = s.had /\ ~r.terminal /\ r.found = {}
      /\ r.verdict = "none"
  BY <1>3, Releasing
<1>6. CASE truncated /\ Ends(a, c)
  <2>1. "truncated_length" \in ToSet(Order)
    BY OrderMembers
  <2>2. /\ c \in AttemptType /\ c.held = at[a].held /\ c.hold = at[a].hold /\ ~c.abandoned
        /\ c.found = {"truncated_length"} /\ ~c.terminal
    BY <1>3, <2>1 DEF AttemptType
  <2> HIDE DEF c
  <2> QED
    BY <1>2, <1>6, <2>2, EndsStep
<1> HIDE DEF r
<1>7. CASE ~s.had /\ Becomes(a, Judged(r), s.held)
  <2>1. Becomes(a, Judged(r), at[a].held)
    BY <1>3, <1>7
  <2> QED
    BY <1>2, <1>5, <1>7, <2>1, JudgedStep
<1>8. CASE s.had /\ s.hold /\ s.markup /\ Ends(a, s)
  BY <1>2, <1>3, <1>8, EndsStep
<1>9. CASE s.had /\ Becomes(a, t, s.held \o <<Item(a, s.n, "end")>>)
  <2>1. /\ t \in AttemptType /\ t.held = <<>> /\ ~t.hold /\ Live(t) /\ t.n = at[a].n + 1
        /\ t.had /\ t.terminal /\ t.found = {} /\ t.verdict = "none"
    BY <1>3, <1>5, <1>9 DEF AttemptType, Live
  <2>2. Becomes(a, t, Append(at[a].held, e))
    BY <1>2, <1>3, <1>9, NextItem
  <2> HIDE DEF t
  <2> QED
    BY <1>2, <2>1, <2>2, ForwardStep
<1> QED
  BY <1>2, <1>4, <1>6, <1>7, <1>8, <1>9

LEMMA AbortEventWrites ==
  ASSUME IInv, NEW a \in Attempts, AbortEvent(a)
  PROVE  Live(at[a]) /\ Writes(a)
<1> DEFINE s == Next1(a)
           r == [Released(s) EXCEPT !.terminal = TRUE, !.found = @ \cup {"aborted"}]
<1>1. Reads(a) /\ Becomes(a, Judged(r), s.held \o <<Item(a, s.n, "end")>>)
  BY DEF AbortEvent
<1>2. /\ Live(at[a]) /\ ~at[a].terminal /\ at[a] \in AttemptType
      /\ at[a].n + 1 \in 0 .. Events /\ at[a].found = {} /\ at[a].verdict = "none"
  BY <1>1, ReadsOne
<1>3. /\ s \in AttemptType /\ Live(s) /\ s.found = {} /\ s.n = at[a].n + 1
      /\ s.held = at[a].held /\ ~s.abandoned
  BY <1>2 DEF AttemptType, Next1, Live
<1> HIDE DEF s
<1>4. Becomes(a, Judged(r), Append(at[a].held, Item(a, at[a].n + 1, "end")))
  BY <1>1, <1>2, <1>3, NextItem
<1>5. "aborted" \in ToSet(Order)
  BY OrderMembers
<1>6. /\ Released(s) \in AttemptType /\ Released(s).held = <<>> /\ ~Released(s).abandoned
      /\ Released(s).found = {}
  BY <1>3, Releasing
<1>7. r \in AttemptType /\ r.held = <<>> /\ ~r.abandoned /\ r.found = {"aborted"}
  BY <1>5, <1>6 DEF AttemptType
<1> HIDE DEF r
<1> QED
  BY <1>2, <1>4, <1>7, JudgedStep

LEMMA ErrorEventWrites ==
  ASSUME IInv, NEW a \in Attempts, NEW why \in Complaints, ErrorEvent(a, why)
  PROVE  Live(at[a]) /\ Writes(a)
<1> DEFINE s == [Next1(a) EXCEPT !.found = @ \cup why]
<1>1. Reads(a) /\ Ends(a, s)
  BY DEF ErrorEvent
<1>2. /\ Live(at[a]) /\ ~at[a].terminal /\ at[a] \in AttemptType
      /\ at[a].n + 1 \in 0 .. Events /\ at[a].found = {} /\ at[a].verdict = "none"
  BY <1>1, ReadsOne
<1>3. /\ why \subseteq ToSet(Order) /\ why # {}
      /\ "aborted" \notin why /\ "tool_markup_as_text" \notin why
  BY OrderMembers DEF Complaints
<1>4. /\ s \in AttemptType /\ s.held = at[a].held /\ s.hold = at[a].hold /\ ~s.abandoned
      /\ s.found = why /\ ~s.terminal
  BY <1>2, <1>3 DEF AttemptType, Next1, Live
<1> HIDE DEF s
<1> QED
  BY <1>1, <1>2, <1>3, <1>4, EndsStep

LEMMA MalformedEventWrites ==
  ASSUME IInv, NEW a \in Attempts, MalformedEvent(a)
  PROVE  Live(at[a]) /\ Writes(a)
<1> DEFINE s == [Next1(a) EXCEPT !.found = @ \cup {"stream_threw"}]
<1>1. Reads(a) /\ Ends(a, s)
  BY DEF MalformedEvent
<1>2. /\ Live(at[a]) /\ ~at[a].terminal /\ at[a] \in AttemptType
      /\ at[a].n + 1 \in 0 .. Events /\ at[a].found = {} /\ at[a].verdict = "none"
  BY <1>1, ReadsOne
<1>3. "stream_threw" \in ToSet(Order)
  BY OrderMembers
<1>4. /\ s \in AttemptType /\ s.held = at[a].held /\ s.hold = at[a].hold /\ ~s.abandoned
      /\ s.found = {"stream_threw"} /\ ~s.terminal
  BY <1>2, <1>3 DEF AttemptType, Next1, Live
<1> HIDE DEF s
<1> QED
  BY <1>1, <1>2, <1>4, EndsStep

(* What ends a loop without an event.                                      *)
LEMMA UpstreamEndsWrites ==
  ASSUME IInv, NEW a \in Attempts, UpstreamEnds(a)
  PROVE  Live(at[a]) /\ Writes(a)
<1> DEFINE s == [at[a] EXCEPT !.drained = TRUE]
<1>1. Live(at[a]) /\ ~at[a].abandoned /\ Ends(a, s)
  BY DEF UpstreamEnds, Live
<1>2. at[a] \in AttemptType /\ at[a].found = {}
  BY <1>1 DEF IInv, Placed
<1>3. /\ s \in AttemptType /\ s.drained /\ s.held = at[a].held /\ s.hold = at[a].hold
      /\ ~s.abandoned /\ s.found = {} /\ s.n = at[a].n /\ s.had = at[a].had
      /\ s.terminal = at[a].terminal
  BY <1>1, <1>2 DEF AttemptType
<1> HIDE DEF s
<1> QED
  BY <1>1, <1>2, <1>3, EndsStep

LEMMA ThrowsWrites ==
  ASSUME IInv, NEW a \in Attempts, Throws(a)
  PROVE  Live(at[a]) /\ Writes(a)
<1> DEFINE r == Released(at[a])
           c == [r EXCEPT !.found = @ \cup {"stream_threw"}]
<1>1. /\ Live(at[a]) /\ ~at[a].abandoned
      /\ Becomes(a, Judged(IF r.terminal THEN r ELSE c), at[a].held)
  BY DEF Throws, Live
<1>2. at[a] \in AttemptType /\ at[a].found = {} /\ (at[a].terminal => at[a].had)
  BY <1>1 DEF IInv, Placed
<1>3. /\ r \in AttemptType /\ r.held = <<>> /\ ~r.abandoned /\ r.n = at[a].n /\ r.had = at[a].had
      /\ r.found = {} /\ r.terminal = at[a].terminal
  BY <1>1, <1>2, Releasing
<1> HIDE DEF r
<1>4. CASE at[a].terminal
  <2>1. Becomes(a, Judged(r), at[a].held)
    BY <1>1, <1>3, <1>4
  <2> QED
    BY <1>1, <1>2, <1>3, <1>4, <2>1, JudgedStep
<1>5. CASE ~at[a].terminal
  <2>1. Becomes(a, Judged(c), at[a].held)
    BY <1>1, <1>3, <1>5
  <2>2. "stream_threw" \in ToSet(Order)
    BY OrderMembers
  <2>3. c \in AttemptType /\ c.held = <<>> /\ ~c.abandoned /\ c.found = {"stream_threw"}
    BY <1>3, <2>2 DEF AttemptType
  <2> HIDE DEF c
  <2> QED
    BY <1>1, <1>5, <2>1, <2>3, JudgedStep
<1> QED
  BY <1>1, <1>4, <1>5

LEMMA ThrowsAbortWrites ==
  ASSUME IInv, NEW a \in Attempts, ThrowsAbort(a), ~at[a].abandoned
  PROVE  Live(at[a]) /\ Writes(a)
<1> DEFINE r == Released(at[a])
           c == [r EXCEPT !.terminal = TRUE, !.found = @ \cup {"aborted"}]
           e == Item(a, at[a].n + 1, "end")
           last == IF at[a].terminal THEN <<>> ELSE <<e>>
<1>1. Live(at[a]) /\ Becomes(a, Judged(c), at[a].held \o last)
  BY DEF ThrowsAbort, Live
<1>2. /\ at[a] \in AttemptType /\ at[a].found = {}
      /\ at[a].terminal => at[a].had /\ at[a].held = <<>>
  BY <1>1 DEF IInv, Placed
<1>3. /\ r \in AttemptType /\ r.held = <<>> /\ ~r.abandoned /\ r.n = at[a].n /\ r.had = at[a].had
      /\ r.found = {}
  BY <1>2, Releasing
<1> HIDE DEF r
<1>4. "aborted" \in ToSet(Order)
  BY OrderMembers
<1>5. /\ c \in AttemptType /\ c.held = <<>> /\ ~c.abandoned /\ c.n = at[a].n /\ c.had = at[a].had
      /\ c.found = {"aborted"}
  BY <1>3, <1>4 DEF AttemptType
<1>6. CASE at[a].terminal
  <2>1. at[a].held \o last = <<>>
    BY <1>2, <1>6
  <2>2. Becomes(a, Judged(c), <<>>)
    BY <1>1, <2>1
  <2> HIDE DEF c
  <2> QED
    BY <1>1, <1>2, <1>5, <1>6, <2>2, JudgedStep
<1>7. CASE ~at[a].terminal
  <2>1. at[a].held \o last = Append(at[a].held, e)
    BY <1>1, <1>7, NextItem
  <2>2. Becomes(a, Judged(c), Append(at[a].held, e))
    BY <1>1, <2>1
  <2> HIDE DEF c
  <2> QED
    BY <1>1, <1>5, <1>7, <2>2, JudgedStep
<1> QED
  BY <1>1, <1>6, <1>7

LEMMA TimesOutWrites ==
  ASSUME IInv, NEW a \in Attempts, TimesOut(a)
  PROVE  Live(at[a]) /\ Writes(a)
<1> DEFINE r == Released(at[a])
           v == IF at[a].had THEN "stall_timeout" ELSE "empty_timeout"
           s == [r EXCEPT !.abandoned = TRUE, !.verdict = v]
           items == IF at[a].hold /\ at[a].markup THEN <<>> ELSE at[a].held
<1>1. Live(at[a]) /\ ~at[a].terminal /\ Becomes(a, s, items)
  BY DEF TimesOut, Live
<1>2. at[a] \in AttemptType /\ at[a].found = {}
  BY <1>1 DEF IInv, Placed
<1>3. r \in AttemptType /\ r.held = <<>> /\ r.found = {}
  BY <1>2, Releasing
<1>4. v \in {"stall_timeout", "empty_timeout"} /\ v \in Verdicts
  BY DEF Verdicts
<1> HIDE DEF r, v
<1>5. /\ s \in AttemptType /\ s.held = <<>> /\ s.abandoned /\ s.verdict = v /\ s.found = {}
  BY <1>3, <1>4 DEF AttemptType
<1>6. items = <<>> \/ items = at[a].held
  OBVIOUS
<1> HIDE DEF s, items
<1> QED
  BY <1>1, <1>4, <1>5, <1>6, StopStep DEF Live

-----------------------------------------------------------------------------
(* The steps of nobody's attached loop.                                    *)
LEMMA NoItems ==
  ASSUME proxy \in Seq(ItemType), proxy' = proxy \o <<>>
  PROVE  /\ proxy' = proxy /\ Ended' = Ended /\ Finished' = Finished
         /\ \A b : From(b)' = From(b) /\ (NoText(b)' <=> NoText(b))
         /\ \A b, k : ShownUpTo(b, k)' <=> ShownUpTo(b, k)
<1>1. proxy' = proxy
  BY ConcatEmptySeq
<1> QED
  BY <1>1 DEF Ended, Finished, From, NoText, ShownUpTo

(* The loop of an abandoned attempt ends: it writes nothing, unless it     *)
(* ends on an AbortError.                                                  *)
LEMMA DetachedPreserves ==
  ASSUME IInv, NEW a \in Attempts, at[a].abandoned, NEW s \in AttemptType,
         NEW items \in Seq(ItemType), Becomes(a, s, items),
         ~s.reading, s.abandoned, s.verdict = at[a].verdict, s.held = <<>>,
         \A i \in DOMAIN items : items[i].from = a /\ i = Len(items),
         "aborted" \in s.found \/ (items = <<>> /\ s.found = at[a].found)
  PROVE  IInv'
<1>1. /\ at \in [Attempts -> AttemptType] /\ proxy \in Seq(ItemType)
      /\ at' = [at EXCEPT ![a] = s] /\ proxy' = proxy \o items
  BY DEF Becomes, IInv
<1>2. /\ at' \in [Attempts -> AttemptType] /\ at'[a] = s
      /\ \A b \in Attempts \ {a} : at'[b] = at[b]
  BY <1>1
<1>3. /\ at[a].verdict \in {"empty_timeout", "stall_timeout"}
      /\ ~Live(at[a]) /\ ~Closed(at[a]) /\ ~Live(s) /\ ~Closed(s) /\ Started(s) /\ Started(at[a])
  BY DEF IInv, Placed, Live, Closed, Started
<1>4. proxy' \in Seq(ItemType)
  BY <1>1, Pushed
<1>5. \A b \in Attempts : Placed(at'[b])
  BY <1>2, <1>3 DEF IInv, Placed, Started, Live
<1>6. \A b \in Attempts : /\ Started(at'[b]) <=> Started(at[b])
                          /\ Closed(at'[b]) <=> Closed(at[b])
                          /\ at'[b].verdict = at[b].verdict
  BY <1>2, <1>3
<1>7. /\ \A b \in Attempts : Intrudes(b) => Intrudes(b)'
      /\ Intrudes(a)' \/ items = <<>>
  BY <1>2 DEF Intrudes
<1>8. items = <<>> => /\ proxy' = proxy /\ Ended' = Ended /\ Finished' = Finished
                      /\ \A b : From(b)' = From(b) /\ (NoText(b)' <=> NoText(b))
                      /\ \A b, k : ShownUpTo(b, k)' <=> ShownUpTo(b, k)
  BY <1>1, NoItems
<1>9. ASSUME NEW b \in Attempts, ~Intrudes(b)'
      PROVE  \E k \in 0 .. Events + 1 : ShownUpTo(b, k)' /\ Accounted(at'[b], b, k)
  <2>1. PICK k \in 0 .. Events + 1 : ShownUpTo(b, k) /\ Accounted(at[b], b, k)
    BY <1>7, <1>9 DEF IInv
  <2>2. CASE b = a
    <3>1. ShownUpTo(b, k)'
      BY <1>7, <1>8, <1>9, <2>1, <2>2
    <3>2. Follow(<<>>, a, k)
      BY DEF Follow
    <3>3. Accounted(s, a, k)
      BY <1>3, <3>2 DEF Accounted
    <3> QED
      BY <1>2, <2>2, <3>1, <3>3
  <2>3. CASE b # a
    <3>1. k \in Nat /\ \A i \in DOMAIN items : items[i].from # b
      BY <2>3, ConsumeAssumption
    <3>2. ShownUpTo(b, k)'
      BY <1>1, <2>1, <3>1, OthersKeep
    <3> QED
      BY <1>2, <2>1, <2>3, <3>2
  <2> QED
    BY <2>2, <2>3
<1>10. ASSUME NEW b \in Attempts PROVE Withheld(at[b], b)'
  <2>1. CASE b = a
    BY <1>2, <1>3, <2>1 DEF Withheld
  <2>2. CASE b # a
    <3>1. NoText(b) => NoText(b)'
      BY <1>1, <2>2, OthersKeep
    <3>2. at'[b] = at[b] /\ Withheld(at[b], b)
      BY <1>2, <2>2 DEF IInv
    <3> QED
      BY <3>1, <3>2 DEF Withheld
  <2> QED
    BY <2>1, <2>2
<1>11. \A x, b \in Attempts : Started(at'[x]) /\ b < x => at'[b].verdict \in Failed
  BY <1>6 DEF IInv
<1>12. Finished' => Finished
  <2> SUFFICES ASSUME NEW i \in DOMAIN proxy', proxy'[i].from = 0 PROVE Finished
    BY DEF Finished
  <2>1. i \in 1 .. Len(proxy) + Len(items) /\ Len(proxy) \in Nat /\ Len(items) \in Nat
    BY <1>1, Pushed
  <2>2. CASE i \in 1 .. Len(proxy)
    BY <1>1, <2>2, Pushed DEF Finished
  <2>3. CASE i \in Len(proxy) + 1 .. Len(proxy) + Len(items)
    <3>1. proxy'[i].from = a
      BY <1>1, <2>3, Pushed
    <3> QED
      BY <3>1, ConsumeAssumption DEF Attempts
  <2> QED
    BY <2>1, <2>2, <2>3
<1>13. Finished' => \A b \in Attempts : at'[b].verdict \in Failed
  BY <1>6, <1>12 DEF IInv
<1>14. Intruders \subseteq Intruders'
  BY <1>7 DEF Intruders
<1>15. /\ \A i \in Ended' : \/ i \in Ended /\ proxy'[i] = proxy[i]
                            \/ proxy'[i].from = a /\ \E n \in DOMAIN items : items[n].kind = "end"
       /\ \A b : \A i \in From(b) : i \in From(b)' /\ proxy'[i] = proxy[i]
  BY <1>1, EndsStay
<1>16. EndsOwned'
  <2> SUFFICES ASSUME NEW i \in Ended', proxy'[i].from # 0, proxy'[i].from \notin Intruders'
               PROVE  Closed(at'[proxy'[i].from])
    BY DEF EndsOwned
  <2>1. CASE i \in Ended /\ proxy'[i] = proxy[i]
    <3>1. Closed(at[proxy[i].from])
      BY <1>14, <2>1 DEF IInv, EndsOwned
    <3>2. proxy[i].from \in Attempts
      <4>1. i \in DOMAIN proxy
        BY <2>1 DEF Ended
      <4>2. proxy[i] \in ItemType
        BY <1>1, <4>1, ElementOfSeq, LenProperties
      <4>3. proxy[i].from \in 0 .. AttemptCount
        BY <4>2 DEF ItemType
      <4> QED
        BY <2>1, <4>3, ConsumeAssumption DEF Attempts
    <3> QED
      BY <1>6, <2>1, <3>1, <3>2
  <2>2. CASE proxy'[i].from = a /\ \E n \in DOMAIN items : items[n].kind = "end"
    BY <1>7, <2>2 DEF Intruders
  <2> QED
    BY <1>15, <2>1, <2>2
<1>17. EndsApart'
  <2>1. items = <<>> \/ a \in Intruders'
    BY <1>7 DEF Intruders
  <2>2. EndsApart
    BY DEF IInv
  <2> QED
    BY <1>1, <1>14, <2>1, <2>2, EndsStayApart
<1>18. ASSUME NEW b \in Attempts PROVE Capped(b)'
  <2> SUFFICES ASSUME at'[b].terminal, Live(at'[b]) \/ at'[b].verdict = "ok"
               PROVE  \E i \in From(b)' : proxy'[i] = Item(b, at'[b].n, "end")
    BY DEF Capped
  <2>1. b # a
    BY <1>2, <1>3 DEF Closed
  <2>2. PICK i \in From(b) : proxy[i] = Item(b, at[b].n, "end")
    BY <1>2, <2>1 DEF IInv, Capped
  <2> QED
    BY <1>2, <1>15, <2>1, <2>2
<1> QED
  BY <1>2, <1>4, <1>5, <1>9, <1>10, <1>11, <1>13, <1>16, <1>17, <1>18 DEF IInv

LEMMA LatePreserves ==
  ASSUME IInv, NEW a \in Attempts, Late(a)
  PROVE  IInv' /\ proxy' = proxy
<1> DEFINE s == [at[a] EXCEPT !.reading = FALSE]
<1>1. at[a].abandoned /\ Becomes(a, s, <<>>)
  BY DEF Late
<1>2. at[a] \in AttemptType /\ at[a].held = <<>>
  BY <1>1 DEF IInv, Placed, Live
<1>3. /\ s \in AttemptType /\ ~s.reading /\ s.abandoned /\ s.verdict = at[a].verdict
      /\ s.held = <<>> /\ s.found = at[a].found
  BY <1>1, <1>2 DEF AttemptType
<1>4. <<>> \in Seq(ItemType) /\ \A i \in DOMAIN <<>> : <<>>[i].from = a /\ i = Len(<<>>)
  OBVIOUS
<1>5. proxy' = proxy
  BY <1>1, NoItems DEF Becomes, IInv
<1> HIDE DEF s
<1> QED
  BY <1>1, <1>3, <1>4, <1>5, DetachedPreserves

LEMMA LateAbortPreserves ==
  ASSUME IInv, NEW a \in Attempts, ThrowsAbort(a), at[a].abandoned
  PROVE  /\ IInv' /\ Intrudes(a)'
         /\ \A i \in DOMAIN proxy' \ DOMAIN proxy : proxy'[i].from = a
<1> DEFINE r == Released(at[a])
           c == [r EXCEPT !.terminal = TRUE, !.found = @ \cup {"aborted"}]
           s == [c EXCEPT !.reading = FALSE]
           e == Item(a, at[a].n + 1, "end")
           last == IF at[a].terminal THEN <<>> ELSE <<e>>
<1>1. Becomes(a, s, last)
  BY DEF ThrowsAbort
<1>2. at \in [Attempts -> AttemptType] /\ at[a] \in AttemptType
  BY DEF IInv
<1>3. r \in AttemptType /\ r.held = <<>> /\ r.abandoned /\ r.verdict = at[a].verdict
  BY <1>2, Releasing
<1>4. "aborted" \in ToSet(Order)
  BY OrderMembers
<1> HIDE DEF r
<1>5. /\ s \in AttemptType /\ ~s.reading /\ s.abandoned /\ s.verdict = at[a].verdict
      /\ s.held = <<>> /\ "aborted" \in s.found
  BY <1>3, <1>4 DEF AttemptType
<1>6. e \in ItemType /\ e.from = a
  <2>1. at[a].n \in 0 .. Events
    BY <1>2 DEF AttemptType
  <2>2. at[a].n + 1 \in 1 .. Events + 1 /\ a \in 0 .. AttemptCount
    BY <2>1, ConsumeAssumption DEF Attempts
  <2> QED
    BY <2>2 DEF Item, ItemType
<1> HIDE DEF e
<1>7. last \in Seq(ItemType) /\ \A i \in DOMAIN last : last[i].from = a /\ i = Len(last)
  BY <1>6
<1>8. Intrudes(a)'
  BY <1>1, <1>2, <1>5 DEF Becomes, Intrudes
<1> HIDE DEF s, last
<1>9. IInv'
  BY <1>1, <1>5, <1>7, DetachedPreserves
<1>10. \A i \in DOMAIN proxy' \ DOMAIN proxy : proxy'[i].from = a
  <2>1. proxy \in Seq(ItemType) /\ proxy' = proxy \o last
    BY <1>1 DEF Becomes, IInv
  <2> QED
    BY <1>7, <2>1, NewItems
<1> QED
  BY <1>8, <1>9, <1>10

(* The next attempt starts.                                                *)
LEMMA NextStarts ==
  ASSUME IInv, NEW a \in Attempts, a < AttemptCount, NextAttempt(a)
  PROVE  IInv' /\ proxy' = proxy
<1> DEFINE x == a + 1
           s == [at[x] EXCEPT !.reading = TRUE]
<1>1. /\ at[a].verdict \in Failed /\ at[x].verdict = "none" /\ ~at[x].reading
      /\ Becomes(x, s, <<>>)
  BY DEF NextAttempt
<1>2. x \in Attempts /\ a \in Nat
  BY ConsumeAssumption DEF Attempts
<1> HIDE DEF x
<1>3. /\ at \in [Attempts -> AttemptType] /\ proxy \in Seq(ItemType)
      /\ at' = [at EXCEPT ![x] = s] /\ proxy' = proxy \o <<>>
  BY <1>1 DEF Becomes, IInv
<1>4. /\ at[x] \in AttemptType /\ ~Started(at[x]) /\ ~Live(at[x])
      /\ at[x].n = 0 /\ ~at[x].abandoned /\ ~at[x].terminal /\ at[x].found = {} /\ at[x].held = <<>>
  BY <1>1, <1>2 DEF IInv, Placed, Started, Live
<1>5. /\ s \in AttemptType /\ s.reading /\ ~s.abandoned /\ s.n = 0 /\ ~s.terminal /\ s.found = {}
      /\ s.held = <<>> /\ s.verdict = "none" /\ s.hold = at[x].hold
  BY <1>1, <1>4 DEF AttemptType
<1> HIDE DEF s
<1>6. /\ at' \in [Attempts -> AttemptType] /\ at'[x] = s
      /\ \A b \in Attempts \ {x} : at'[b] = at[b]
  BY <1>2, <1>3, <1>5
<1>7. /\ proxy' = proxy /\ Ended' = Ended /\ Finished' = Finished
      /\ \A b : From(b)' = From(b) /\ (NoText(b)' <=> NoText(b))
      /\ \A b, k : ShownUpTo(b, k)' <=> ShownUpTo(b, k)
  BY <1>3, NoItems
<1>8. Live(s) /\ ~Closed(s) /\ Placed(s) /\ ~Closed(at[x])
  BY <1>1, <1>4, <1>5 DEF Live, Closed, Placed, Started
<1>9. \A b \in Attempts : Placed(at'[b])
  BY <1>6, <1>8 DEF IInv
<1>10. \A b \in Attempts : Intrudes(b)' <=> Intrudes(b)
  BY <1>2, <1>4, <1>5, <1>6 DEF Intrudes
<1>11. ASSUME NEW b \in Attempts, ~Intrudes(b)'
       PROVE  \E k \in 0 .. Events + 1 : ShownUpTo(b, k)' /\ Accounted(at'[b], b, k)
  <2>1. PICK k \in 0 .. Events + 1 : ShownUpTo(b, k) /\ Accounted(at[b], b, k)
    BY <1>10, <1>11 DEF IInv
  <2>2. ShownUpTo(b, k)'
    BY <1>7, <2>1
  <2>3. CASE b = x
    <3>1. k = 0
      BY <1>4, <2>1, <2>3 DEF Accounted
    <3>2. Follow(<<>>, x, k) /\ Len(<<>>) = 0
      BY DEF Follow
    <3>3. Accounted(s, x, k)
      BY <1>5, <1>8, <3>1, <3>2 DEF Accounted, Started
    <3> QED
      BY <1>6, <2>2, <2>3, <3>3
  <2>4. CASE b # x
    BY <1>6, <2>1, <2>2, <2>4
  <2> QED
    BY <2>3, <2>4
<1>12. ASSUME NEW b \in Attempts PROVE Withheld(at[b], b)'
  <2>1. CASE b = x
    BY <1>1, <1>2, <1>4, <1>5, <1>6, <1>7, <2>1 DEF Withheld, IInv
  <2>2. CASE b # x
    BY <1>6, <1>7, <2>2 DEF Withheld, IInv
  <2> QED
    BY <2>1, <2>2
<1>13. ASSUME NEW y \in Attempts, NEW b \in Attempts, Started(at'[y]), b < y
       PROVE  at'[b].verdict \in Failed
  <2>1. Started(at[a]) /\ \A z \in Attempts : z < a => at[z].verdict \in Failed
    BY <1>1 DEF IInv, Started, Failed
  <2>2. \A z \in Attempts : z < x => at[z].verdict \in Failed
    BY <1>1, <1>2, <2>1 DEF Attempts, x
  <2>3. CASE y = x
    <3>1. b # x
      BY <1>2, <1>13, <2>3, ConsumeAssumption DEF Attempts
    <3> QED
      BY <1>6, <1>13, <2>2, <2>3, <3>1
  <2>4. CASE y # x
    <3>1. Started(at[y]) /\ at[b].verdict \in Failed
      BY <1>6, <1>13, <2>4 DEF IInv
    <3>2. b # x
      BY <1>1, <3>1 DEF Failed
    <3> QED
      BY <1>6, <3>1, <3>2
  <2> QED
    BY <2>3, <2>4
<1>14. ~Finished'
  BY <1>1, <1>2, <1>7 DEF IInv, Failed
<1>15. Intruders' = Intruders
  BY <1>10 DEF Intruders
<1>16. \A b \in Attempts : Capped(b)'
  BY <1>5, <1>6, <1>7 DEF IInv, Capped
<1>17. EndsApart'
  BY <1>7, <1>15 DEF IInv, EndsApart
<1>18. EndsOwned'
  <2> SUFFICES ASSUME NEW i \in Ended, proxy[i].from # 0, proxy[i].from \notin Intruders
               PROVE  Closed(at'[proxy[i].from])
    BY <1>7, <1>15 DEF EndsOwned
  <2>1. Closed(at[proxy[i].from])
    BY DEF IInv, EndsOwned
  <2>2. proxy[i].from # x
    BY <1>8, <2>1
  <2> QED
    BY <1>3, <2>1, <2>2
<1> QED
  BY <1>3, <1>6, <1>7, <1>9, <1>11, <1>12, <1>13, <1>14, <1>16, <1>17, <1>18 DEF IInv

(* The walk ends the proxy with an error.                                  *)
LEMMA WalkFails ==
  ASSUME IInv, NEW a \in Attempts, ~(a < AttemptCount), NextAttempt(a)
  PROVE  IInv' /\ \A i \in DOMAIN proxy' \ DOMAIN proxy : proxy'[i].from = 0
<1> DEFINE e == Item(0, 1, "end")
           items == <<e>>
<1>1. /\ at[a].verdict \in Failed /\ \A i \in DOMAIN proxy : proxy[i].from # 0
      /\ Becomes(a, at[a], items)
  BY DEF NextAttempt
<1>2. /\ at \in [Attempts -> AttemptType] /\ proxy \in Seq(ItemType)
      /\ at' = at /\ proxy' = proxy \o items
  BY <1>1 DEF Becomes, IInv
<1>3. e \in ItemType /\ e.from = 0 /\ e.kind = "end"
  BY ConsumeAssumption DEF Item, ItemType
<1> HIDE DEF e
<1>4. /\ items \in Seq(ItemType) /\ Len(items) = 1 /\ items[1] = e /\ DOMAIN items = {1}
  BY <1>3
<1> HIDE DEF items
<1>5. /\ proxy' \in Seq(ItemType) /\ Len(proxy) \in Nat /\ Len(proxy') = Len(proxy) + 1
      /\ DOMAIN proxy = 1 .. Len(proxy) /\ DOMAIN proxy' = 1 .. Len(proxy) + 1
      /\ \A i \in 1 .. Len(proxy) : proxy'[i] = proxy[i]
      /\ proxy'[Len(proxy) + 1] = e
  <2>1. 1 \in 1 .. Len(items)
    BY <1>4
  <2> QED
    BY <1>2, <1>4, <2>1, Pushed
<1>6. \A b \in Attempts : at[b].verdict \in Failed /\ ~Live(at[b]) /\ ~Closed(at[b])
  <2>1. Started(at[a]) /\ a = AttemptCount
    BY <1>1, ConsumeAssumption DEF Started, Failed, Attempts
  <2>2. \A b \in Attempts : b = a \/ b < a
    BY <2>1, ConsumeAssumption DEF Attempts
  <2>3. \A b \in Attempts : at[b].verdict \in Failed
    BY <1>1, <2>1, <2>2 DEF IInv
  <2>4. \A b \in Attempts : ~Live(at[b])
    BY <2>3 DEF IInv, Placed, Failed
  <2> QED
    BY <2>3, <2>4 DEF Closed, Failed
<1>7. ASSUME NEW b \in Attempts
      PROVE  /\ \A k \in Nat : ShownUpTo(b, k) => ShownUpTo(b, k)'
             /\ NoText(b) => NoText(b)'
  <2>1. \A i \in DOMAIN items : items[i].from # b
    BY <1>3, <1>4, ConsumeAssumption DEF Attempts
  <2> QED
    BY <1>2, <1>4, <2>1, OthersKeep
<1>8. \A b \in Attempts : Placed(at'[b]) /\ Withheld(at[b], b)'
  BY <1>2, <1>7 DEF IInv, Withheld
<1>9. ASSUME NEW b \in Attempts, ~Intrudes(b)'
      PROVE  \E k \in 0 .. Events + 1 : ShownUpTo(b, k)' /\ Accounted(at'[b], b, k)
  <2>1. PICK k \in 0 .. Events + 1 : ShownUpTo(b, k) /\ Accounted(at[b], b, k)
    BY <1>2, <1>9 DEF IInv, Intrudes
  <2>2. k \in Nat
    BY ConsumeAssumption
  <2> QED
    BY <1>2, <1>7, <2>1, <2>2
<1>10. Intruders' = Intruders
  BY <1>2 DEF Intruders, Intrudes
<1>12. \A i \in DOMAIN items : items[i].from = 0 /\ i = Len(items)
  BY <1>3, <1>4
<1>13. /\ \A i \in Ended' : \/ i \in Ended /\ proxy'[i] = proxy[i]
                            \/ proxy'[i].from = 0
       /\ \A b : \A i \in From(b) : i \in From(b)' /\ proxy'[i] = proxy[i]
  <2>1. items \in Seq(ItemType) /\ proxy \in Seq(ItemType) /\ proxy' = proxy \o items
    BY <1>2, <1>4
  <2>2. \A z : z = 0 =>
          /\ \A i \in Ended' : (i \in Ended /\ proxy'[i] = proxy[i]) \/ proxy'[i].from = z
          /\ \A b : \A i \in From(b) : i \in From(b)' /\ proxy'[i] = proxy[i]
    BY <1>12, <2>1, EndsStay
  <2> QED
    BY <2>2
<1>14. ASSUME NEW i \in Ended PROVE proxy[i].from \in Intruders
  <2>1. i \in DOMAIN proxy /\ proxy[i].from # 0
    BY <1>1 DEF Ended
  <2>2. proxy[i].from \in Attempts
    <3>1. proxy[i] \in ItemType
      BY <1>2, <2>1, ElementOfSeq, LenProperties
    <3>2. proxy[i].from \in 0 .. AttemptCount
      BY <3>1 DEF ItemType
    <3> QED
      BY <2>1, <3>2, ConsumeAssumption DEF Attempts
  <2> QED
    BY <1>6, <2>1, <2>2 DEF IInv, EndsOwned
<1>15. EndsOwned'
  BY <1>10, <1>13, <1>14 DEF EndsOwned
<1>16. EndsApart'
  <2>1. items \in Seq(ItemType) /\ proxy \in Seq(ItemType) /\ proxy' = proxy \o items /\ EndsApart
    BY <1>2, <1>4 DEF IInv
  <2> QED
    BY <1>10, <1>12, <1>14, <2>1, EndsStayApart
<1>17. \A b \in Attempts : Capped(b)'
  BY <1>2, <1>13 DEF IInv, Capped
<1>11. \A i \in DOMAIN proxy' \ DOMAIN proxy : proxy'[i].from = 0
  <2>1. \A i \in DOMAIN items : items[i].from = 0
    BY <1>3, <1>4
  <2>2. items \in Seq(ItemType) /\ proxy \in Seq(ItemType) /\ proxy' = proxy \o items
    BY <1>2, <1>4
  <2>3. \A x : x = 0 => \A i \in DOMAIN proxy' \ DOMAIN proxy : proxy'[i].from = x
    BY <2>1, <2>2, NewItems
  <2> QED
    BY <2>3
<1> QED
  BY <1>2, <1>5, <1>6, <1>8, <1>9, <1>11, <1>15, <1>16, <1>17 DEF IInv

-----------------------------------------------------------------------------
LEMMA InitIInv == Init => IInv
<1> SUFFICES ASSUME Init PROVE IInv
  OBVIOUS
<1>1. /\ proxy = <<>> /\ <<>> \in Seq(ItemType) /\ DOMAIN proxy = {}
  BY DEF Init
<1>2. at \in [Attempts -> AttemptType]
  BY <1>1, ConsumeAssumption DEF Init, AttemptType, Verdicts
<1>3. \A a \in Attempts :
        /\ at[a].held = <<>> /\ at[a].found = {} /\ at[a].verdict = "none" /\ at[a].n = 0
        /\ ~at[a].abandoned /\ ~at[a].terminal /\ (at[a].reading <=> a = 1)
  BY DEF Init
<1>4. \A a \in Attempts : ShownUpTo(a, 0) /\ NoText(a) /\ Follow(<<>>, a, 0)
  <2>1. \A a : From(a) = {}
    BY <1>1 DEF From
  <2> QED
    BY <1>1, <2>1 DEF ShownUpTo, NoText, Follow
<1>5. \A a \in Attempts : Placed(at[a]) /\ Accounted(at[a], a, 0) /\ ~Closed(at[a])
  BY <1>3, <1>4 DEF Placed, Accounted, Live, Started, Closed
<1>6. \A a, b \in Attempts : Started(at[a]) /\ b < a => at[b].verdict \in Failed
  BY <1>3 DEF Started, Attempts
<1>7. Ended = {} /\ ~Finished
  BY <1>1 DEF Ended, Finished
<1>8. EndsOwned /\ EndsApart /\ \A a \in Attempts : Capped(a)
  BY <1>3, <1>7 DEF EndsOwned, EndsApart, Capped
<1>9. 0 \in 0 .. Events + 1
  BY ConsumeAssumption
<1> QED
  BY <1>1, <1>2, <1>4, <1>5, <1>6, <1>7, <1>8, <1>9 DEF IInv, Withheld

(* An attempt whose loop is attached changes by one of the steps above,    *)
(* and only that attempt's items are added.                                *)
LEMMA EventWrites ==
  ASSUME IInv, NEW a \in Attempts,
         \/ Event(a) \/ UpstreamEnds(a) \/ Throws(a) \/ TimesOut(a)
         \/ ThrowsAbort(a) /\ ~at[a].abandoned
  PROVE  Live(at[a]) /\ Writes(a)
<1>1. ASSUME Event(a) PROVE Live(at[a]) /\ Writes(a)
  <2>1. CASE \E content \in BOOLEAN : OtherEvent(a, content)
    BY <2>1, OtherEventWrites
  <2>2. CASE \E content, markup, full \in BOOLEAN : TextEvent(a, content, markup, full)
    BY <2>2, TextEventWrites
  <2>3. CASE \E why \in {"context_overflow", "repetition_loop"} : TextIsRejected(a, why)
    BY <2>3, TextIsRejectedWrites
  <2>4. CASE ToolCallEvent(a)
    BY <2>4, ToolCallEventWrites
  <2>5. CASE \E truncated \in BOOLEAN : DoneEvent(a, truncated)
    BY <2>5, DoneEventWrites
  <2>6. CASE AbortEvent(a)
    BY <2>6, AbortEventWrites
  <2>7. CASE \E why \in Complaints : ErrorEvent(a, why)
    BY <2>7, ErrorEventWrites
  <2>8. CASE MalformedEvent(a)
    BY <2>8, MalformedEventWrites
  <2> QED
    BY <1>1, <2>1, <2>2, <2>3, <2>4, <2>5, <2>6, <2>7, <2>8 DEF Event
<1> QED
  BY <1>1, UpstreamEndsWrites, ThrowsWrites, TimesOutWrites, ThrowsAbortWrites

LEMMA WritesPreserves ==
  ASSUME IInv, NEW a \in Attempts, Live(at[a]), Writes(a)
  PROVE  /\ IInv'
         /\ at[a].verdict = "none"
         /\ \A i \in DOMAIN proxy' \ DOMAIN proxy : proxy'[i].from = a
<1>1. PICK s, items : LiveStep(a, s, items)
  BY DEF Writes
<1>2. proxy \in Seq(ItemType) /\ items \in Seq(ItemType) /\ proxy' = proxy \o items
  BY <1>1 DEF LiveStep, Becomes, IInv
<1>3. \A i \in DOMAIN items : items[i].from = a
  BY <1>1, LiveShows
<1> QED
  BY <1>1, <1>2, <1>3, NewItems, LivePreserves, OneWriter

LEMMA StepPreserves == IInv /\ [Next]_vars => IInv'
<1> SUFFICES ASSUME IInv, [Next]_vars PROVE IInv'
  OBVIOUS
<1>1. ASSUME UNCHANGED vars PROVE IInv'
  BY <1>1 DEF vars, IInv, Intruders, Intrudes, Capped, EndsOwned, EndsApart, Ended, Finished,
              Withheld, NoText, ShownUpTo, From
<1>2. ASSUME NEW a \in Attempts, Event(a) \/ TimesOut(a) PROVE IInv'
  BY <1>2, EventWrites, WritesPreserves
<1>3. ASSUME NEW a \in Attempts, Upstream(a) PROVE IInv'
  BY <1>3, EventWrites, WritesPreserves, LatePreserves, LateAbortPreserves DEF Upstream
<1>4. ASSUME NEW a \in Attempts, NextAttempt(a) PROVE IInv'
  BY <1>4, NextStarts, WalkFails
<1> QED
  BY <1>1, <1>2, <1>3, <1>4 DEF Next, Over

LEMMA Invariant == Spec => []IInv
<1> QED
  BY InitIInv, StepPreserves, PTL DEF Spec

(* Nothing overtakes: what an attempt has put on the user's stream is a    *)
(* prefix of its upstream, in order, and what it holds comes next (the     *)
(* hold of consumeWithDetection and its eight exits).                      *)
THEOREM NothingOvertakes == Spec => []ConsumeInv
<1>1. IInv => ConsumeInv
  BY DEF IInv, ConsumeInv, Accounted
<1> QED
  BY <1>1, Invariant, PTL

(* Markup that is rejected has never been shown: a candidate with the      *)
(* verdict tool_markup_as_text has put no text on the user's stream.       *)
THEOREM MarkupIsWithheld == Spec => []MarkupWithheld
<1>1. IInv => MarkupWithheld
  BY DEF IInv, MarkupWithheld, Withheld, NoText
<1> QED
  BY <1>1, Invariant, PTL

(* Behind an ok the user has the whole answer, with its terminal event     *)
(* unless the upstream closed without one, whatever other attempts do; an  *)
(* upstream that rejected before its terminal event is never an ok.  And   *)
(* nothing is behind the end of the stream, but where an abandoned attempt *)
(* that rejects with an AbortError pushed one of the two.                  *)
THEOREM SuccessIsDelivered == Spec => []SuccessDelivered
<1>1. IInv => SuccessDelivered
  <2> SUFFICES ASSUME IInv PROVE SuccessDelivered
    OBVIOUS
  <2>1. ASSUME NEW a \in Attempts, at[a].verdict = "ok"
        PROVE  /\ ShownUpTo(a, at[a].n)
               /\ \/ ClosedSilently(a)
                  \/ \E i \in From(a) : proxy[i] = Item(a, at[a].n, "end")
    <3>1. ~Intrudes(a)
      BY <2>1 DEF IInv, Placed, Intrudes
    <3>2. PICK k \in 0 .. Events + 1 : ShownUpTo(a, k) /\ Accounted(at[a], a, k)
      BY <3>1 DEF IInv
    <3>3. ShownUpTo(a, at[a].n)
      BY <2>1, <3>2 DEF Accounted
    <3>4. at[a].terminal \/ at[a].drained
      BY <2>1 DEF IInv, Placed
    <3> QED
      BY <2>1, <3>3, <3>4 DEF IInv, Capped, ClosedSilently
  <2> QED
    BY <2>1 DEF IInv, EndsApart, SuccessDelivered
<1> QED
  BY <1>1, Invariant, PTL

(* An attempt that has its verdict writes nothing more, but for the end    *)
(* that an AbortError pushes: the late events of an abandoned stream never *)
(* reach the output of the candidate that has taken over.                  *)
THEOREM LateOutputNever == Spec => NoLateOutput
<1> DEFINE Silent == \A a \in Attempts :
              (\E i \in DOMAIN proxy' \ DOMAIN proxy : proxy'[i].from = a)
                => at[a].verdict = "none" \/ Intrudes(a)'
<1>1. IInv /\ [Next]_vars => [Silent]_vars
  <2> SUFFICES ASSUME IInv, Next, NEW b \in Attempts,
                      NEW i \in DOMAIN proxy' \ DOMAIN proxy, proxy'[i].from = b
               PROVE  at[b].verdict = "none" \/ Intrudes(b)'
    OBVIOUS
  <2>1. proxy' # proxy
    OBVIOUS
  <2>2. ASSUME NEW a \in Attempts, Live(at[a]), Writes(a)
        PROVE  at[b].verdict = "none"
    BY <2>2, WritesPreserves
  <2>3. ASSUME NEW a \in Attempts, Event(a) \/ TimesOut(a)
        PROVE  at[b].verdict = "none"
    BY <2>2, <2>3, EventWrites
  <2>4. ASSUME NEW a \in Attempts, Upstream(a)
        PROVE  at[b].verdict = "none" \/ Intrudes(b)'
    <3>1. CASE UpstreamEnds(a) \/ Throws(a) \/ (ThrowsAbort(a) /\ ~at[a].abandoned)
      BY <2>2, <3>1, EventWrites
    <3>2. CASE ThrowsAbort(a) /\ at[a].abandoned
      BY <3>2, LateAbortPreserves
    <3>3. CASE Late(a)
      BY <2>1, <3>3, LatePreserves
    <3> QED
      BY <2>4, <3>1, <3>2, <3>3 DEF Upstream
  <2>5. ASSUME NEW a \in Attempts, NextAttempt(a) PROVE FALSE
    <3>1. CASE a < AttemptCount
      BY <2>1, <2>5, <3>1, NextStarts
    <3>2. CASE ~(a < AttemptCount)
      BY <2>5, <3>2, WalkFails DEF Attempts
    <3> QED
      BY <3>1, <3>2
  <2>6. CASE Over
    BY <2>1, <2>6 DEF Over, vars
  <2> QED
    BY <2>3, <2>4, <2>5, <2>6 DEF Next
<1> QED
  BY <1>1, Invariant, PTL DEF Spec, NoLateOutput
=============================================================================
