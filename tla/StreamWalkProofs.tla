--------------------------- MODULE StreamWalkProofs ---------------------------
(***************************************************************************)
(* Proofs about two components that share no state: StreamWalk, and then   *)
(* DynamicConfig.  Of StreamWalk for any number of walks, models, groups,  *)
(* fallback orders, and any slot limit.  One inductive invariant carries   *)
(* the slot accounting, the memory of a cascade and the end of every       *)
(* proxy.  A step changes one walk: what each action owes to the invariant *)
(* is StepTo, a statement about that walk's new record alone; StepPreserves*)
(* derives the invariant from it once for all actions.                     *)
(***************************************************************************)
EXTENDS StreamWalk, DynamicConfig, FiniteSetTheorems, SequenceTheorems, TLAPS

-----------------------------------------------------------------------------
(* Front and Last of a sequence that is not empty.                         *)
LEMMA FrontProperties ==
  ASSUME NEW S, NEW q \in Seq(S), q # <<>>
  PROVE  /\ Front(q) \in Seq(S)
         /\ Len(Front(q)) = Len(q) - 1
         /\ \A i \in 1 .. Len(q) - 1 : Front(q)[i] = q[i]
         /\ Len(q) \in Nat \ {0}
         /\ Last(q) = q[Len(q)] /\ Last(q) \in S
<1>1. Len(q) \in Nat \ {0}
  BY EmptySeq
<1>2. \A i \in 1 .. Len(q) - 1 : q[i] \in S
  BY <1>1, ElementOfSeq
<1> DEFINE n == Len(q) - 1
<1>3. n \in Nat /\ \A i \in 1 .. n : q[i] \in S
  BY <1>1, <1>2
<1> HIDE DEF n
<1>4. /\ SubSeq(q, 1, n) \in Seq(S)
      /\ Len(SubSeq(q, 1, n)) = n
      /\ \A i \in 1 .. n : SubSeq(q, 1, n)[i] = q[i]
  <2>1. /\ SubSeq(q, 1, n) \in Seq(S)
        /\ Len(SubSeq(q, 1, n)) = IF 1 <= n THEN n - 1 + 1 ELSE 0
        /\ \A i \in 1 .. n - 1 + 1 : SubSeq(q, 1, n)[i] = q[1 + i - 1]
    BY <1>3, SubSeqProperties
  <2>2. (IF 1 <= n THEN n - 1 + 1 ELSE 0) = n /\ n - 1 + 1 = n
    BY <1>3
  <2>3. \A i \in 1 .. n : 1 + i - 1 = i
    BY <1>3
  <2> QED
    BY <2>1, <2>2, <2>3
<1>5. Last(q) = q[Len(q)] /\ q[Len(q)] \in S
  BY <1>1, ElementOfSeq DEF Last
<1> QED
  BY <1>1, <1>4, <1>5 DEF Front, n

(* A stack holds finitely many slots.                                      *)
LEMMA SlottedIsFinite ==
  ASSUME NEW q \in Seq(AttemptType)
  PROVE  /\ IsFiniteSet(Slotted(q)) /\ Slotted(q) \subseteq 1 .. Len(q)
         /\ Cardinality(Slotted(q)) \in Nat
<1>1. DOMAIN q = 1 .. Len(q) /\ Len(q) \in Nat
  BY LenProperties
<1>2. IsFiniteSet(1 .. Len(q))
  BY <1>1, FS_Interval
<1>3. Slotted(q) \subseteq 1 .. Len(q)
  BY <1>1 DEF Slotted
<1> QED
  BY <1>2, <1>3, FS_Subset, FS_CardinalityType

(* Pushing an attempt adds its slot.                                       *)
LEMMA SlottedAppend ==
  ASSUME NEW q \in Seq(AttemptType), NEW a \in AttemptType
  PROVE  Cardinality(Slotted(Append(q, a))) = Cardinality(Slotted(q)) + SlotOf(a)
<1> DEFINE n == Len(q) + 1
<1>1. /\ Append(q, a) \in Seq(AttemptType) /\ Len(Append(q, a)) = n
      /\ \A i \in 1 .. Len(q) : Append(q, a)[i] = q[i]
      /\ Append(q, a)[n] = a
  BY AppendProperties
<1>2. /\ DOMAIN q = 1 .. Len(q) /\ Len(q) \in Nat
      /\ DOMAIN Append(q, a) = 1 .. n
  BY <1>1, LenProperties
<1>3. a.slot \in BOOLEAN
  BY DEF AttemptType
<1>4. IsFiniteSet(Slotted(q)) /\ n \notin Slotted(q)
  BY <1>2, SlottedIsFinite
<1>5. CASE a.slot
  <2>1. Slotted(Append(q, a)) = Slotted(q) \cup {n}
    BY <1>1, <1>2, <1>5 DEF Slotted
  <2>2. Cardinality(Slotted(q) \cup {n}) = Cardinality(Slotted(q)) + 1
    BY <1>4, FS_AddElement
  <2> QED
    BY <1>5, <2>1, <2>2 DEF SlotOf
<1>6. CASE ~a.slot
  <2>1. Slotted(Append(q, a)) = Slotted(q)
    BY <1>1, <1>2, <1>6 DEF Slotted
  <2> QED
    BY <1>4, <1>6, <2>1, FS_CardinalityType DEF SlotOf
<1> QED
  BY <1>5, <1>6

(* Popping an attempt gives its slot back.                                 *)
LEMMA SlottedFront ==
  ASSUME NEW q \in Seq(AttemptType), q # <<>>
  PROVE  Cardinality(Slotted(Front(q))) = Cardinality(Slotted(q)) - SlotOf(Last(q))
<1>1. /\ Front(q) \in Seq(AttemptType) /\ Len(Front(q)) = Len(q) - 1
      /\ \A i \in 1 .. Len(q) - 1 : Front(q)[i] = q[i]
      /\ Len(q) \in Nat \ {0}
      /\ Last(q) = q[Len(q)] /\ Last(q) \in AttemptType
  BY FrontProperties
<1>2. DOMAIN q = 1 .. Len(q) /\ DOMAIN Front(q) = 1 .. Len(q) - 1
  BY <1>1, LenProperties
<1>3. IsFiniteSet(Slotted(q)) /\ Cardinality(Slotted(q)) \in Nat
  BY SlottedIsFinite
<1>4. CASE Last(q).slot
  <2>1. Slotted(Front(q)) = Slotted(q) \ {Len(q)} /\ Len(q) \in Slotted(q)
    BY <1>1, <1>2, <1>4 DEF Slotted
  <2>2. Cardinality(Slotted(q) \ {Len(q)}) = Cardinality(Slotted(q)) - 1
    BY <1>3, <2>1, FS_RemoveElement
  <2> QED
    BY <1>4, <2>1, <2>2 DEF SlotOf
<1>5. CASE ~Last(q).slot
  <2>1. Slotted(Front(q)) = Slotted(q)
    BY <1>1, <1>2, <1>5 DEF Slotted
  <2> QED
    BY <1>3, <1>5, <2>1 DEF SlotOf
<1> QED
  BY <1>4, <1>5

(* An empty stack holds none.                                              *)
LEMMA SlottedEmpty == Cardinality(Slotted(<<>>)) = 0
<1>1. Slotted(<<>>) = {}
  BY DEF Slotted
<1> QED
  BY <1>1, FS_EmptySet

-----------------------------------------------------------------------------
(* The slots of one walk, as members of Holders.                           *)
SlotsOf(w, q) == {<<w, i>> : i \in Slotted(q)}

LEMMA SlotsOfCounts ==
  ASSUME NEW w, NEW q \in Seq(AttemptType)
  PROVE  /\ IsFiniteSet(SlotsOf(w, q))
         /\ Cardinality(SlotsOf(w, q)) = Cardinality(Slotted(q))
<1> DEFINE f == [i \in Slotted(q) |-> <<w, i>>]
<1>1. f \in Bijection(Slotted(q), SlotsOf(w, q))
  BY DEF SlotsOf, Bijection, Injection, Surjection, IsInjective
<1>2. ExistsBijection(Slotted(q), SlotsOf(w, q))
  BY <1>1 DEF ExistsBijection
<1> QED
  BY <1>2, SlottedIsFinite, FS_Bijection

(* Two disjoint finite sets.                                               *)
LEMMA DisjointCount ==
  ASSUME NEW A, NEW B, IsFiniteSet(A), IsFiniteSet(B), A \cap B = {}
  PROVE  /\ IsFiniteSet(A \cup B)
         /\ Cardinality(A \cup B) = Cardinality(A) + Cardinality(B)
         /\ Cardinality(A) \in Nat /\ Cardinality(B) \in Nat
<1>1. Cardinality(A) \in Nat /\ Cardinality(B) \in Nat
  BY FS_CardinalityType
<1>2. Cardinality(A \cap B) = 0
  BY FS_EmptySet
<1>3. /\ IsFiniteSet(A \cup B)
      /\ Cardinality(A \cup B) = Cardinality(A) + Cardinality(B) - Cardinality(A \cap B)
  BY FS_Union
<1> QED
  BY <1>1, <1>2, <1>3

(* When the stack of one walk changes, the count of slots changes by what  *)
(* that stack held before and holds now.                                   *)
LEMMA HoldersChange ==
  ASSUME NEW stacks \in [Walks -> Seq(AttemptType)], IsFiniteSet(Holders(stacks)),
         NEW w \in Walks, NEW q \in Seq(AttemptType)
  PROVE  /\ IsFiniteSet(Holders([stacks EXCEPT ![w] = q]))
         /\ Cardinality(Holders([stacks EXCEPT ![w] = q])) =
              Cardinality(Holders(stacks)) - Cardinality(Slotted(stacks[w]))
                                           + Cardinality(Slotted(q))
<1> DEFINE old  == SlotsOf(w, stacks[w])
           new  == SlotsOf(w, q)
           rest == UNION {SlotsOf(v, stacks[v]) : v \in Walks \ {w}}
<1>1. Holders(stacks) = rest \cup old
  BY DEF Holders, SlotsOf
<1>2. Holders([stacks EXCEPT ![w] = q]) = rest \cup new
  BY DEF Holders, SlotsOf
<1>3. rest \cap old = {} /\ rest \cap new = {}
  BY DEF SlotsOf
<1>4. /\ IsFiniteSet(old) /\ Cardinality(old) = Cardinality(Slotted(stacks[w]))
      /\ IsFiniteSet(new) /\ Cardinality(new) = Cardinality(Slotted(q))
  BY SlotsOfCounts
<1> HIDE DEF old, new, rest
<1>5. IsFiniteSet(rest)
  BY <1>1, FS_Subset
<1>6. Cardinality(rest \cup old) = Cardinality(rest) + Cardinality(old)
  BY <1>3, <1>4, <1>5, DisjointCount
<1>7. /\ IsFiniteSet(rest \cup new)
      /\ Cardinality(rest \cup new) = Cardinality(rest) + Cardinality(new)
  BY <1>3, <1>4, <1>5, DisjointCount
<1>8. Cardinality(rest) \in Nat /\ Cardinality(old) \in Nat /\ Cardinality(new) \in Nat
  BY <1>4, <1>5, FS_CardinalityType
<1>9. Cardinality(rest \cup new) =
        Cardinality(rest \cup old) - Cardinality(old) + Cardinality(new)
  BY <1>6, <1>7, <1>8
<1> QED
  BY <1>1, <1>2, <1>4, <1>7, <1>9

-----------------------------------------------------------------------------
(* What a walk's place in the code says of its record: an attempt is on    *)
(* the stack and its candidate still first in todo while it is pending,    *)
(* and a retry has two attempts there.                                     *)
Pending == {"open", "null", "stream"}

Shaped(s) ==
    /\ s.pc \in {"absent", "queued", "next", "daemon"} => s.mode = "walk"
    /\ s.pc = "sleep" => s.mode # "walk"
    /\ s.pc \in Pending \cup {"daemon", "sleep"} => s.todo # <<>>
    /\ s.pc \in Pending => s.stack # <<>>
    /\ s.pc \in Pending /\ s.mode = "retry" => Front(s.stack) # <<>>
    /\ s.pc = "sleep" /\ s.mode = "retry" => s.stack # <<>>
    /\ s.pc = "returned" => s.stack = <<>>

\* What the cascade has entered it will not choose again.
Remembers(s) ==
    /\ ~s.again
    /\ s.entered \subseteq s.visited \cup {s.group}

(* A walk that runs alone never comes to the end of its loop without an    *)
(* error to report: a candidate that leaves todo leaves an error behind,   *)
(* for a silent skip because nobody else takes its reason away.            *)
Accounts(s, reasons) ==
    /\ s.pc = "returned" => s.ended # "no"
    /\ s.pc # "returned" => s.errs # {} \/ s.todo # <<>>
    /\ s.pc # "returned" /\ s.mode = "retry" => s.errs # {}
    /\ s.pc = "null" /\ s.mode = "walk" => Last(s.stack).ref \in reasons

Stacks == [w \in Walks |-> walk[w].stack]

(* The inductive invariant.                                                *)
SharedTypes ==
    /\ limited \subseteq Refs /\ small \subseteq Refs /\ noted \subseteq Refs
    /\ open \subseteq Providers

SlotsCounted ==
    /\ IsFiniteSet(Holders(Stacks))
    /\ slots = Cardinality(Holders(Stacks))
    /\ slots <= LocalLimit

IInv ==
    /\ walk \in [Walks -> WalkType]
    /\ SharedTypes
    /\ SlotsCounted
    /\ \A w \in Walks : Shaped(walk[w])
    /\ \A w \in Walks : Remembers(walk[w])
    /\ \A w \in Walks : Alone(w) => Accounts(walk[w], noted)

-----------------------------------------------------------------------------
(* What a step of walk w to the record t owes to the invariant.            *)
StepTo(w, t) ==
    /\ t \in WalkType
    /\ walk' = [walk EXCEPT ![w] = t]
    /\ t.pc \notin {"absent", "queued"}
    /\ Shaped(t) /\ Remembers(t)
    /\ slots' = slots - SlotsHeld(walk[w]) + SlotsHeld(t)
    /\ slots' <= LocalLimit
    /\ SharedTypes'
    /\ Alone(w) => Accounts(t, noted')

LEMMA StacksAreSequences ==
  ASSUME walk \in [Walks -> WalkType]
  PROVE  Stacks \in [Walks -> Seq(AttemptType)]
BY DEF Stacks, WalkType

(* The slots a walk holds are a number.                                    *)
LEMMA SlotsHeldType ==
  ASSUME NEW s \in WalkType
  PROVE  SlotsHeld(s) \in Nat
<1>1. s.stack \in Seq(AttemptType)
  BY DEF WalkType
<1> QED
  BY <1>1, SlottedIsFinite DEF SlotsHeld

LEMMA StepPreserves ==
  ASSUME IInv, NEW w \in Walks, NEW t, StepTo(w, t)
  PROVE  IInv'
<1> USE DEF IInv
<1>1. t \in WalkType /\ walk' = [walk EXCEPT ![w] = t]
  BY DEF StepTo
<1>2. /\ walk' \in [Walks -> WalkType]
      /\ walk'[w] = t /\ \A v \in Walks \ {w} : walk'[v] = walk[v]
  BY <1>1
<1>3. SlotsCounted'
  <2>1. Stacks \in [Walks -> Seq(AttemptType)]
    BY StacksAreSequences
  <2>2. Stacks' = [Stacks EXCEPT ![w] = t.stack] /\ t.stack \in Seq(AttemptType)
    BY <1>1 DEF Stacks, WalkType
  <2>3. Stacks[w] = walk[w].stack
    BY DEF Stacks
  <2>4. /\ IsFiniteSet(Holders(Stacks'))
        /\ Cardinality(Holders(Stacks')) =
             Cardinality(Holders(Stacks)) - SlotsHeld(walk[w]) + SlotsHeld(t)
    BY <2>1, <2>2, <2>3, HoldersChange DEF SlotsCounted, SlotsHeld
  <2> QED
    BY <2>4 DEF SlotsCounted, StepTo
<1>4. \A v \in Walks : Shaped(walk'[v]) /\ Remembers(walk'[v])
  BY <1>2 DEF StepTo
<1>5. ASSUME NEW v \in Walks, Alone(v)' PROVE Accounts(walk'[v], noted')
  <2>1. v = w
    BY <1>2, <1>5 DEF Alone, StepTo
  <2>2. Alone(w)
    BY <1>2, <1>5, <2>1 DEF Alone
  <2> QED
    BY <1>2, <2>1, <2>2 DEF StepTo
<1> QED
  BY <1>2, <1>3, <1>4, <1>5 DEF StepTo

(* A step that leaves the stack alone.                                     *)
LEMMA StackUnchanged ==
  ASSUME IInv, NEW w \in Walks, NEW t \in WalkType,
         t.stack = walk[w].stack, slots' = slots
  PROVE  slots' = slots - SlotsHeld(walk[w]) + SlotsHeld(t) /\ slots' <= LocalLimit
<1>1. SlotsHeld(t) = SlotsHeld(walk[w])
  BY DEF SlotsHeld
<1>2. SlotsHeld(t) \in Nat
  BY SlotsHeldType
<1>3. slots \in Nat /\ slots <= LocalLimit
  BY FS_CardinalityType DEF IInv, SlotsCounted
<1>4. slots - SlotsHeld(t) + SlotsHeld(t) = slots
  BY <1>2, <1>3
<1> QED
  BY <1>1, <1>3, <1>4

-----------------------------------------------------------------------------
(* The constructor: no walk has begun.                                     *)
LEMMA InitEstablishes == Init => IInv
<1> SUFFICES ASSUME Init PROVE IInv
  OBVIOUS
<1> PICK cast \in Casts :
        /\ walk = [w \in Walks |->
                     [pc |-> IF w \in cast.walks THEN "queued" ELSE "absent", mode |-> "walk",
                      group |-> StartGroup[w], cands |-> CandidatesOf[StartGroup[w]],
                      todo |-> CandidatesOf[StartGroup[w]],
                      errs |-> {}, waited |-> FALSE, visited |-> {},
                      entered |-> {StartGroup[w]}, again |-> FALSE, blind |-> {},
                      stack |-> <<>>, ended |-> "no"]]
        /\ limited \in SUBSET cast.refs
        /\ open \in SUBSET {ProviderOf[r] : r \in cast.refs}
        /\ small \in SUBSET (KnownSmall \cap cast.refs)
        /\ noted = {}
        /\ slots = 0
  BY DEF Init
<1>1. \A w \in Walks : StartGroup[w] \in Groups /\ CandidatesOf[StartGroup[w]] \in Seq(Refs)
  BY WalkAssumption
<1>2. walk \in [Walks -> WalkType]
  <2>1. <<>> \in Seq(AttemptType)
    BY EmptySeq
  <2> QED
    BY <1>1, <2>1 DEF WalkType, Pcs, Modes
<1>3. SharedTypes
  BY WalkAssumption DEF SharedTypes, Providers
<1>4. SlotsCounted
  <2>1. Holders(Stacks) = {}
    BY DEF Holders, Stacks, Slotted
  <2>2. IsFiniteSet({}) /\ Cardinality({}) = 0
    BY FS_EmptySet
  <2>3. 0 <= LocalLimit
    BY WalkAssumption
  <2> QED
    BY <2>1, <2>2, <2>3 DEF SlotsCounted
<1>5. ASSUME NEW w \in Walks PROVE Shaped(walk[w]) /\ Remembers(walk[w])
  BY DEF Shaped, Remembers, Pending
<1>6. ASSUME NEW w \in Walks PROVE Accounts(walk[w], noted)
  <2>1. CandidatesOf[StartGroup[w]] # <<>>
    BY StartAssumption
  <2> QED
    BY <2>1 DEF Accounts
<1> QED
  BY <1>2, <1>3, <1>4, <1>5, <1>6 DEF IInv

(* The clock: a cooldown or an open breaker ends, and no walk moves.       *)
LEMMA ClockPreserves ==
  ASSUME IInv, UNCHANGED <<walk, slots, noted, small>>,
         limited' \subseteq limited, open' \subseteq open
  PROVE  IInv'
<1>1. Stacks' = Stacks
  BY DEF Stacks
<1>2. SlotsCounted'
  BY <1>1 DEF IInv, SlotsCounted
<1>3. SharedTypes'
  BY DEF IInv, SharedTypes
<1>4. \A w \in Walks : Alone(w)' = Alone(w)
  BY DEF Alone
<1> QED
  BY <1>2, <1>3, <1>4 DEF IInv

-----------------------------------------------------------------------------
(* The walk begins.                                                        *)
LEMMA BeginPreserves ==
  ASSUME IInv, NEW w \in Walks, Begin(w)
  PROVE  IInv'
<1> DEFINE t == [walk[w] EXCEPT !.pc = "next"]
<1>1. walk[w] \in WalkType /\ walk[w].pc = "queued"
  BY DEF IInv, Begin, Resumes
<1>2. t \in WalkType /\ t.stack = walk[w].stack
  BY <1>1 DEF WalkType, Pcs
<1>3. walk' = [walk EXCEPT ![w] = t] /\ UNCHANGED shared
  BY DEF Begin
<1>4. Shaped(t) /\ Remembers(t)
  BY <1>1 DEF IInv, Shaped, Remembers, WalkType, Pending
<1>5. Alone(w) => Accounts(t, noted)
  BY <1>1 DEF IInv, Accounts, WalkType
<1>6. StepTo(w, t)
  BY <1>1, <1>2, <1>3, <1>4, <1>5, StackUnchanged DEF StepTo, IInv, SharedTypes, shared, WalkType, Providers
<1> QED
  BY <1>6, StepPreserves

(* A candidate is given up before an attempt: it leaves an error.          *)
LEMMA SkipPreserves ==
  ASSUME IInv, NEW w \in Walks, NEW cause \in Causes,
         walk[w].pc \in {"next", "daemon"}, walk[w].todo # <<>>,
         Skip(w, cause), UNCHANGED shared
  PROVE  IInv'
<1> DEFINE t == [walk[w] EXCEPT !.pc = "next", !.errs = @ \cup {cause}, !.todo = Tail(@)]
<1>1. walk[w] \in WalkType /\ walk[w].mode = "walk"
  BY DEF IInv, Shaped
<1>2. Tail(walk[w].todo) \in Seq(Refs)
  BY <1>1, HeadTailProperties DEF WalkType
<1>3. t \in WalkType /\ t.stack = walk[w].stack /\ t.pc = "next"
  BY <1>1, <1>2 DEF WalkType, Pcs
<1>4. walk' = [walk EXCEPT ![w] = t]
  BY DEF Skip, IInv
<1>5. Shaped(t) /\ Remembers(t)
  BY <1>1 DEF IInv, Shaped, Remembers, WalkType, Pending
<1>6. Accounts(t, noted)
  BY <1>1 DEF Accounts, WalkType
<1>7. StepTo(w, t)
  BY <1>1, <1>3, <1>4, <1>5, <1>6, StackUnchanged DEF StepTo, IInv, SharedTypes, shared, Providers
<1> QED
  BY <1>7, StepPreserves

(* The daemon is asked.                                                    *)
LEMMA AskPreserves ==
  ASSUME IInv, NEW w \in Walks, AskDaemon(w)
  PROVE  IInv'
<1> DEFINE t == [walk[w] EXCEPT !.pc = "daemon"]
<1>1. walk[w] \in WalkType /\ walk[w].pc = "next" /\ walk[w].todo # <<>>
  BY DEF IInv, AskDaemon, PassesChecks
<1>2. t \in WalkType /\ t.stack = walk[w].stack /\ t.pc = "daemon"
  BY <1>1 DEF WalkType, Pcs
<1>3. walk' = [walk EXCEPT ![w] = t] /\ UNCHANGED shared
  BY DEF AskDaemon
<1>4. Shaped(t) /\ Remembers(t)
  BY <1>1 DEF IInv, Shaped, Remembers, WalkType, Pending
<1>5. Alone(w) => Accounts(t, noted)
  BY <1>1 DEF IInv, Accounts, WalkType
<1>6. StepTo(w, t)
  BY <1>1, <1>2, <1>3, <1>4, <1>5, StackUnchanged DEF StepTo, IInv, SharedTypes, shared, Providers
<1> QED
  BY <1>6, StepPreserves

(* tryStream opens an attempt on r, or skips it silently with a reason; a  *)
(* slot is taken only below the limit.                                     *)
LEMMA AttemptPreserves ==
  ASSUME IInv, NEW w \in Walks, NEW s \in WalkType, NEW r \in Refs, NEW m \in Modes,
         BeginAttempt(w, s, r, m), UNCHANGED <<limited, open, small>>,
         s.stack = walk[w].stack, s.todo # <<>>, Remembers(s),
         m = "retry" => s.stack # <<>>,
         Alone(w) /\ m = "retry" => s.errs # {}
  PROVE  IInv'
<1> DEFINE Top(slot) == [ref |-> r, slot |-> slot]
           t(pc, slot) == [s EXCEPT !.pc = pc, !.mode = m,
                                    !.stack = Append(@, Top(slot))]
<1>1. ASSUME NEW pc \in {"open", "null"}, NEW slot \in BOOLEAN
      PROVE  /\ t(pc, slot) \in WalkType
             /\ t(pc, slot).pc = pc /\ t(pc, slot).stack = Append(s.stack, Top(slot))
             /\ SlotsHeld(t(pc, slot)) = SlotsHeld(walk[w]) + SlotOf(Top(slot))
             /\ Shaped(t(pc, slot)) /\ Remembers(t(pc, slot))
             /\ Last(t(pc, slot).stack) = Top(slot)
  <2>1. Top(slot) \in AttemptType /\ s.stack \in Seq(AttemptType)
    BY DEF AttemptType, WalkType
  <2>2. /\ Append(s.stack, Top(slot)) \in Seq(AttemptType)
        /\ Append(s.stack, Top(slot)) # <<>>
        /\ Len(Append(s.stack, Top(slot))) = Len(s.stack) + 1
        /\ Append(s.stack, Top(slot))[Len(s.stack) + 1] = Top(slot)
    BY <2>1, AppendProperties
  <2>3. t(pc, slot) \in WalkType
    BY <2>2 DEF WalkType, Pcs
  <2>4. t(pc, slot).stack = Append(s.stack, Top(slot)) /\ t(pc, slot).pc = pc
    BY DEF WalkType
  <2>5. SlotsHeld(t(pc, slot)) = SlotsHeld(walk[w]) + SlotOf(Top(slot))
    BY <2>1, <2>4, SlottedAppend DEF SlotsHeld
  <2>6. m = "retry" => Front(Append(s.stack, Top(slot))) # <<>>
    <3> SUFFICES ASSUME m = "retry" PROVE Front(Append(s.stack, Top(slot))) # <<>>
      OBVIOUS
    <3>1. Len(s.stack) \in Nat \ {0}
      BY <2>1, EmptySeq
    <3> DEFINE q == Append(s.stack, Top(slot))
    <3>2. q \in Seq(AttemptType) /\ q # <<>> /\ Len(q) = Len(s.stack) + 1
      BY <2>2
    <3> HIDE DEF q, Top, t
    <3>3. Front(q) \in Seq(AttemptType) /\ Len(Front(q)) = Len(q) - 1
      BY <3>2, FrontProperties
    <3>4. Len(Front(q)) # 0
      BY <3>1, <3>2, <3>3
    <3>5. Front(q) # <<>>
      BY <3>4, EmptySeq
    <3> QED
      BY <3>5 DEF q
  <2>7. Shaped(t(pc, slot))
    BY <2>2, <2>4, <2>6 DEF Shaped, Pending, WalkType
  <2>8. Remembers(t(pc, slot))
    BY DEF Remembers, WalkType
  <2>9. Last(t(pc, slot).stack) = Top(slot)
    BY <2>2, <2>4 DEF Last
  <2> HIDE DEF t, Top
  <2> QED
    BY <2>3, <2>4, <2>5, <2>7, <2>8, <2>9
<1>2. /\ SlotsHeld(walk[w]) \in Nat /\ slots \in Nat /\ slots <= LocalLimit /\ LocalLimit \in Nat
      /\ SharedTypes /\ walk \in [Walks -> WalkType]
  BY SlotsHeldType, FS_CardinalityType, WalkAssumption DEF IInv, SlotsCounted
<1>3. CASE /\ r \notin Unregistered
           /\ r \in Ollama => slots < LocalLimit
           /\ walk' = [walk EXCEPT ![w] = t("open", r \in Ollama)]
           /\ slots' = IF r \in Ollama THEN slots + 1 ELSE slots
           /\ noted' = noted \ {r}
  <2> DEFINE local == r \in Ollama
  <2>1. local \in BOOLEAN
    OBVIOUS
  <2>2. slots' = slots - SlotsHeld(walk[w]) + SlotsHeld(t("open", local)) /\ slots' <= LocalLimit
    <3>1. SlotOf(Top(local)) = IF r \in Ollama THEN 1 ELSE 0
      BY DEF SlotOf
    <3>2. SlotsHeld(t("open", local)) = SlotsHeld(walk[w]) + SlotOf(Top(local))
      BY <1>1, <2>1
    <3> HIDE DEF t, Top
    <3> QED
      BY <1>2, <1>3, <3>1, <3>2
  <2>3. SharedTypes'
    BY <1>2, <1>3 DEF SharedTypes, Providers
  <2>4. Alone(w) => Accounts(t("open", local), noted')
    BY DEF Accounts, WalkType
  <2>5. StepTo(w, t("open", local))
    <3> HIDE DEF t, local
    <3> QED
      BY <1>1, <1>3, <2>1, <2>2, <2>3, <2>4 DEF StepTo, local
  <2> HIDE DEF t
  <2> QED
    BY <2>5, StepPreserves
<1>4. CASE /\ r \in Unregistered \/ (r \in Ollama /\ slots >= LocalLimit)
           /\ walk' = [walk EXCEPT ![w] = t("null", FALSE)]
           /\ noted' = noted \cup {r}
           /\ UNCHANGED slots
  <2> DEFINE n == t("null", FALSE)
  <2>1. /\ n \in WalkType /\ n.pc = "null"
        /\ n.stack = Append(s.stack, Top(FALSE))
        /\ SlotsHeld(n) = SlotsHeld(walk[w]) + SlotOf(Top(FALSE))
        /\ Shaped(n) /\ Remembers(n) /\ Last(n.stack) = Top(FALSE)
    <3> HIDE DEF t, Top
    <3> QED
      BY <1>1
  <2>2. SlotOf(Top(FALSE)) = 0 /\ Top(FALSE).ref = r
    BY DEF SlotOf
  <2>3. n.todo # <<>> /\ (m = "retry" => n.errs = s.errs) /\ n.mode = m
    BY DEF WalkType
  <2> HIDE DEF n
  <2>4. SlotsHeld(n) = SlotsHeld(walk[w])
    BY <1>2, <2>1, <2>2
  <2>5. slots' = slots - SlotsHeld(walk[w]) + SlotsHeld(n) /\ slots' <= LocalLimit
    BY <1>2, <1>4, <2>4
  <2>6. SharedTypes'
    BY <1>2, <1>4 DEF SharedTypes, Providers
  <2>7. Alone(w) => Accounts(n, noted')
    BY <1>4, <2>1, <2>2, <2>3 DEF Accounts
  <2>8. StepTo(w, n)
    BY <1>4, <2>1, <2>5, <2>6, <2>7 DEF StepTo, n
  <2> QED
    BY <2>8, StepPreserves
<1> QED
  BY <1>3, <1>4 DEF BeginAttempt

(* The walk returns: the finally blocks on its stack run.                  *)
LEMMA ReturnPreserves ==
  ASSUME IInv, NEW w \in Walks, NEW s \in WalkType, NEW how, Returns(w, s, how),
         how \in {"no", "answer", "abort", "error", "overflow", "thrown"},
         s.stack = walk[w].stack, Remembers(s), SharedTypes',
         Alone(w) => how # "no"
  PROVE  IInv'
<1> DEFINE t == [s EXCEPT !.pc = "returned", !.stack = <<>>, !.ended = how]
<1>1. t \in WalkType
  <2>1. <<>> \in Seq(AttemptType)
    BY EmptySeq
  <2> QED
    BY <2>1 DEF WalkType, Pcs
<1>2. t.pc = "returned" /\ t.stack = <<>> /\ t.ended = how
  BY DEF WalkType
<1>3. walk' = [walk EXCEPT ![w] = t]
  BY DEF Returns
<1>4. slots' = slots - SlotsHeld(walk[w]) + SlotsHeld(t) /\ slots' <= LocalLimit
  <2>1. SlotsHeld(t) = 0
    BY <1>2, SlottedEmpty DEF SlotsHeld
  <2>2. slots' = slots - SlotsHeld(walk[w])
    BY DEF Returns, SlotsHeld
  <2>3. SlotsHeld(walk[w]) \in Nat /\ slots \in Nat /\ slots <= LocalLimit /\ LocalLimit \in Nat
    BY SlotsHeldType, FS_CardinalityType, WalkAssumption DEF IInv, SlotsCounted
  <2> HIDE DEF t
  <2> QED
    BY <2>1, <2>2, <2>3
<1>5. Shaped(t) /\ Remembers(t)
  BY DEF Shaped, Remembers, WalkType, Pending
<1>6. Alone(w) => Accounts(t, noted')
  BY <1>2 DEF Accounts
<1> HIDE DEF t
<1>7. StepTo(w, t)
  BY <1>1, <1>2, <1>3, <1>4, <1>5, <1>6 DEF StepTo
<1> QED
  BY <1>7, StepPreserves

(* An attempt is lost: its slot goes back, after a retry the slot of the   *)
(* attempt below as well, and the walk goes on or ends with an error.      *)
LEMMA GiveUpPreserves ==
  ASSUME IInv, NEW w \in Walks, walk[w].pc \in Pending,
         NEW errs \in SUBSET Causes, GivesUp(w, errs), SharedTypes',
         Alone(w) /\ walk[w].mode \in {"walk", "retry"} => errs # {}
  PROVE  IInv'
<1> DEFINE s == [walk[w] EXCEPT !.errs = errs]
           q == walk[w].stack
           Goes(stack) == [walk[w] EXCEPT !.errs = errs, !.stack = stack, !.pc = "next",
                                          !.mode = "walk", !.todo = Tail(@)]
<1>1. walk[w] \in WalkType /\ walk[w].todo # <<>> /\ walk[w].mode \in Modes
  BY DEF IInv, Shaped, WalkType
<1>2. s \in WalkType /\ s.mode = walk[w].mode /\ s.stack = q
  BY <1>1 DEF WalkType
<1>3. q \in Seq(AttemptType) /\ q # <<>> /\ Tail(walk[w].todo) \in Seq(Refs)
  BY <1>1, HeadTailProperties DEF WalkType, IInv, Shaped
<1>4. Front(q) \in Seq(AttemptType)
      /\ SlotOf(Last(q)) \in Nat
      /\ Cardinality(Slotted(Front(q))) = Cardinality(Slotted(q)) - SlotOf(Last(q))
  BY <1>3, FrontProperties, SlottedFront DEF SlotOf
<1>5. /\ slots \in Nat /\ slots <= LocalLimit /\ LocalLimit \in Nat
      /\ SlotsHeld(walk[w]) = Cardinality(Slotted(q)) /\ Cardinality(Slotted(q)) \in Nat
  BY <1>3, SlottedIsFinite, FS_CardinalityType, WalkAssumption DEF IInv, SlotsCounted, SlotsHeld
<1>6. ASSUME NEW stack \in Seq(AttemptType), walk' = [walk EXCEPT ![w] = Goes(stack)],
             NEW freed \in Nat, slots' = slots - freed,
             Cardinality(Slotted(stack)) = Cardinality(Slotted(q)) - freed,
             walk[w].mode \in {"walk", "retry"}
      PROVE  IInv'
  <2> DEFINE t == Goes(stack)
  <2>1. t \in WalkType
    BY <1>1, <1>3, <1>6 DEF WalkType, Pcs, Modes
  <2>2. t.pc = "next" /\ t.stack = stack /\ t.mode = "walk" /\ t.errs = errs
    BY <1>1 DEF WalkType
  <2>3. Remembers(t)
    BY <1>1 DEF IInv, Remembers, WalkType
  <2> HIDE DEF t
  <2>4. Shaped(t)
    BY <2>2 DEF Shaped, Pending
  <2>5. Alone(w) => Accounts(t, noted')
    BY <1>6, <2>2 DEF Accounts
  <2>6. SlotsHeld(t) = SlotsHeld(walk[w]) - freed
    BY <1>5, <1>6, <2>2 DEF SlotsHeld
  <2>7. slots' = slots - SlotsHeld(walk[w]) + SlotsHeld(t) /\ slots' <= LocalLimit
    BY <1>5, <1>6, <2>6
  <2>8. StepTo(w, t)
    BY <1>6, <2>1, <2>2, <2>3, <2>4, <2>5, <2>7 DEF StepTo, t
  <2> QED
    BY <2>8, StepPreserves
<1>7. CASE walk[w].mode = "walk"
  <2>1. /\ walk' = [walk EXCEPT ![w] = [Popped(s) EXCEPT !.pc = "next", !.todo = Tail(@)]]
        /\ slots' = slots - SlotOf(Last(q))
    BY <1>2, <1>7 DEF GivesUp, Current
  <2>2. [Popped(s) EXCEPT !.pc = "next", !.todo = Tail(@)] = Goes(Front(q))
    BY <1>1, <1>7 DEF Popped, WalkType
  <2> QED
    BY <1>4, <1>6, <1>7, <2>1, <2>2
<1>8. CASE walk[w].mode = "retry"
  <2>1. /\ walk' = [walk EXCEPT ![w] =
                      [Popped(Popped(s)) EXCEPT !.pc = "next", !.mode = "walk",
                                                !.todo = Tail(@)]]
        /\ slots' = slots - SlotOf(Last(q)) - SlotOf(Last(Front(q)))
    BY <1>2, <1>8 DEF GivesUp, Current
  <2>2. [Popped(Popped(s)) EXCEPT !.pc = "next", !.mode = "walk", !.todo = Tail(@)]
          = Goes(Front(Front(q)))
    BY <1>1 DEF Popped, WalkType
  <2>3. Front(q) # <<>>
    BY <1>8 DEF IInv, Shaped
  <2>4. /\ Front(Front(q)) \in Seq(AttemptType)
        /\ SlotOf(Last(Front(q))) \in Nat
        /\ Cardinality(Slotted(Front(Front(q)))) =
             Cardinality(Slotted(Front(q))) - SlotOf(Last(Front(q)))
    BY <1>4, <2>3, FrontProperties, SlottedFront DEF SlotOf
  <2> DEFINE freed == SlotOf(Last(q)) + SlotOf(Last(Front(q)))
  <2>5. /\ freed \in Nat /\ slots' = slots - freed
        /\ Cardinality(Slotted(Front(Front(q)))) = Cardinality(Slotted(q)) - freed
    BY <1>4, <1>5, <2>1, <2>4
  <2> HIDE DEF freed, Goes
  <2> QED
    BY <1>6, <1>8, <2>1, <2>2, <2>4, <2>5
<1>9. CASE walk[w].mode \in {"probe", "collapse"}
  <2>1. Returns(w, s, "error")
    BY <1>2, <1>9 DEF GivesUp
  <2>2. Remembers(s)
    BY <1>1 DEF IInv, Remembers, WalkType
  <2> HIDE DEF s
  <2> QED
    BY <1>2, <2>1, <2>2, ReturnPreserves
<1> QED
  BY <1>1, <1>7, <1>8, <1>9 DEF Modes

-----------------------------------------------------------------------------
(* The checks before an attempt, and the attempt itself.                   *)
LEMMA SkipsPreserve ==
  ASSUME IInv, NEW w \in Walks,
         SkipLimited(w) \/ SkipOpenBreaker(w) \/ DaemonDown(w) \/ SkipSmall(w)
  PROVE  IInv'
<1>1. walk[w].pc = "daemon" => walk[w].todo # <<>>
  BY DEF IInv, Shaped
<1>2. {"cooldown", "breaker", "daemon", "window"} \subseteq Causes
  BY DEF Causes
<1>3. CASE SkipLimited(w)
  BY <1>2, <1>3, SkipPreserves DEF SkipLimited
<1>4. CASE SkipOpenBreaker(w)
  BY <1>2, <1>4, SkipPreserves DEF SkipOpenBreaker
<1>5. CASE DaemonDown(w)
  BY <1>1, <1>2, <1>5, SkipPreserves DEF DaemonDown, Resumes
<1>6. CASE SkipSmall(w)
  BY <1>1, <1>2, <1>6, SkipPreserves DEF SkipSmall, Cleared, PassesChecks, Resumes
<1> QED
  BY <1>3, <1>4, <1>5, <1>6

LEMMA TryPreserves ==
  ASSUME IInv, NEW w \in Walks, TryCandidate(w)
  PROVE  IInv'
<1>1. walk[w] \in WalkType /\ walk[w].todo # <<>> /\ Remembers(walk[w])
  BY DEF IInv, Shaped, TryCandidate, Cleared, PassesChecks, Resumes
<1>2. Head(walk[w].todo) \in Refs
  BY <1>1, HeadTailProperties DEF WalkType
<1>3. "walk" \in Modes
  BY DEF Modes
<1> QED
  BY <1>1, <1>2, <1>3, AttemptPreserves DEF TryCandidate

LEMMA WakePreserves ==
  ASSUME IInv, NEW w \in Walks, NEW r \in Refs, Wake(w, r)
  PROVE  IInv'
<1>1. walk[w] \in WalkType /\ walk[w].todo # <<>> /\ Remembers(walk[w])
  BY DEF IInv, Shaped, Wake, Resumes
<1>2. walk[w].mode \in Modes
  BY <1>1 DEF WalkType
<1>3. walk[w].mode = "retry" => walk[w].stack # <<>>
  BY DEF IInv, Shaped, Wake, Resumes
<1>4. Alone(w) /\ walk[w].mode = "retry" => walk[w].errs # {}
  BY DEF IInv, Accounts, Wake, Resumes
<1> QED
  BY <1>1, <1>2, <1>3, <1>4, AttemptPreserves DEF Wake

(* The last resort: a probe or a collapse retry, at once or after a wait.  *)
LEMMA LastResortPreserves ==
  ASSUME IInv, NEW w \in Walks, NEW r \in ToSet(walk[w].cands), NEW m \in {"probe", "collapse"},
         AtEnd(w), LastResort(w, r, m), UNCHANGED <<limited, open, small>>
  PROVE  IInv'
<1> DEFINE s == [walk[w] EXCEPT !.todo = <<r>>, !.mode = m]
<1>1. walk[w] \in WalkType /\ r \in Refs
  <2>1. walk[w] \in WalkType /\ walk[w].cands \in Seq(Refs)
    BY DEF IInv, WalkType
  <2>2. DOMAIN walk[w].cands = 1 .. Len(walk[w].cands)
    BY <2>1, LenProperties
  <2> QED
    BY <2>1, <2>2, ElementOfSeq DEF ToSet
<1>2. s \in WalkType /\ s.todo # <<>> /\ s.stack = walk[w].stack /\ Remembers(s)
  <2>1. <<r>> \in Seq(Refs) /\ <<r>> # <<>>
    BY <1>1
  <2>2. s \in WalkType
    BY <1>1, <2>1 DEF WalkType, Modes
  <2>3. Remembers(s)
    BY <1>1 DEF IInv, Remembers, WalkType
  <2> QED
    BY <1>1, <2>1, <2>2, <2>3 DEF WalkType
<1>3. CASE BeginAttempt(w, s, r, m)
  <2>1. m \in Modes /\ m # "retry"
    BY DEF Modes
  <2> HIDE DEF s
  <2> QED
    BY <1>1, <1>2, <1>3, <2>1, AttemptPreserves
<1>4. CASE walk' = [walk EXCEPT ![w] = [s EXCEPT !.pc = "sleep"]] /\ UNCHANGED <<noted, slots>>
  <2> DEFINE t == [s EXCEPT !.pc = "sleep"]
  <2>1. t \in WalkType
    BY <1>2 DEF WalkType, Pcs
  <2>2. /\ t.stack = walk[w].stack /\ t.pc = "sleep" /\ t.todo # <<>>
        /\ t.mode = m
    BY <1>1, <1>2 DEF WalkType
  <2>3. Remembers(t)
    BY <1>2 DEF Remembers, WalkType
  <2> HIDE DEF t
  <2>4. Shaped(t)
    BY <2>2 DEF Shaped, Pending
  <2>5. Accounts(t, noted')
    BY <2>2 DEF Accounts
  <2>6. slots' = slots - SlotsHeld(walk[w]) + SlotsHeld(t) /\ slots' <= LocalLimit
    BY <1>4, <2>1, <2>2, StackUnchanged
  <2>7. SharedTypes'
    BY <1>4 DEF IInv, SharedTypes, Providers
  <2>8. StepTo(w, t)
    BY <1>4, <2>1, <2>2, <2>3, <2>4, <2>5, <2>6, <2>7 DEF StepTo, t
  <2> QED
    BY <2>8, StepPreserves
<1> QED
  BY <1>3, <1>4 DEF LastResort

-----------------------------------------------------------------------------
(* What a failure may do to the cooldowns and the breakers.                *)
LEMMA FailureTypes ==
  ASSUME SharedTypes, NEW r \in Refs, UNCHANGED <<small, noted>>,
         limited' \in Cooled(r) \cup {limited}, open' \in Evidence(r)
  PROVE  SharedTypes'
BY WalkAssumption DEF SharedTypes, Cooled, Evidence, Providers

(* The attempt a pending walk is in.                                       *)
LEMMA CurrentType ==
  ASSUME IInv, NEW w \in Walks, walk[w].stack # <<>>
  PROVE  Current(w) \in AttemptType /\ Current(w).ref \in Refs
<1>1. walk[w].stack \in Seq(AttemptType)
  BY DEF IInv, WalkType
<1>2. Last(walk[w].stack) \in AttemptType
  BY <1>1, FrontProperties
<1> QED
  BY <1>2 DEF Current, AttemptType

(* A front that is not empty belongs to a sequence of two or more.         *)
LEMMA FrontNotEmpty ==
  ASSUME NEW S, NEW q \in Seq(S), q # <<>>
  PROVE  Front(q) # <<>> <=> Len(q) > 1
<1>1. Front(q) \in Seq(S) /\ Len(Front(q)) = Len(q) - 1 /\ Len(q) \in Nat \ {0}
  BY FrontProperties
<1>2. Front(q) # <<>> <=> Len(Front(q)) # 0
  BY <1>1, EmptySeq
<1> QED
  BY <1>1, <1>2

(* tryStream gives up silently after the key: the slot it reserved goes    *)
(* back, the reason is left.                                               *)
LEMMA OpenSkipsPreserves ==
  ASSUME IInv, NEW w \in Walks, OpenSkips(w)
  PROVE  IInv'
<1> DEFINE q == walk[w].stack
           top == [ref |-> Current(w).ref, slot |-> FALSE]
           p == Append(Front(q), top)
           t == [walk[w] EXCEPT !.pc = "null", !.stack = p]
<1>1. walk[w] \in WalkType /\ walk[w].pc = "open" /\ walk[w].todo # <<>> /\ q # <<>>
  BY DEF IInv, Shaped, Pending, OpenSkips, Resumes
<1>2. q \in Seq(AttemptType) /\ Current(w) \in AttemptType /\ Current(w).ref \in Refs
  BY <1>1, CurrentType DEF WalkType
<1>3. top \in AttemptType /\ SlotOf(top) = 0
  BY <1>2 DEF AttemptType, SlotOf
<1>4. /\ Front(q) \in Seq(AttemptType) /\ Len(Front(q)) = Len(q) - 1
      /\ Len(q) \in Nat \ {0}
  BY <1>1, <1>2, FrontProperties
<1>5. p \in Seq(AttemptType) /\ p # <<>> /\ Len(p) = Len(q) /\ p[Len(q)] = top
  BY <1>3, <1>4, AppendProperties
<1>6. SlotsHeld(t) = SlotsHeld(walk[w]) - SlotOf(Current(w)) /\ SlotOf(Current(w)) \in Nat
  <2>1. Cardinality(Slotted(p)) = Cardinality(Slotted(Front(q))) + SlotOf(top)
    BY <1>3, <1>4, SlottedAppend
  <2>2. Cardinality(Slotted(Front(q))) = Cardinality(Slotted(q)) - SlotOf(Last(q))
    BY <1>1, <1>2, SlottedFront
  <2>3. Cardinality(Slotted(q)) \in Nat /\ SlotOf(Last(q)) \in Nat
    BY <1>2, SlottedIsFinite DEF SlotOf
  <2>4. t.stack = p
    BY <1>1 DEF WalkType
  <2> HIDE DEF t, p
  <2>5. Cardinality(Slotted(p)) = Cardinality(Slotted(q)) - SlotOf(Last(q))
    BY <1>3, <2>1, <2>2, <2>3
  <2> QED
    BY <2>3, <2>4, <2>5 DEF SlotsHeld, Current
<1>7. walk[w].mode = "retry" => Front(p) # <<>>
  <2>1. walk[w].mode = "retry" => Front(q) # <<>>
    BY <1>1 DEF IInv, Shaped, Pending
  <2> QED
    BY <1>1, <1>2, <1>5, <2>1, FrontNotEmpty
<1>8. t \in WalkType
  BY <1>1, <1>5 DEF WalkType, Pcs
<1>9. /\ t.pc = "null" /\ t.stack = p /\ t.todo = walk[w].todo /\ t.mode = walk[w].mode
      /\ t.errs = walk[w].errs
  BY <1>1 DEF WalkType
<1>10. Remembers(t)
  BY <1>1 DEF IInv, Remembers, WalkType
<1>11. walk' = [walk EXCEPT ![w] = t]
  BY DEF OpenSkips
<1>12. Last(p).ref = Current(w).ref
  BY <1>5 DEF Last
<1>13. SharedTypes'
  BY <1>2 DEF OpenSkips, IInv, SharedTypes, Providers
<1> HIDE DEF t, p
<1>14. Shaped(t)
  BY <1>1, <1>5, <1>7, <1>9 DEF Shaped, Pending
<1>15. Alone(w) => Accounts(t, noted')
  BY <1>1, <1>9, <1>12 DEF IInv, Accounts, OpenSkips
<1>16. slots' = slots - SlotsHeld(walk[w]) + SlotsHeld(t) /\ slots' <= LocalLimit
  <2>1. slots' = slots - SlotOf(Current(w))
    BY DEF OpenSkips
  <2>2. SlotsHeld(walk[w]) \in Nat /\ slots \in Nat /\ slots <= LocalLimit /\ LocalLimit \in Nat
    BY <1>1, SlotsHeldType, FS_CardinalityType, WalkAssumption DEF IInv, SlotsCounted
  <2> QED
    BY <1>6, <2>1, <2>2
<1>17. StepTo(w, t)
  BY <1>8, <1>9, <1>10, <1>11, <1>13, <1>14, <1>15, <1>16 DEF StepTo
<1> QED
  BY <1>17, StepPreserves

(* The host throws, the stream fails, or a silent skip is resumed.         *)
LEMMA LossPreserves ==
  ASSUME IInv, NEW w \in Walks, OpenThrows(w) \/ StreamFails(w) \/ ResumeNull(w)
  PROVE  IInv'
<1>1. /\ walk[w] \in WalkType /\ walk[w].pc \in Pending /\ walk[w].stack # <<>>
      /\ SharedTypes
  BY DEF IInv, Shaped, Pending, OpenThrows, StreamFails, ResumeNull, Resumes
<1>2. Current(w).ref \in Refs
  BY <1>1, CurrentType
<1>3. walk[w].errs \in SUBSET Causes /\ walk[w].errs \cup {"failed"} \in SUBSET Causes
  BY <1>1 DEF WalkType, Causes
<1>4. CASE OpenThrows(w)
  <2>1. SharedTypes'
    <3>1. limited' \in Cooled(Current(w).ref) \cup {limited}
      BY <1>4 DEF OpenThrows
    <3>2. open' \in Evidence(Current(w).ref)
      BY <1>4 DEF OpenThrows, Evidence
    <3> QED
      BY <1>1, <1>2, <1>4, <3>1, <3>2, FailureTypes DEF OpenThrows
  <2> QED
    BY <1>1, <1>3, <1>4, <2>1, GiveUpPreserves DEF OpenThrows
<1>5. CASE StreamFails(w)
  <2>1. SharedTypes'
    <3>1. limited' \in Cooled(Current(w).ref) \cup {limited}
      BY <1>5 DEF StreamFails
    <3>2. open' \in Evidence(Current(w).ref)
      BY <1>5 DEF StreamFails, Evidence
    <3> QED
      BY <1>1, <1>2, <1>5, <3>1, <3>2, FailureTypes DEF StreamFails
  <2> QED
    BY <1>1, <1>3, <1>5, <2>1, GiveUpPreserves DEF StreamFails
<1>6. CASE ResumeNull(w)
  <2>1. SharedTypes'
    <3>1. limited' \in Cooled(Current(w).ref) \cup {limited}
      BY <1>6 DEF ResumeNull
    <3>2. open' \in Evidence(Current(w).ref)
      BY <1>6 DEF ResumeNull, Evidence
    <3> QED
      BY <1>1, <1>2, <1>6, <3>1, <3>2, FailureTypes DEF ResumeNull
  <2>2. Alone(w) => Accounts(walk[w], noted) /\ walk[w].pc = "null"
    BY <1>6 DEF IInv, ResumeNull, Resumes
  <2>3. CASE walk[w].mode = "walk"
    <3> DEFINE errs == IF Current(w).ref \in noted THEN walk[w].errs \cup {"failed"}
                                                   ELSE walk[w].errs
    <3>1. GivesUp(w, errs) /\ errs \in SUBSET Causes
      BY <1>3, <1>6, <2>3 DEF ResumeNull
    <3>2. Alone(w) => errs # {}
      BY <2>2, <2>3 DEF Accounts, Current
    <3> HIDE DEF errs
    <3> QED
      BY <1>1, <2>1, <3>1, <3>2, GiveUpPreserves
  <2>4. CASE walk[w].mode # "walk"
    <3>1. GivesUp(w, walk[w].errs)
      BY <1>6, <2>4 DEF ResumeNull
    <3>2. Alone(w) /\ walk[w].mode \in {"walk", "retry"} => walk[w].errs # {}
      BY <2>2, <2>4 DEF Accounts
    <3> QED
      BY <1>1, <1>3, <2>1, <3>1, <3>2, GiveUpPreserves
  <2> QED
    BY <2>3, <2>4
<1> QED
  BY <1>4, <1>5, <1>6

(* The stream opens.                                                       *)
LEMMA OpenStreamsPreserves ==
  ASSUME IInv, NEW w \in Walks, OpenStreams(w)
  PROVE  IInv'
<1> DEFINE t == [walk[w] EXCEPT !.pc = "stream"]
<1>1. walk[w] \in WalkType /\ walk[w].pc = "open"
  BY DEF IInv, OpenStreams, Resumes
<1>2. t \in WalkType /\ t.stack = walk[w].stack /\ t.pc = "stream"
  BY <1>1 DEF WalkType, Pcs
<1>3. walk' = [walk EXCEPT ![w] = t] /\ UNCHANGED shared
  BY DEF OpenStreams
<1>4. Shaped(t) /\ Remembers(t)
  BY <1>1 DEF IInv, Shaped, Remembers, WalkType, Pending
<1>5. Alone(w) => Accounts(t, noted)
  BY <1>1 DEF IInv, Accounts, WalkType
<1>6. StepTo(w, t)
  BY <1>1, <1>2, <1>3, <1>4, <1>5, StackUnchanged DEF StepTo, IInv, SharedTypes, shared, Providers
<1> QED
  BY <1>6, StepPreserves

(* The walk waits for a near reset and keeps the failed attempt.           *)
LEMMA WaitPreserves ==
  ASSUME IInv, NEW w \in Walks, WaitForReset(w)
  PROVE  IInv'
<1> DEFINE t == [walk[w] EXCEPT !.pc = "sleep", !.mode = "retry", !.waited = TRUE,
                                !.errs = @ \cup {"failed"}]
<1>1. walk[w] \in WalkType /\ walk[w].pc = "stream" /\ walk[w].stack # <<>> /\ walk[w].todo # <<>>
  BY DEF IInv, Shaped, Pending, WaitForReset, Resumes
<1>2. t \in WalkType /\ t.stack = walk[w].stack /\ t.pc = "sleep"
  BY <1>1 DEF WalkType, Pcs, Modes, Causes
<1>3. walk' = [walk EXCEPT ![w] = t] /\ UNCHANGED slots
  BY DEF WaitForReset
<1>4. Shaped(t) /\ Remembers(t) /\ Accounts(t, noted')
  BY <1>1 DEF IInv, Shaped, Remembers, Accounts, WalkType, Pending
<1>5. SharedTypes'
  BY <1>1, CurrentType DEF WaitForReset, IInv, SharedTypes, Providers
<1>6. StepTo(w, t)
  BY <1>1, <1>2, <1>3, <1>4, <1>5, StackUnchanged DEF StepTo
<1> QED
  BY <1>6, StepPreserves

(* A nested driveStream begins on a list of candidates.                    *)
LEMMA RestartPreserves ==
  ASSUME IInv, NEW w \in Walks, NEW t \in WalkType,
         t.pc = "next", t.mode = "walk", SlotsHeld(t) = SlotsHeld(walk[w]), t.todo # <<>>,
         Remembers(t), walk' = [walk EXCEPT ![w] = t], UNCHANGED slots, SharedTypes'
  PROVE  IInv'
<1>1. Shaped(t) /\ Accounts(t, noted')
  BY DEF Shaped, Accounts, Pending
<1>2. slots' = slots - SlotsHeld(walk[w]) + SlotsHeld(t) /\ slots' <= LocalLimit
  <2>1. SlotsHeld(t) \in Nat /\ slots \in Nat /\ slots <= LocalLimit
    BY SlotsHeldType, FS_CardinalityType DEF IInv, SlotsCounted
  <2> QED
    BY <2>1
<1>3. StepTo(w, t)
  BY <1>1, <1>2 DEF StepTo
<1> QED
  BY <1>3, StepPreserves

LEMMA StartedType ==
  ASSUME NEW s \in WalkType, NEW g \in Groups, NEW refs \in Seq(Refs), refs # <<>>,
         NEW seen \in SUBSET Groups
  PROVE  /\ Started(s, g, refs, seen) \in WalkType
         /\ Started(s, g, refs, seen).pc = "next" /\ Started(s, g, refs, seen).mode = "walk"
         /\ Started(s, g, refs, seen).stack = s.stack /\ Started(s, g, refs, seen).todo # <<>>
         /\ Started(s, g, refs, seen).visited = seen /\ Started(s, g, refs, seen).group = g
         /\ Started(s, g, refs, seen).entered = s.entered
         /\ Started(s, g, refs, seen).again = s.again
BY DEF Started, WalkType, Pcs, Modes

(* A larger candidate is one of those behind the overflowing one.          *)
LEMMA LargerType ==
  ASSUME IInv, NEW w \in Walks, NEW refs \in Larger(w)
  PROVE  refs \in Seq(Refs)
<1> DEFINE todo == walk[w].todo
           kept == {i \in 2 .. Len(todo) : todo[i] \notin small}
<1>1. todo \in Seq(Refs) /\ Len(todo) \in Nat
  BY LenProperties DEF IInv, WalkType
<1>2. Cardinality(kept) \in Nat
  <2>1. IsFiniteSet(2 .. Len(todo)) /\ kept \subseteq 2 .. Len(todo)
    BY <1>1, FS_Interval
  <2> HIDE DEF kept, todo
  <2> QED
    BY <2>1, FS_Subset, FS_CardinalityType
<1>3. PICK at \in [1 .. Cardinality(kept) -> kept] : refs = [k \in DOMAIN at |-> todo[at[k]]]
  BY DEF Larger
<1>4. ASSUME NEW i \in kept PROVE todo[i] \in Refs
  BY <1>1, ElementOfSeq
<1>5. refs \in [1 .. Cardinality(kept) -> Refs]
  <2> HIDE DEF kept, todo
  <2> QED
    BY <1>3, <1>4
<1> HIDE DEF kept
<1> QED
  BY <1>2, <1>5, SeqDef

LEMMA OverflowPreserves ==
  ASSUME IInv, NEW w \in Walks, OverflowRetry(w)
  PROVE  IInv'
<1>1. walk[w] \in WalkType /\ walk[w].pc = "stream" /\ walk[w].stack # <<>> /\ ~walk[w].again
  BY DEF IInv, Shaped, Remembers, Pending, OverflowRetry, Resumes
<1>2. PICK parsed \in OverflowTexts[w], refs \in Larger(w) \ {<<>>} :
        walk' = [walk EXCEPT ![w] = [Started(walk[w], walk[w].group, refs, {}) EXCEPT
                                       !.entered = {walk[w].group},
                                       !.blind = IF parsed THEN @ ELSE @ \cup {Current(w).ref},
                                       !.stack = Holding(@)]]
  BY DEF OverflowRetry
<1> DEFINE t == [Started(walk[w], walk[w].group, refs, {}) EXCEPT
                   !.entered = {walk[w].group},
                   !.blind = IF parsed THEN @ ELSE @ \cup {Current(w).ref},
                   !.stack = Holding(@)]
<1>3. refs \in Seq(Refs) /\ refs # <<>>
  BY <1>2, LargerType
<1> DEFINE u == Started(walk[w], walk[w].group, refs, {})
<1>4. /\ u \in WalkType /\ u.pc = "next" /\ u.mode = "walk" /\ u.stack = walk[w].stack
      /\ u.todo # <<>> /\ u.group = walk[w].group /\ u.again = walk[w].again
      /\ walk[w].group \in Groups
  <2>1. walk[w].group \in Groups
    BY <1>1 DEF WalkType
  <2> QED
    BY <1>1, <1>3, <2>1, StartedType
<1>5. /\ t \in WalkType
      /\ t.pc = "next" /\ t.mode = "walk" /\ t.stack = Holding(walk[w].stack) /\ t.todo # <<>>
      /\ Remembers(t)
  <2> DEFINE unread == IF parsed THEN u.blind ELSE u.blind \cup {Current(w).ref}
  <2> HIDE DEF u
  <2>1. t = [u EXCEPT !.entered = {walk[w].group}, !.blind = unread, !.stack = Holding(u.stack)]
    BY DEF u
  <2>2. {walk[w].group} \in SUBSET Groups /\ unread \in SUBSET Refs /\ Holding(u.stack) \in Seq(AttemptType)
    <3>1. Current(w).ref \in Refs
      BY <1>1, CurrentType
    <3>2. walk[w].stack \in Seq(AttemptType) /\ u.blind \subseteq Refs
      BY <1>1, <1>4 DEF WalkType
    <3> QED
      BY <1>1, <1>4, <3>1, <3>2, FrontProperties DEF Holding
  <2> HIDE DEF t, unread
  <2>3. t \in WalkType
    BY <1>4, <2>1, <2>2 DEF WalkType
  <2>4. /\ t.pc = u.pc /\ t.mode = u.mode /\ t.stack = Holding(u.stack) /\ t.todo = u.todo
        /\ t.group = u.group /\ t.again = u.again /\ t.entered = {walk[w].group}
    BY <1>4, <2>1 DEF WalkType
  <2> QED
    BY <1>1, <1>4, <2>3, <2>4 DEF Remembers
<1>6. walk' = [walk EXCEPT ![w] = t] /\ UNCHANGED slots
  BY <1>2 DEF OverflowRetry
<1>7. SharedTypes'
  BY <1>1, CurrentType DEF OverflowRetry, IInv, SharedTypes, Providers
<1>8. SlotsHeld(t) = SlotsHeld(walk[w])
  <2> DEFINE q == walk[w].stack
  <2>1. q \in Seq(AttemptType) /\ q # <<>>
    BY <1>1 DEF WalkType
  <2>2. Cardinality(Slotted(Front(q))) = Cardinality(Slotted(q)) - SlotOf(Last(q))
    BY <2>1, SlottedFront DEF SlotOf
  <2>3. Cardinality(Slotted(q)) \in Nat
    BY <2>1, SlottedIsFinite
  <2> HIDE DEF q, t
  <2>4. Cardinality(Slotted(Holding(q))) = Cardinality(Slotted(q))
    BY <2>2, <2>3 DEF Holding, SlotOf
  <2> QED
    BY <1>5, <2>4 DEF SlotsHeld, q
<1> HIDE DEF t
<1> QED
  BY <1>5, <1>6, <1>7, <1>8, RestartPreserves

(* getFallbackGroup offers only groups the cascade has not been in.        *)
LEMMA FallbackIsNew ==
  ASSUME NEW g \in Groups, NEW seen, NEW f \in FallbackGroups(g, seen)
  PROVE  f \in Groups /\ f \notin seen
<1>1. FallbackOrder[g] \in Seq(Groups)
  BY WalkAssumption
<1>2. DOMAIN FallbackOrder[g] = 1 .. Len(FallbackOrder[g])
  BY <1>1, LenProperties
<1> QED
  BY <1>1, <1>2, ElementOfSeq DEF FallbackGroups

LEMMA CascadePreserves ==
  ASSUME IInv, NEW w \in Walks, Cascade(w)
  PROVE  IInv'
<1> DEFINE seen == walk[w].visited \cup {walk[w].group}
<1>1. /\ walk[w] \in WalkType /\ walk[w].pc = "next" /\ ~walk[w].again
      /\ walk[w].entered \subseteq seen
  BY DEF IInv, Remembers, Cascade, AtEnd
<1> PICK g \in FallbackGroups(walk[w].group, seen) : \E h \in Resolved(g) :
        walk' = [walk EXCEPT ![w] =
                   [Started(walk[w], g, CandidatesOf[h], seen) EXCEPT
                      !.entered = @ \cup {g}, !.again = @ \/ g \in walk[w].entered]]
  BY DEF Cascade
<1>2. PICK h \in Resolved(g) :
        walk' = [walk EXCEPT ![w] =
                   [Started(walk[w], g, CandidatesOf[h], seen) EXCEPT
                      !.entered = @ \cup {g}, !.again = @ \/ g \in walk[w].entered]]
  OBVIOUS
<1>3. walk[w].group \in Groups /\ seen \in SUBSET Groups /\ walk[w].entered \in SUBSET Groups
  BY <1>1 DEF WalkType
<1>4. g \in Groups /\ g \notin seen
  BY <1>3, FallbackIsNew
<1>5. CandidatesOf[h] \in Seq(Refs) /\ CandidatesOf[h] # <<>>
  <2>1. FallbackOrder[g] \in Seq(Groups) /\ DOMAIN FallbackOrder[g] = 1 .. Len(FallbackOrder[g])
    BY <1>4, WalkAssumption, LenProperties
  <2>2. h \in Groups
    BY <1>2, <1>4, <2>1, ElementOfSeq DEF Resolved, ToSet
  <2> QED
    BY <1>2, <2>2, WalkAssumption DEF Resolved
<1> DEFINE u == Started(walk[w], g, CandidatesOf[h], seen)
           t == [u EXCEPT !.entered = @ \cup {g}, !.again = @ \/ g \in walk[w].entered]
<1>6. /\ u \in WalkType /\ u.pc = "next" /\ u.mode = "walk" /\ u.stack = walk[w].stack
      /\ u.todo # <<>> /\ u.visited = seen /\ u.group = g
      /\ u.entered = walk[w].entered /\ u.again = walk[w].again
  <2> HIDE DEF seen
  <2> QED
    BY <1>1, <1>3, <1>4, <1>5, StartedType
<1>7. /\ t \in WalkType
      /\ t.pc = "next" /\ t.mode = "walk" /\ t.stack = walk[w].stack /\ t.todo # <<>>
      /\ t.visited = seen /\ t.group = g /\ t.entered = walk[w].entered \cup {g}
      /\ t.again = (walk[w].again \/ g \in walk[w].entered)
  <2> HIDE DEF u, seen
  <2> QED
    BY <1>3, <1>4, <1>6 DEF WalkType
<1>8. walk' = [walk EXCEPT ![w] = t]
  BY <1>2
<1>9. SharedTypes' /\ UNCHANGED slots
  BY DEF Cascade, shared, IInv, SharedTypes, Providers
<1> HIDE DEF t, seen
<1>10. Remembers(t)
  BY <1>1, <1>4, <1>7 DEF Remembers
<1>11. SlotsHeld(t) = SlotsHeld(walk[w])
  BY <1>7 DEF SlotsHeld
<1> QED
  BY <1>7, <1>8, <1>9, <1>10, <1>11, RestartPreserves

-----------------------------------------------------------------------------
(* The ways out while a stream is consumed.                                *)
LEMMA StreamEndsPreserve ==
  ASSUME IInv, NEW w \in Walks, Serve(w) \/ Aborted(w) \/ OverflowEnds(w)
  PROVE  IInv'
<1>1. walk[w] \in WalkType /\ walk[w].stack # <<>> /\ Remembers(walk[w]) /\ SharedTypes
  BY DEF IInv, Shaped, Pending, Serve, Aborted, OverflowEnds, Resumes
<1>2. Current(w).ref \in Refs
  BY <1>1, CurrentType
<1>3. CASE Serve(w)
  <2>1. SharedTypes' /\ Returns(w, walk[w], "answer")
    BY <1>1, <1>3 DEF Serve, SharedTypes, Providers
  <2> QED
    BY <1>1, <2>1, ReturnPreserves
<1>4. CASE Aborted(w)
  <2>1. SharedTypes' /\ Returns(w, walk[w], "abort")
    BY <1>1, <1>4 DEF Aborted, SharedTypes, Providers
  <2> QED
    BY <1>1, <2>1, ReturnPreserves
<1>5. CASE OverflowEnds(w)
  <2>1. SharedTypes' /\ Returns(w, walk[w], "overflow")
    BY <1>1, <1>2, <1>5 DEF OverflowEnds, SharedTypes, Providers
  <2> QED
    BY <1>1, <2>1, ReturnPreserves
<1> QED
  BY <1>3, <1>4, <1>5

(* The ways out at the end of the loop, and a throw.  Only a walk that has *)
(* no error to report may return without a terminal event, and such a walk *)
(* did not run alone.                                                      *)
LEMMA LoopEndsPreserve ==
  ASSUME IInv, NEW w \in Walks,
         WindowsExhausted(w) \/ AllFailed(w) \/ NothingToReport(w) \/ Throws(w)
  PROVE  IInv'
<1>1. walk[w] \in WalkType /\ Remembers(walk[w])
  BY DEF IInv
<1>2. SharedTypes'
  BY DEF IInv, SharedTypes, Providers, WindowsExhausted, AllFailed, NothingToReport, Throws
<1>3. CASE WindowsExhausted(w)
  BY <1>1, <1>2, <1>3, ReturnPreserves DEF WindowsExhausted
<1>4. CASE AllFailed(w)
  BY <1>1, <1>2, <1>4, ReturnPreserves DEF AllFailed
<1>5. CASE NothingToReport(w)
  <2>1. ~Alone(w)
    BY <1>5 DEF IInv, Accounts, NothingToReport, AtEnd
  <2> QED
    BY <1>1, <1>2, <1>5, <2>1, ReturnPreserves DEF NothingToReport
<1>6. CASE Throws(w)
  BY <1>1, <1>2, <1>6, ReturnPreserves DEF Throws
<1> QED
  BY <1>3, <1>4, <1>5, <1>6

-----------------------------------------------------------------------------
(* Every step preserves the invariant.                                     *)
LEMMA NextPreserves == IInv /\ [Next]_vars => IInv'
<1> SUFFICES ASSUME IInv, [Next]_vars PROVE IInv'
  OBVIOUS
<1>1. ASSUME NEW w \in Walks, Step(w) PROVE IInv'
  <2>1. CASE Begin(w)
    BY <2>1, BeginPreserves
  <2>2. CASE SkipLimited(w) \/ SkipOpenBreaker(w) \/ DaemonDown(w) \/ SkipSmall(w)
    BY <2>2, SkipsPreserve
  <2>3. CASE AskDaemon(w)
    BY <2>3, AskPreserves
  <2>4. CASE TryCandidate(w)
    BY <2>4, TryPreserves
  <2>5. CASE OpenSkips(w)
    BY <2>5, OpenSkipsPreserves
  <2>6. CASE OpenThrows(w) \/ StreamFails(w) \/ ResumeNull(w)
    BY <2>6, LossPreserves
  <2>7. CASE OpenStreams(w)
    BY <2>7, OpenStreamsPreserves
  <2>8. CASE Serve(w) \/ Aborted(w) \/ OverflowEnds(w)
    BY <2>8, StreamEndsPreserve
  <2>9. CASE WaitForReset(w)
    BY <2>9, WaitPreserves
  <2>10. CASE OverflowRetry(w)
    BY <2>10, OverflowPreserves
  <2>11. CASE \E r \in Refs : Wake(w, r)
    BY <2>11, WakePreserves
  <2>12. CASE Cascade(w)
    BY <2>12, CascadePreserves
  <2>13. CASE ForcedProbe(w) \/ CollapseRetry(w)
    BY <2>13, LastResortPreserves DEF ForcedProbe, CollapseRetry, Exhausted
  <2>14. CASE WindowsExhausted(w) \/ AllFailed(w) \/ NothingToReport(w) \/ Throws(w)
    BY <2>14, LoopEndsPreserve
  <2> QED
    BY <1>1, <2>1, <2>2, <2>3, <2>4, <2>5, <2>6, <2>7, <2>8, <2>9, <2>10, <2>11, <2>12,
       <2>13, <2>14 DEF Step
<1>2. ASSUME NEW r \in Refs, CooldownEnds(r) PROVE IInv'
  BY <1>2, ClockPreserves DEF CooldownEnds
<1>3. ASSUME NEW p \in Providers, BreakerEnds(p) PROVE IInv'
  BY <1>3, ClockPreserves DEF BreakerEnds
<1>4. CASE UNCHANGED vars
  BY <1>4, ClockPreserves DEF vars
<1> QED
  BY <1>1, <1>2, <1>3, <1>4 DEF Next, AllReturned

(* The invariant holds in every behaviour.                                 *)
LEMMA Invariant == Spec => []IInv
<1>1. Init => IInv
  BY InitEstablishes
<1>2. IInv /\ [Next]_vars => IInv'
  BY NextPreserves
<1> QED
  BY <1>1, <1>2, PTL DEF Spec

(* The slot accounting of src/src/stream-orchestrator.ts and               *)
(* src/src/stream-proxy.ts: for any number of walks and any limit the      *)
(* counter of local streams is the number of attempts that hold a slot, it *)
(* never exceeds the limit, and a walk that has returned holds none.       *)
THEOREM SlotsAreAccounted == Spec => []WalkInv
<1>1. IInv => WalkInv
  BY DEF IInv, WalkInv, SharedTypes, SlotsCounted, SlotCount, Stacks, Shaped
<1> QED
  BY <1>1, Invariant, PTL

(* driveStream "always leaves the proxy terminated" for a walk nobody ran  *)
(* beside, whatever the candidates, the groups and their failures.         *)
THEOREM ProxiesEnd == Spec => []ProxyTerminated
<1>1. IInv => ProxyTerminated
  BY DEF IInv, ProxyTerminated, Accounts
<1> QED
  BY <1>1, Invariant, PTL

(* getFallbackGroup and the visited set of walkCandidates: no cascade,     *)
(* whatever the fallback orders are, enters a group twice.                 *)
THEOREM CascadesNeverReturn == Spec => []NoGroupTwice
<1>1. IInv => NoGroupTwice
  BY DEF IInv, NoGroupTwice, Remembers
<1> QED
  BY <1>1, Invariant, PTL

-----------------------------------------------------------------------------
(***************************************************************************)
(* The snapshot of DynamicConfig, for any inventories, any number of edits,*)
(* scans, reloads and restarts.  Versions of the groups only grow: a       *)
(* generation carries one no newer than the loaded one, the loaded one is  *)
(* no newer than the file, and a snapshot's fingerprint is no newer than   *)
(* its groups.  For what may replace a good snapshot, a generation also    *)
(* carries where its inventory came from.                                  *)
(***************************************************************************)

Generations == [from : {"scan", "retry"}, force : BOOLEAN, begun : BOOLEAN,
                result : Inventory, fp : Nat, early : BOOLEAN]
Processes == [up : BOOLEAN, ready : BOOLEAN, settled : BOOLEAN]
Scans == [at : {"idle", "fetch", "probe", "generate", "localProbe"}, force : BOOLEAN]
Snapshots == [torn : BOOLEAN, survivors : Nat, groups : Nat,
              groupsFp : Nat \cup {None}, configFp : Nat \cup {None}]

\* Where the process is.
ProcOK ==
    /\ proc \in Processes /\ (proc.settled => proc.ready)
    /\ world \in {Full, Shrunk}
    /\ scan \in Scans

\* Versions only grow.
LoadedOK ==
    /\ static \in Nat /\ loaded \in [static : Nat, cfg : Nat] /\ loaded.static <= static
SnapshotOK ==
    Exists(snapshot) => /\ snapshot \in Snapshots /\ snapshot.groups <= static
                        /\ snapshot.groupsFp # None => snapshot.groupsFp <= snapshot.groups

\* A generation knows no newer version than the process, and an inventory of a
\* registry that was not ready is marked early.
Honest(g) ==
    /\ g.fp <= loaded.static
    /\ g.begun => g.result \in {Full, world, Broken} \/ (g.result = Cold /\ g.early)
QueueOK == queue \in Seq(Generations) /\ \A i \in 1..Len(queue) : Honest(queue[i])

ConfigInv == ProcOK /\ LoadedOK /\ SnapshotOK /\ QueueOK

\* The first start, with or without the files of an older version.
LEMMA InitConfigInv == ConfigInit => ConfigInv
<1> SUFFICES ASSUME ConfigInit PROVE ConfigInv
  OBVIOUS
<1> USE InventoryAssumption
<1>1. ProcOK
  <2>1. Down \in Processes /\ ~Down.settled
    BY DEF Down, Processes
  <2>2. NoScan \in Scans
    BY DEF NoScan, Scans
  <2> QED
    BY <2>1, <2>2 DEF ConfigInit, ProcOK
<1>4. LoadedOK
  BY DEF ConfigInit, LoadedOK
<1>5. QueueOK
  <2>1. queue = << >>
    BY DEF ConfigInit
  <2>2. queue \in Seq(Generations) /\ Len(queue) = 0
    BY <2>1, EmptySeq
  <2> QED
    BY <2>2 DEF QueueOK
<1>2. Exists(snapshot) => snapshot = Old
  BY DEF ConfigInit, Exists
<1>3. Old \in Snapshots /\ Old.groups = 0 /\ Old.groupsFp = None
  BY DEF Old, Snapshots, Inventory
<1> QED
  BY <1>1, <1>2, <1>3, <1>4, <1>5 DEF ConfigInv, SnapshotOK, ConfigInit

\* A generation that begins waits at the end of the queue.
LEMMA AppendQueue ==
    ASSUME ConfigInv, NEW from \in {"scan", "retry"}, NEW force \in BOOLEAN,
           queue' = Append(queue, Waiting(from, force)), UNCHANGED <<world, loaded>>
    PROVE  QueueOK'
<1> DEFINE w == Waiting(from, force)
<1>1. w \in Generations /\ w.fp = 0 /\ ~w.begun
  BY InventoryAssumption DEF Waiting, Generations
<1> HIDE DEF w
<1>2. /\ queue' \in Seq(Generations) /\ Len(queue') = Len(queue) + 1
      /\ queue'[Len(queue) + 1] = w
      /\ \A i \in 1..Len(queue) : queue'[i] = queue[i]
  BY <1>1, AppendProperties DEF ConfigInv, QueueOK, w
<1>3. ASSUME NEW i \in 1..Len(queue') PROVE Honest(queue[i])'
  <2>1. CASE i = Len(queue) + 1
    BY <1>1, <1>2, <2>1 DEF Honest, ConfigInv, LoadedOK
  <2>2. CASE i \in 1..Len(queue)
    BY <1>2, <2>2 DEF Honest, ConfigInv, QueueOK
  <2> QED
    BY <1>2, <2>1, <2>2 DEF ConfigInv, QueueOK
<1> QED
  BY <1>2, <1>3 DEF QueueOK

\* A generation that ends leaves the queue.
LEMMA TailQueue ==
    ASSUME ConfigInv, queue # << >>, queue' = Tail(queue), UNCHANGED <<world>>,
           loaded'.static = loaded.static
    PROVE  QueueOK'
<1>1. queue' \in Seq(Generations) /\ Len(queue') = Len(queue) - 1
  BY DEF ConfigInv, QueueOK
<1>2. ASSUME NEW i \in 1..Len(queue') PROVE Honest(queue[i])'
  <2>1. i + 1 \in 1..Len(queue) /\ queue'[i] = queue[i + 1]
    BY <1>1 DEF ConfigInv, QueueOK
  <2> QED
    BY <2>1 DEF Honest, ConfigInv, QueueOK
<1> QED
  BY <1>1, <1>2 DEF QueueOK

\* The one at the head.
LEMMA HeadHonest ==
    ASSUME ConfigInv, queue # << >>
    PROVE  Head(queue) = queue[1] /\ Head(queue) \in Generations /\ Honest(Head(queue))
BY DEF ConfigInv, QueueOK

\* load() takes the groups of the file or of the snapshot.
LEMMA LoadsOK == ASSUME LoadedOK, SnapshotOK, Loads PROVE loaded' \in [static : Nat, cfg : Nat] /\ loaded'.static = static
<1>1. Exists(snapshot) => snapshot.groups \in Nat
  BY DEF SnapshotOK, Snapshots
<1> QED
  BY <1>1 DEF Loads, LoadedOK

\* A load leaves the queue honest: the loaded version only grows.
LEMMA LoadedGrows ==
    ASSUME ConfigInv, UNCHANGED <<queue, world>>, loaded'.static \in Nat, loaded.static <= loaded'.static
    PROVE  QueueOK'
<1>1. ASSUME NEW i \in 1..Len(queue) PROVE Honest(queue[i])'
  <2>1. queue[i] \in Generations
    BY DEF ConfigInv, QueueOK
  <2>2. queue[i].fp \in Nat
    BY <2>1 DEF Generations
  <2>3. Honest(queue[i])
    BY DEF ConfigInv, QueueOK
  <2> QED
    BY <2>2, <2>3 DEF Honest, ConfigInv, LoadedOK
<1> QED
  BY <1>1 DEF ConfigInv, QueueOK

\* The snapshot that is accepted.
LEMMA SnapshotBuilt ==
    ASSUME ConfigInv, queue # << >>
    PROVE  LET s == Snapshot(Head(queue)) IN
           s \in Snapshots /\ s.groups <= static /\ s.groupsFp <= s.groups
<1>1. Head(queue) \in Generations /\ Honest(Head(queue))
  BY HeadHonest
<1>2. Head(queue).result.survivors \in Nat /\ Head(queue).fp \in Nat
  BY <1>1 DEF Generations, Inventory
<1> QED
  BY <1>1, <1>2 DEF Snapshot, Snapshots, Honest, ConfigInv, LoadedOK

\* Sessions, reloads and "/router scan".
LEMMA SessionIInv == ConfigInv /\ (SessionStart \/ RouterScan \/ Reload) => ConfigInv'
<1> SUFFICES ASSUME ConfigInv, SessionStart \/ RouterScan \/ Reload PROVE ConfigInv'
  OBVIOUS
<1>0. UNCHANGED <<world, static, queue, snapshot>>
  BY DEF SessionStart, RouterScan, Reload
<1>1. ProcOK'
  <2>1. proc' = [proc EXCEPT !.up = TRUE] \/ proc' = proc
    BY DEF SessionStart, RouterScan, Reload
  <2>2. proc' \in Processes /\ proc'.settled = proc.settled /\ proc'.ready = proc.ready
    BY <2>1 DEF ConfigInv, ProcOK, Processes
  <2>3. scan' = scan \/ \E force \in BOOLEAN : scan' = [at |-> "fetch", force |-> force]
    BY DEF SessionStart, RouterScan, Reload, Begins
  <2>4. scan' \in Scans
    BY <2>3 DEF ConfigInv, ProcOK, Scans
  <2> QED
    BY <1>0, <2>2, <2>4 DEF ConfigInv, ProcOK
<1>2. loaded' \in [static : Nat, cfg : Nat] /\ (loaded'.static = static \/ loaded' = loaded)
  BY LoadsOK DEF ConfigInv, SessionStart, RouterScan, Reload, LoadedOK
<1>3. LoadedOK' /\ SnapshotOK'
  <2>1. LoadedOK'
    BY <1>0, <1>2 DEF ConfigInv, LoadedOK
  <2>2. SnapshotOK'
    BY <1>0 DEF ConfigInv, SnapshotOK
  <2> QED
    BY <2>1, <2>2
<1>4. QueueOK'
  <2>1. loaded'.static \in Nat /\ loaded.static <= loaded'.static
    BY <1>2 DEF ConfigInv, LoadedOK
  <2> QED
    BY <1>0, <2>1, LoadedGrows
<1> QED
  BY <1>1, <1>3, <1>4 DEF ConfigInv

\* The scan up to its generation, and behind it.
LEMMA ScanIInv == ConfigInv /\ ScanStep => ConfigInv'
<1> SUFFICES ASSUME ConfigInv, ScanStep PROVE ConfigInv'
  OBVIOUS
<1>1. ProcOK'
  <2>1. scan' = NoScan \/ \E at \in {"probe", "generate"} : scan' = [scan EXCEPT !.at = at]
    BY DEF ScanStep, Fetch, FetchThrows, Probe, LocalProbe
  <2>2. CASE scan' = NoScan
    BY <2>2 DEF ConfigInv, ProcOK, Scans, NoScan, ScanStep, Fetch, FetchThrows, Probe, LocalProbe
  <2>3. CASE \E at \in {"probe", "generate"} : scan' = [scan EXCEPT !.at = at]
    BY <2>3 DEF ConfigInv, ProcOK, Scans, ScanStep, Fetch, FetchThrows, Probe, LocalProbe
  <2> QED
    BY <2>1, <2>2, <2>3
<1>2. LoadedOK' /\ SnapshotOK'
  BY DEF ConfigInv, LoadedOK, SnapshotOK, ScanStep, Fetch, FetchThrows, Probe, LocalProbe
<1>3. QueueOK'
  <2>1. CASE Probe
    <3>1. scan.force \in BOOLEAN
      BY DEF ConfigInv, ProcOK, Scans
    <3> QED
      BY <2>1, <3>1, AppendQueue DEF Probe
  <2>2. CASE Fetch \/ FetchThrows \/ LocalProbe
    BY <2>2 DEF ConfigInv, QueueOK, Honest, Fetch, FetchThrows, LocalProbe
  <2> QED
    BY <2>1, <2>2 DEF ScanStep
<1> QED
  BY <1>1, <1>2, <1>3 DEF ConfigInv

\* A generation begins with what the registry yields and the loaded version.
LEMMA BeginIInv == ConfigInv /\ BeginGeneration => ConfigInv'
<1> SUFFICES ASSUME ConfigInv, BeginGeneration PROVE ConfigInv'
  OBVIOUS
<1>1. ProcOK'
  <2>1. scan' = scan \/ scan' = [scan EXCEPT !.at = "localProbe"]
    BY DEF BeginGeneration, Ends
  <2>2. scan' \in Scans
    BY <2>1 DEF ConfigInv, ProcOK, Scans
  <2> QED
    BY <2>2 DEF ConfigInv, ProcOK, BeginGeneration
<1>2. LoadedOK' /\ SnapshotOK'
  BY DEF ConfigInv, LoadedOK, SnapshotOK, BeginGeneration
<1>3. QueueOK'
  <2>1. CASE Ends
    BY <2>1, TailQueue DEF Ends, BeginGeneration
  <2>2. CASE ~Ends
    <3>1. PICK r \in Found :
             queue' = [queue EXCEPT ![1] = [@ EXCEPT !.begun = TRUE, !.result = r,
                                                 !.fp = loaded.static, !.early = ~proc.settled]]
      BY <2>2 DEF BeginGeneration
    <3> DEFINE early == ~proc.settled
    <3> DEFINE g == [queue[1] EXCEPT !.begun = TRUE, !.result = r,
                                     !.fp = loaded.static, !.early = early]
    <3>2. queue[1] \in Generations /\ 1 \in 1..Len(queue)
      <4>1. queue # << >> /\ queue \in Seq(Generations)
        BY DEF BeginGeneration, ConfigInv, QueueOK
      <4>2. Len(queue) \in Nat \ {0}
        BY <4>1, EmptySeq
      <4> QED
        BY <4>1, <4>2, HeadHonest
    <3>3. r \in Inventory /\ (r \in {Full, world, Broken} \/ (r = Cold /\ early))
      BY InventoryAssumption DEF Found, ConfigInv, ProcOK
    <3>4. early \in BOOLEAN /\ loaded.static \in Nat
      BY DEF ConfigInv, LoadedOK
    <3>6. queue' = [queue EXCEPT ![1] = g]
      BY <3>1
    <3> HIDE DEF early
    <3>5. g \in Generations /\ g.fp = loaded.static /\ g.result = r /\ g.early = early
      BY <3>2, <3>3, <3>4 DEF Generations
    <3> HIDE DEF g
    <3>7. /\ queue' \in Seq(Generations) /\ Len(queue') = Len(queue) /\ queue'[1] = g
          /\ \A i \in 2..Len(queue) : queue'[i] = queue[i]
      BY <3>2, <3>5, <3>6, ExceptSeq DEF ConfigInv, QueueOK
    <3>8. UNCHANGED <<world, loaded>>
      BY DEF BeginGeneration
    <3>9. Honest(queue[1])'
      BY <3>3, <3>4, <3>5, <3>7, <3>8 DEF Honest
    <3>10. ASSUME NEW i \in 2..Len(queue) PROVE Honest(queue[i])'
      BY <3>7, <3>8 DEF Honest, ConfigInv, QueueOK
    <3> QED
      BY <3>2, <3>7, <3>9, <3>10 DEF QueueOK, ConfigInv
  <2> QED
    BY <2>1, <2>2
<1> QED
  BY <1>1, <1>2, <1>3 DEF ConfigInv

\* A result is refused or accepted.
LEMMA RefuseIInv == ConfigInv /\ Refuse => ConfigInv'
<1> SUFFICES ASSUME ConfigInv, Refuse PROVE ConfigInv'
  OBVIOUS
<1>1. /\ UNCHANGED <<proc, world, static, loaded, snapshot>>
      /\ queue # << >> /\ queue' = Tail(queue)
      /\ scan' = scan \/ scan' = [scan EXCEPT !.at = "localProbe"]
  BY DEF Refuse, Ends
<1>2. scan' \in Scans
  BY <1>1 DEF ConfigInv, ProcOK, Scans
<1>3. QueueOK'
  BY <1>1, TailQueue
<1> QED
  BY <1>1, <1>2, <1>3 DEF ConfigInv, ProcOK, LoadedOK, SnapshotOK

LEMMA AcceptIInv == ConfigInv /\ Accept => ConfigInv'
<1> SUFFICES ASSUME ConfigInv, Accept PROVE ConfigInv'
  OBVIOUS
<1>1. /\ UNCHANGED <<proc, world, static>>
      /\ queue # << >> /\ queue' = Tail(queue)
      /\ scan' = scan \/ scan' = [scan EXCEPT !.at = "localProbe"]
      /\ snapshot' = Snapshot(Head(queue))
      /\ loaded' = [loaded EXCEPT !.cfg = loaded.static]
  BY DEF Accept, Ends
<1>2. scan' \in Scans
  BY <1>1 DEF ConfigInv, ProcOK, Scans
<1>3. loaded' \in [static : Nat, cfg : Nat] /\ loaded'.static = loaded.static
  BY <1>1 DEF ConfigInv, LoadedOK
<1>4. QueueOK'
  BY <1>1, <1>3, TailQueue
<1>5. SnapshotOK'
  BY <1>1, SnapshotBuilt DEF SnapshotOK
<1> QED
  BY <1>1, <1>2, <1>3, <1>4, <1>5 DEF ConfigInv, ProcOK, LoadedOK

\* The settle retry only adds a generation.
LEMMA RetryIInv == ConfigInv /\ RetryFires => ConfigInv'
<1> SUFFICES ASSUME ConfigInv, RetryFires PROVE ConfigInv'
  OBVIOUS
<1>1. ProcOK' /\ LoadedOK' /\ SnapshotOK'
  BY DEF RetryFires, ConfigInv, ProcOK, LoadedOK, SnapshotOK
<1>2. QueueOK'
  <2>1. CASE queue' = Append(queue, Waiting("retry", FALSE))
    BY <2>1, AppendQueue DEF RetryFires
  <2>2. CASE UNCHANGED queue
    BY <2>2 DEF RetryFires, ConfigInv, QueueOK, Honest
  <2> QED
    BY <2>1, <2>2 DEF RetryFires
<1> QED
  BY <1>1, <1>2 DEF ConfigInv

\* The registry gets ready, the world and the files change, the process ends.
LEMMA EnvironmentIInv == ConfigInv /\ Environment => ConfigInv'
<1> SUFFICES ASSUME ConfigInv, Environment PROVE ConfigInv'
  OBVIOUS
<1>1. CASE Ready \/ Settle
  <2>1. UNCHANGED <<world, static, loaded, scan, queue, snapshot>>
    BY <1>1 DEF Ready, Settle
  <2>2. proc' = [proc EXCEPT !.ready = TRUE] \/ (proc' = [proc EXCEPT !.settled = TRUE] /\ proc.ready)
    BY <1>1 DEF Ready, Settle
  <2>3. proc' \in Processes /\ (proc'.settled => proc'.ready)
    BY <2>2 DEF ConfigInv, ProcOK, Processes
  <2> QED
    BY <2>1, <2>3 DEF ConfigInv, ProcOK, LoadedOK, SnapshotOK, QueueOK, Honest
<1>2. CASE Lose
  <2>1. UNCHANGED <<proc, static, loaded, scan, queue, snapshot>> /\ world = Full /\ world' = Shrunk
    BY <1>2 DEF Lose
  <2>2. QueueOK'
    BY <2>1 DEF ConfigInv, QueueOK, Honest
  <2> QED
    BY <2>1, <2>2 DEF ConfigInv, ProcOK, LoadedOK, SnapshotOK
<1>4. CASE Edit \/ Day \/ Month
  <2>1. UNCHANGED <<proc, world, loaded, scan, queue, snapshot>> /\ (static' = static \/ static' = static + 1)
    BY <1>4 DEF Edit, Day, Month
  <2>2. QueueOK'
    BY <2>1 DEF ConfigInv, QueueOK, Honest
  <2>3. LoadedOK' /\ SnapshotOK'
    BY <2>1 DEF ConfigInv, LoadedOK, SnapshotOK, Snapshots
  <2> QED
    BY <2>1, <2>2, <2>3 DEF ConfigInv, ProcOK
<1>3. CASE Crash
  <2>1. UNCHANGED <<world, static, loaded>> /\ proc' = Down /\ scan' = NoScan /\ queue' = << >>
    BY <1>3 DEF Crash
  <2>2. ProcOK'
    <3>1. Down \in Processes /\ ~Down.settled
      BY DEF Down, Processes
    <3>2. NoScan \in Scans
      BY DEF NoScan, Scans
    <3> QED
      BY <2>1, <3>1, <3>2 DEF ConfigInv, ProcOK
  <2>3. QueueOK'
    BY <2>1, EmptySeq DEF QueueOK
  <2>4. SnapshotOK'
    <3>1. CASE UNCHANGED snapshot
      BY <2>1, <3>1 DEF ConfigInv, SnapshotOK
    <3>2. CASE queue # << >> /\ snapshot' = [Snapshot(Head(queue)) EXCEPT !.torn = TRUE]
      <4> DEFINE s == Snapshot(Head(queue))
      <4>1. s \in Snapshots /\ s.groups <= static /\ s.groupsFp <= s.groups
        BY <3>2, SnapshotBuilt
      <4>2. snapshot' = [s EXCEPT !.torn = TRUE]
        BY <3>2
      <4> HIDE DEF s
      <4>3. snapshot' \in Snapshots /\ snapshot'.groups = s.groups /\ snapshot'.groupsFp = s.groupsFp
        BY <4>1, <4>2 DEF Snapshots
      <4> QED
        BY <2>1, <4>1, <4>3 DEF SnapshotOK
    <3> QED
      BY <1>3, <3>1, <3>2 DEF Crash
  <2> QED
    BY <2>1, <2>2, <2>3, <2>4 DEF ConfigInv, LoadedOK
<1> QED
  BY <1>1, <1>2, <1>3, <1>4 DEF Environment

\* Every step preserves the invariant.
LEMMA NextIInv == ConfigInv /\ [ConfigNext]_configVars => ConfigInv'
<1> SUFFICES ASSUME ConfigInv, [ConfigNext]_configVars PROVE ConfigInv'
  OBVIOUS
<1>1. CASE UNCHANGED configVars
  BY <1>1 DEF configVars, ConfigInv, ProcOK, LoadedOK, SnapshotOK, QueueOK, Honest
<1> QED
  BY <1>1, SessionIInv, ScanIInv, BeginIInv, RefuseIInv, AcceptIInv, RetryIInv, EnvironmentIInv
     DEF ConfigNext, Generation

\* What is taken for current was built from the current groups, however edits,
\* reloads, generations and crashes are interleaved.
THEOREM SnapshotAlwaysCurrent == ConfigSpec => []SnapshotCurrent
<1>1. ConfigInv => SnapshotCurrent
  BY InventoryAssumption DEF ConfigInv, LoadedOK, SnapshotOK, SnapshotCurrent, Snapshots
<1> QED
  BY InitConfigInv, NextIInv, <1>1, PTL DEF ConfigSpec

\* What the verdict of the sanity check says of the result.
LEMMA Verdicts ==
    ASSUME NEW r, NEW previous, NEW changed \in BOOLEAN
    PROVE  /\ Sanity(r, previous, changed) = "ok" /\ ~changed => ~Regressed(r, previous)
           /\ Sanity(r, previous, changed) = "regression" => ~Collapsed(r) /\ ~Uncovered(r)
<1>1. CASE Collapsed(r)
  BY <1>1 DEF Sanity
<1>2. CASE ~Collapsed(r) /\ Uncovered(r)
  BY <1>2 DEF Sanity
<1>3. CASE ~Collapsed(r) /\ ~Uncovered(r)
  BY <1>3 DEF Sanity
<1> QED
  BY <1>1, <1>2, <1>3

\* A good snapshot is halved only by a user who forces it, a change of the
\* configuration, or a registry that was ready; a repeated refusal counts
\* only when the settle time is over, and a collapse of scoring never does.
THEOREM GoodSnapshotsKept == ConfigSpec => GoodSnapshotKept
<1>1. ASSUME ConfigInv, [ConfigNext]_configVars, Exists(snapshot), ~Torn(snapshot), snapshot' # snapshot,
             ~snapshot'.torn, Regressed(snapshot', snapshot.survivors)
      PROVE  LET g == Head(queue) IN
             \/ g.force \/ ConfigChanged(g) \/ g.result \in {world, Full}
             \/ g.early /\ proc.settled
  <2> DEFINE g == Head(queue)
  <2>1. Accept
    <3>1. CASE Crash
      <4>1. snapshot' = [Snapshot(Head(queue)) EXCEPT !.torn = TRUE]
        BY <1>1, <3>1 DEF Crash
      <4>2. snapshot'.torn
        BY <4>1 DEF Snapshot
      <4> QED
        BY <1>1, <4>2
    <3>2. CASE ~Crash
      BY <1>1, <3>2 DEF ConfigNext, SessionStart, RouterScan, Reload, ScanStep, Fetch, FetchThrows, Probe,
         LocalProbe, Generation, BeginGeneration, Refuse, RetryFires, Environment, Ready, Settle, Lose,
         Edit, Day, Month, configVars
    <3> QED
      BY <3>1, <3>2
  <2>2. queue # << >> /\ g.begun /\ (Verdict(g) = "ok" \/ Repeats(g)) /\ snapshot' = Snapshot(g)
    BY <2>1 DEF Accept
  <2>3. Honest(g)
    BY <1>1, <2>2, HeadHonest
  <2> SUFFICES ASSUME ~g.force, ~ConfigChanged(g)
               PROVE  g.result \in {world, Full} \/ (g.early /\ proc.settled)
    OBVIOUS
  <2>4. Previous(g) = snapshot.survivors
    BY <1>1 DEF Previous
  <2>5. Regressed(g.result, Previous(g))
    BY <1>1, <2>2, <2>4 DEF Regressed, Snapshot
  <2>6. ConfigChanged(g) \in BOOLEAN
    BY DEF ConfigChanged
  <2>7. Verdict(g) # "ok"
    BY <2>5, <2>6, Verdicts DEF Verdict
  <2>8. Verdict(g) = "regression" /\ proc.settled
    BY <2>2, <2>7 DEF Repeats
  <2>9. g.result # Broken
    BY <2>6, <2>8, Verdicts, BrokenAssumption DEF Verdict
  <2> QED
    BY <2>2, <2>3, <2>8, <2>9 DEF Honest
<1>2. ConfigInv /\ [ConfigNext]_configVars =>
        [ (/\ Exists(snapshot) /\ ~Torn(snapshot) /\ snapshot' # snapshot
           /\ ~snapshot'.torn /\ Regressed(snapshot', snapshot.survivors))
          => LET g == Head(queue) IN
             \/ g.force \/ ConfigChanged(g) \/ g.result \in {world, Full}
             \/ g.early /\ proc.settled ]_configVars
  BY <1>1
<1> QED
  BY InitConfigInv, NextIInv, <1>2, PTL DEF ConfigSpec, GoodSnapshotKept
=============================================================================
