--------------------------- MODULE RateLimitProofs ---------------------------
(***************************************************************************)
(* Proofs about RateLimit for every set of models, every pair of ladders   *)
(* and every length of a day.  RateLimitInv is inductive as it stands: no  *)
(* operation shortens a cooldown without replacing the reset time that the *)
(* entry carries.  From it follows that only a rate limit, a clear or a    *)
(* reload re-arms a model that is still cooling down.                      *)
(***************************************************************************)
EXTENDS RateLimit, ConfigLayers, TLAPS

(* A rung of a ladder exists for every hit: backoff_minutes and            *)
(* soft_backoff_ms are indexed by min(hits, length).                       *)
LEMMA RungExists ==
  ASSUME NEW ladder \in Seq(Nat \ {0}), Len(ladder) > 0, NEW n \in Nat \ {0}
  PROVE  Backoff(ladder, n) \in Nat
<1>1. Smaller(n, Len(ladder)) \in 1 .. Len(ladder)
  BY DEF Smaller
<1> QED
  BY <1>1 DEF Backoff

(* The streak of a failure never exceeds what is recorded.                 *)
LEMMA StreakIsCounted ==
  ASSUME RateLimitInv, NEW r \in Refs
  PROVE  FailureStreak(r) \in 0 .. MaxHits
  BY LadderAssumption DEF RateLimitInv, FailureStreak, Stale

(* recordModelFailure keeps the streak record well formed.                 *)
LEMMA FailureKeepsStreak ==
  ASSUME RateLimitInv, NEW r \in Refs, FailureStreak(r) < MaxHits, RecordModelFailure(r)
  PROVE  fails' \in [Refs -> 0 .. MaxHits] /\ quiet' \in [Refs -> 0 .. HealthDecay + 1]
<1>1. FailureStreak(r) + 1 \in 0 .. MaxHits
  BY StreakIsCounted, LadderAssumption
<1>2. 0 \in 0 .. HealthDecay + 1
  BY LadderAssumption
<1> QED
  BY <1>1, <1>2 DEF RateLimitInv, RecordModelFailure

(* bumpMux keeps the multipliers well formed.                              *)
LEMMA BumpKeepsMux ==
  ASSUME RateLimitInv, NEW r \in Refs, BumpMux(r)
  PROVE  costMux' \in [Providers -> Nat] /\ bumped' \subseteq Providers
<1>1. ProviderOf[r] \in Providers
  BY DEF Providers
<1>2. costMux[ProviderOf[r]] \in Nat /\ MaxMux \in Nat
  BY <1>1, LadderAssumption DEF RateLimitInv
<1>3. Smaller(costMux[ProviderOf[r]] + 1, MaxMux) \in Nat
  BY <1>2 DEF Smaller
<1> QED
  BY <1>1, <1>3 DEF RateLimitInv, BumpMux
-----------------------------------------------------------------------------
(* The constructor establishes the invariant.                              *)
LEMMA InitEstablishes == Init => RateLimitInv
<1> SUFFICES ASSUME Init PROVE RateLimitInv
  OBVIOUS
<1>1. 0 \in 0 .. MaxHits /\ 0 \in 0 .. HealthDecay + 1
  BY LadderAssumption
<1> QED
  BY <1>1 DEF Init, RateLimitInv

(* recordLimit preserves it: the wait covers the reset it notes.           *)
LEMMA LimitPreserves ==
  ASSUME RateLimitInv, NEW r \in Refs, NEW reset \in 0 .. MaxReset, RecordLimit(r, reset)
  PROVE  RateLimitInv'
<1> DEFINE rung == Backoff(Hard, hits[r] + 1)
<1>1. hits[r] + 1 \in 0 .. MaxHits /\ hits[r] + 1 \in Nat \ {0}
  BY LadderAssumption DEF RateLimitInv, RecordLimit
<1>2. rung \in Nat
  BY <1>1, RungExists, LadderAssumption
<1>3. reset \in Nat
  BY LadderAssumption
<1> HIDE DEF rung
<1>4. Larger(rung, reset) \in Nat /\ Larger(rung, reset) >= reset
  BY <1>2, <1>3 DEF Larger
<1>5. /\ left' = [left EXCEPT ![r] = Larger(rung, reset)]
      /\ resetIn' = [resetIn EXCEPT ![r] = reset]
      /\ hits' = [hits EXCEPT ![r] = @ + 1]
  BY DEF RecordLimit, rung
<1>6. left' \in [Refs -> Nat] /\ resetIn' \in [Refs -> Nat] /\ hits' \in [Refs -> 0 .. MaxHits]
  BY <1>1, <1>3, <1>4, <1>5 DEF RateLimitInv
<1>7. \A s \in Refs : resetIn'[s] <= left'[s]
  BY <1>3, <1>4, <1>5 DEF RateLimitInv
<1>8. fails' \in [Refs -> 0 .. MaxHits] /\ quiet' \in [Refs -> 0 .. HealthDecay + 1]
  BY FailureKeepsStreak DEF RecordLimit
<1>9. costMux' \in [Providers -> Nat] /\ bumped' \subseteq Providers
  BY BumpKeepsMux DEF RecordLimit
<1>10. midnight' \in 1 .. Day
  BY DEF RateLimitInv, RecordLimit
<1> QED
  BY <1>6, <1>7, <1>8, <1>9, <1>10 DEF RateLimitInv

(* recordSoftFailure preserves it: a soft failure forgets the reset.       *)
LEMMA SoftPreserves ==
  ASSUME RateLimitInv, NEW r \in Refs, RecordSoftFailure(r)
  PROVE  RateLimitInv'
<1> DEFINE rung == Backoff(Soft, hits[r] + 1)
<1>1. hits[r] + 1 \in 0 .. MaxHits /\ hits[r] + 1 \in Nat \ {0}
  BY LadderAssumption DEF RateLimitInv, RecordSoftFailure
<1>2. rung \in Nat
  BY <1>1, RungExists, LadderAssumption
<1> HIDE DEF rung
<1>3. Larger(left[r], rung) \in Nat
  BY <1>2 DEF Larger, RateLimitInv
<1>4. /\ left' = [left EXCEPT ![r] = Larger(left[r], rung)]
      /\ resetIn' = [resetIn EXCEPT ![r] = 0]
      /\ hits' = [hits EXCEPT ![r] = @ + 1]
  BY DEF RecordSoftFailure, rung
<1>5. left' \in [Refs -> Nat] /\ resetIn' \in [Refs -> Nat] /\ hits' \in [Refs -> 0 .. MaxHits]
  BY <1>1, <1>3, <1>4 DEF RateLimitInv
<1>6. \A s \in Refs : resetIn'[s] <= left'[s]
  BY <1>3, <1>4 DEF RateLimitInv
<1>7. fails' \in [Refs -> 0 .. MaxHits] /\ quiet' \in [Refs -> 0 .. HealthDecay + 1]
  BY FailureKeepsStreak DEF RecordSoftFailure
<1>8. UNCHANGED <<costMux, bumped, midnight>>
  BY DEF RecordSoftFailure
<1> QED
  BY <1>5, <1>6, <1>7, <1>8 DEF RateLimitInv

(* limitFreeDayCap preserves it: every free ref waits for midnight.        *)
LEMMA DayCapPreserves ==
  ASSUME RateLimitInv, NEW r \in Refs, RecordDayCap(r)
  PROVE  RateLimitInv'
<1>1. midnight \in Nat
  BY LadderAssumption DEF RateLimitInv
<1>2. \A s \in Refs : Larger(left[s], midnight) \in Nat /\ Larger(left[s], midnight) >= midnight
  BY <1>1 DEF RateLimitInv, Larger
<1>3. left' \in [Refs -> Nat] /\ resetIn' \in [Refs -> Nat]
  BY <1>1, <1>2 DEF RateLimitInv, RecordDayCap
<1>4. \A s \in Refs : resetIn'[s] <= left'[s]
  BY <1>1, <1>2 DEF RateLimitInv, RecordDayCap
<1>5. fails' \in [Refs -> 0 .. MaxHits] /\ quiet' \in [Refs -> 0 .. HealthDecay + 1]
  BY FailureKeepsStreak DEF RecordDayCap
<1>6. UNCHANGED <<hits, costMux, bumped, midnight>>
  BY DEF RecordDayCap
<1> QED
  BY <1>3, <1>4, <1>5, <1>6 DEF RateLimitInv

(* The clock preserves it: cooldown and reset shrink together.             *)
LEMMA TickPreserves ==
  ASSUME RateLimitInv, Tick
  PROVE  RateLimitInv'
<1>1. left' \in [Refs -> Nat] /\ resetIn' \in [Refs -> Nat]
  BY DEF RateLimitInv, Tick, Larger
<1>2. \A s \in Refs : resetIn'[s] <= left'[s]
  BY DEF RateLimitInv, Tick, Larger
<1>3. quiet' \in [Refs -> 0 .. HealthDecay + 1]
  <2>1. HealthDecay \in Nat
    BY LadderAssumption
  <2>2. \A n \in 0 .. HealthDecay + 1 : Smaller(n + 1, HealthDecay + 1) \in 0 .. HealthDecay + 1
    BY <2>1 DEF Smaller
  <2>3. quiet \in [Refs -> 0 .. HealthDecay + 1] /\ 0 \in 0 .. HealthDecay + 1
    BY <2>1 DEF RateLimitInv
  <2>4. \A r \in Refs : Smaller(quiet[r] + 1, HealthDecay + 1) \in 0 .. HealthDecay + 1
    BY <2>2, <2>3
  <2> QED
    BY <2>3, <2>4 DEF Tick
<1>4. midnight' \in 1 .. Day /\ bumped' \subseteq Providers
  BY LadderAssumption DEF RateLimitInv, Tick
<1>5. UNCHANGED <<hits, fails, costMux>>
  BY DEF Tick
<1> QED
  BY <1>1, <1>2, <1>3, <1>4, <1>5 DEF RateLimitInv

(* Answers, look-ups, clears and reloads preserve it: whoever shortens a   *)
(* cooldown deletes the entry, with its reset.                             *)
LEMMA RestPreserves ==
  ASSUME RateLimitInv,
         \/ \E r \in Refs : RecordOk(r) \/ Look(r) \/ ClearLimit(r)
         \/ ClearAll
         \/ Load
  PROVE  RateLimitInv'
<1> USE LadderAssumption
<1>1. CASE \E r \in Refs : RecordOk(r)
  BY <1>1 DEF RateLimitInv, RecordOk
<1>2. CASE \E r \in Refs : Look(r)
  BY <1>2 DEF RateLimitInv, Look, IsLimited
<1>3. CASE \E r \in Refs : ClearLimit(r)
  BY <1>3 DEF RateLimitInv, ClearLimit
<1>4. CASE ClearAll
  BY <1>4 DEF RateLimitInv, ClearAll, Forget
<1>5. CASE Load
  BY <1>5 DEF RateLimitInv, Load, Forget
<1> QED
  BY <1>1, <1>2, <1>3, <1>4, <1>5

(* Every step preserves the invariant.                                     *)
LEMMA StepPreserves == RateLimitInv /\ [Next]_vars => RateLimitInv'
<1> SUFFICES ASSUME RateLimitInv, [Next]_vars PROVE RateLimitInv'
  OBVIOUS
<1>1. CASE \E r \in Refs : Failure(r)
  BY <1>1, LimitPreserves, SoftPreserves, DayCapPreserves DEF Failure
<1>2. CASE \/ \E r \in Refs : RecordOk(r) \/ Look(r) \/ ClearLimit(r)
           \/ ClearAll
           \/ Load
  BY <1>2, RestPreserves
<1>3. CASE Tick
  BY <1>3, TickPreserves
<1>4. CASE UNCHANGED vars
  BY <1>4 DEF vars, RateLimitInv
<1> QED
  BY <1>1, <1>2, <1>3, <1>4 DEF Next

(* Every cooldown covers the reset time its entry carries, whatever        *)
(* failures, answers, clears and reloads happen (recordLimit,              *)
(* recordSoftFailure, limitFreeDayCap and the lazy deletion together).     *)
THEOREM CooldownCoversReset == Spec => []RateLimitInv
<1> QED
  BY InitEstablishes, StepPreserves, PTL DEF Spec
-----------------------------------------------------------------------------
(* Only a rate limit, a clear or a reload re-arms a limited model: the     *)
(* soft failures, daily caps and answers of concurrent walks do not        *)
(* (Math.max in recordSoftFailure and limitFreeDayCap).                    *)
THEOREM OnlyLimitsRearm == Spec => NoEarlyRearm
<1> DEFINE StaysCooling(r) ==
      left'[r] < left[r] - 1 =>
         \/ ClearLimit(r) \/ ClearAll \/ Load
         \/ /\ hits'[r] = hits[r] + 1
            /\ left'[r] >= Backoff(Hard, hits'[r])
            /\ \A s \in Refs \ {r} : left'[s] = left[s]
<1>1. ASSUME RateLimitInv, [Next]_vars, NEW r \in Refs PROVE StaysCooling(r)
  <2> USE <1>1
  <2>1. left[r] \in Nat /\ hits[r] \in Nat /\ midnight \in Nat
    BY LadderAssumption DEF RateLimitInv
  <2>2. CASE \E s \in Refs : \E reset \in 0 .. MaxReset : RecordLimit(s, reset)
    <3>1. PICK s \in Refs, reset \in 0 .. MaxReset : RecordLimit(s, reset)
      BY <2>2
    <3>2. CASE s = r
      <4>1. hits[r] + 1 \in Nat \ {0}
        BY <2>1
      <4>2. Backoff(Hard, hits[r] + 1) \in Nat /\ reset \in Nat
        BY <4>1, RungExists, LadderAssumption
      <4>3. hits'[r] = hits[r] + 1 /\ left'[r] = Larger(Backoff(Hard, hits[r] + 1), reset)
        BY <3>1, <3>2 DEF RecordLimit, RateLimitInv
      <4>4. left'[r] >= Backoff(Hard, hits[r] + 1)
        BY <4>2, <4>3 DEF Larger
      <4>5. \A t \in Refs \ {r} : left'[t] = left[t]
        BY <3>1, <3>2 DEF RecordLimit, RateLimitInv
      <4> QED
        BY <4>3, <4>4, <4>5
    <3>3. CASE s # r
      <4>1. left'[r] = left[r]
        BY <3>1, <3>3 DEF RecordLimit, RateLimitInv
      <4> QED
        BY <4>1, <2>1
    <3> QED
      BY <3>2, <3>3
  <2>3. CASE \E s \in Refs : RecordSoftFailure(s)
    <3>1. PICK s \in Refs : RecordSoftFailure(s)
      BY <2>3
    <3>2. hits[s] + 1 \in Nat \ {0} /\ left[s] \in Nat
      <4>1. MaxHits \in Nat
        BY LadderAssumption
      <4>2. hits[s] \in 0 .. MaxHits /\ left[s] \in Nat
        BY DEF RateLimitInv
      <4> QED
        BY <4>1, <4>2
    <3>3. Backoff(Soft, hits[s] + 1) \in Nat
      BY <3>2, RungExists, LadderAssumption
    <3>4. Larger(left[s], Backoff(Soft, hits[s] + 1)) >= left[s]
      BY <3>2, <3>3 DEF Larger
    <3>5. left'[r] = IF r = s THEN Larger(left[s], Backoff(Soft, hits[s] + 1)) ELSE left[r]
      BY <3>1 DEF RecordSoftFailure, RateLimitInv
    <3>6. left'[r] \in Nat
      BY <3>2, <3>3, <3>5, <2>1 DEF Larger
    <3> QED
      BY <3>4, <3>5, <3>6, <2>1
  <2>4. CASE \E s \in Refs : RecordDayCap(s)
    BY <2>1, <2>4 DEF RecordDayCap, Larger
  <2>5. CASE Tick
    BY <2>1, <2>5 DEF Tick, Larger
  <2>6. CASE \E s \in Refs : ClearLimit(s)
    <3>1. PICK s \in Refs : ClearLimit(s)
      BY <2>6
    <3>2. CASE s = r
      BY <3>1, <3>2
    <3>3. CASE s # r
      <4>1. left'[r] = left[r]
        BY <3>1, <3>3 DEF ClearLimit, RateLimitInv
      <4> QED
        BY <2>1, <4>1
    <3> QED
      BY <3>2, <3>3
  <2>7. CASE ClearAll \/ Load
    BY <2>7
  <2>8. CASE (\E s \in Refs : RecordOk(s) \/ Look(s)) \/ UNCHANGED vars
    BY <2>1, <2>8 DEF RecordOk, Look, vars
  <2> QED
    BY <2>2, <2>3, <2>4, <2>5, <2>6, <2>7, <2>8 DEF Next, Failure
<1>2. RateLimitInv /\ [Next]_vars => [\A r \in Refs : StaysCooling(r)]_vars
  BY <1>1
<1> QED
  BY <1>2, CooldownCoversReset, PTL DEF Spec, NoEarlyRearm
-----------------------------------------------------------------------------
(***************************************************************************)
(* Proofs about ConfigLayers, for all files, paths, registries and reports, *)
(* and any number of processes.  LivesByTheFiles is not inductive: what a   *)
(* snapshot and a live configuration hold beside the files must be          *)
(* accounted for while it does not matter yet, before the next load or the  *)
(* next generation.  LayersInv adds that.                                   *)
(***************************************************************************)
IsStub(q) == \E v \in Registry : q = Stub(v)

(* The files and the processes have their shape.                            *)
FilesOf(f) ==
    /\ IsConfig(f.shipped)
    /\ Readable(f.user) => IsConfig(f.user)
    /\ Readable(f.project) => IsConfig(f.project)
Shaped(me) == DOMAIN me = DOMAIN Unloaded /\ IsConfig(me.static) /\ IsConfig(me.cfg)
StateShaped ==
    /\ DOMAIN file = Layers /\ FilesOf(file)
    /\ DOMAIN proc = Procs /\ \A p \in Procs : Shaped(proc[p])
    /\ fresh \subseteq Procs

(* What a snapshot says beside what it remembers of the files was learned or *)
(* stubbed, or is a field that the next load drops.                          *)
SnapshotAccounted ==
    Readable(snapshot) =>
        \A q \in Paths : IsMerged(q) /\ snapshot.at[q] # None =>
            q \in snapshot.remembered \/ Authoritative(q) \/ q \in learned \/ IsStub(q)

(* So is what a process would write into the next one.                       *)
ProcAccounted(p) ==
    \A q \in Paths : IsMerged(q) =>
        /\ proc[p].static.at[q] # None =>
              q \in proc[p].contributions \/ q \in proc[p].reported \/ IsStub(q)
        /\ proc[p].cfg.at[q] # None =>
              q \in proc[p].contributions \/ Authoritative(q) \/ q \in learned
              \/ q \in proc[p].reported \/ IsStub(q)

(* A process that loaded the layers of now: what each of its two             *)
(* configurations has of them.                                               *)
UpToDate(p) ==
    /\ proc[p].static.exclude = LoadLayeredConfig(file).exclude
    /\ proc[p].cfg.exclude = LoadLayeredConfig(file).exclude
    /\ \A q \in Paths :
          /\ proc[p].static.at[q] # Said(q) => Said(q) = None /\ IsStub(q)
          /\ Resynced(q) => proc[p].cfg.at[q] = Said(q)
          /\ IsMerged(q) /\ Said(q) # None => proc[p].cfg.at[q] = Said(q)
          /\ IsMerged(q) /\ Said(q) = None /\ proc[p].cfg.at[q] # None
                => q \in learned \/ IsStub(q)

LayersInv ==
    /\ StateShaped
    /\ SnapshotAccounted
    /\ \A p \in Procs : ProcAccounted(p)
    /\ \A p \in fresh : UpToDate(p)
-----------------------------------------------------------------------------
(* A merge, a validation and a load give configurations; the rules of        *)
(* exclusion add up over the layers that were read.                          *)
LEMMA OverlayShape ==
  ASSUME NEW cfg, NEW f, IsConfig(cfg), Readable(f) => IsConfig(f)
  PROVE  /\ IsConfig(Over(cfg, f))
         /\ Over(cfg, f).exclude = cfg.exclude \cup (IF Readable(f) THEN f.exclude ELSE {})
<1>1. CASE ~Readable(f)
  BY <1>1 DEF Over
<1>2. CASE Readable(f)
  <2>1. ValidateRemovedGroups(f).exclude = f.exclude
    BY <1>2 DEF ValidateRemovedGroups, IsConfig
  <2> QED
    BY <1>2, <2>1 DEF Over, DeepMerge, IsConfig
<1> QED
  BY <1>1, <1>2

LEMMA CategoriesShape ==
  ASSUME NEW cfg, IsConfig(cfg)
  PROVE  IsConfig(ValidateCategoryGroups(cfg)) /\ ValidateCategoryGroups(cfg).exclude = cfg.exclude
BY DEF ValidateCategoryGroups, IsConfig

LEMMA LayaShape ==
  ASSUME NEW cfg, IsConfig(cfg)
  PROVE  IsConfig(ValidateClassifierLaya(cfg)) /\ ValidateClassifierLaya(cfg).exclude = cfg.exclude
BY DEF ValidateClassifierLaya, IsConfig

LEMMA LoadShape ==
  ASSUME NEW f, FilesOf(f)
  PROVE  /\ IsConfig(LoadLayeredConfig(f))
         /\ LoadLayeredConfig(f).exclude =
              UNION {f[l].exclude : l \in {x \in Layers : x = "shipped" \/ Readable(f[x])}}
<1> DEFINE one == Over(f.shipped, f.user)
           two == Over(one, f.project)
           three == ValidateCategoryGroups(two)
<1>1. IsConfig(one) /\ one.exclude = f.shipped.exclude \cup (IF Readable(f.user) THEN f.user.exclude ELSE {})
  BY OverlayShape DEF FilesOf
<1>2. IsConfig(two) /\ two.exclude = one.exclude \cup (IF Readable(f.project) THEN f.project.exclude ELSE {})
  <2> HIDE DEF one
  <2> QED BY <1>1, OverlayShape DEF FilesOf
<1>3. IsConfig(three) /\ three.exclude = two.exclude
  <2> HIDE DEF two
  <2> QED BY <1>2, CategoriesShape
<1>4. LoadLayeredConfig(f) = ValidateClassifierLaya(three)
  BY DEF LoadLayeredConfig
<1>5. IsConfig(LoadLayeredConfig(f)) /\ LoadLayeredConfig(f).exclude = three.exclude
  <2> HIDE DEF three
  <2> QED BY <1>3, <1>4, LayaShape
<1>6. UNION {f[l].exclude : l \in {x \in Layers : x = "shipped" \/ Readable(f[x])}}
        = f.shipped.exclude \cup (IF Readable(f.user) THEN f.user.exclude ELSE {})
            \cup (IF Readable(f.project) THEN f.project.exclude ELSE {})
  BY DEF Layers
<1> HIDE DEF one, two, three
<1> QED
  BY <1>1, <1>2, <1>3, <1>5, <1>6

-----------------------------------------------------------------------------
(* registerRegistryProviderStubs touches an empty entry and nothing else.    *)
LEMMA StubbedAt ==
  ASSUME NEW cfg, IsConfig(cfg), NEW providers \in SUBSET Registry
  PROVE  /\ IsConfig(Stubbed(cfg, providers))
         /\ Stubbed(cfg, providers).exclude = cfg.exclude
         /\ \A q \in Paths : Stubbed(cfg, providers).at[q] # cfg.at[q]
                => cfg.at[q] = None /\ IsStub(q)
<1>1. /\ IsConfig(Stubbed(cfg, providers)) /\ Stubbed(cfg, providers).exclude = cfg.exclude
      /\ Stubbed(cfg, providers).at = [p \in Paths |->
            IF \E v \in providers : p = Stub(v) /\ ~Entry(cfg.at, v) THEN "subscription" ELSE cfg.at[p]]
  BY DEF Stubbed, IsConfig
<1>2. ASSUME NEW q \in Paths, NEW v \in providers, q = Stub(v), ~Entry(cfg.at, v)
      PROVE  cfg.at[q] = None /\ IsStub(q)
  BY <1>2 DEF Entry, IsStub, Stub
<1> QED
  BY <1>1, <1>2

(* A stub is a provider's: no setting that the files alone hold.             *)
LEMMA StubsAreMerged ==
  ASSUME NEW q, IsStub(q)
  PROVE  IsMerged(q) /\ ~Resynced(q)
BY DEF IsStub, Stub, IsMerged, Resynced, MergeKeys, ResyncKeys

(* resyncDynamicFromStatic, path by path.                                    *)
LEMMA ResyncAt ==
  ASSUME NEW at, NEW static, NEW remembered, NEW current, IsConfig(static)
  PROVE  /\ IsConfig(Resync(at, static, remembered, current))
         /\ Resync(at, static, remembered, current).exclude = static.exclude
         /\ \A q \in Paths : Resync(at, static, remembered, current).at[q] =
              IF Resynced(q) \/ (IsMerged(q) /\ static.at[q] # None) THEN static.at[q]
              ELSE IF Gone(q, remembered, current) THEN None ELSE at[q]
BY DEF Resync, Prune, IsConfig

-----------------------------------------------------------------------------
(* What a load leaves, field by field.                                       *)
Live(f, snap, session) ==
    LET static == LoadLayeredConfig(f)
        current == Contributions(static)
    IN IF Usable(snap, static)
       THEN Restub(Resync(snap.at, static, snap.remembered, current), session,
                   Dropped(snap.at, snap.remembered, current))
       ELSE static

LEMMA LoadedFields ==
  ASSUME NEW old, NEW f, NEW snap, NEW session, DOMAIN old = DOMAIN Unloaded
  PROVE  /\ DOMAIN Loaded(old, f, snap, session) = DOMAIN Unloaded
         /\ Loaded(old, f, snap, session).session = session
         /\ Loaded(old, f, snap, session).static = LoadLayeredConfig(f)
         /\ Loaded(old, f, snap, session).contributions = Contributions(LoadLayeredConfig(f))
         /\ Loaded(old, f, snap, session).cfg = Live(f, snap, session)
         /\ Loaded(old, f, snap, session).reported = {}
<1> DEFINE static == LoadLayeredConfig(f)
           current == Contributions(static)
           fits == Usable(snap, static)
           live == IF fits THEN Restub(Resync(snap.at, static, snap.remembered, current), session,
                                       Dropped(snap.at, snap.remembered, current))
                           ELSE static
<1>1. Loaded(old, f, snap, session) =
        [old EXCEPT !.session = session, !.static = static, !.contributions = current,
           !.alias = ~fits, !.reported = {}, !.generation.stubbed = FALSE, !.cfg = live]
  BY DEF Loaded
<1>2. live = Live(f, snap, session)
  BY DEF Live
<1>3. DOMAIN old = {"session", "static", "contributions", "cfg", "alias", "reported", "generation"}
  BY DEF Unloaded
<1> HIDE DEF static, current, fits, live
<1>4. /\ DOMAIN Loaded(old, f, snap, session) = DOMAIN Unloaded
      /\ Loaded(old, f, snap, session).session = session
      /\ Loaded(old, f, snap, session).static = static
      /\ Loaded(old, f, snap, session).contributions = current
      /\ Loaded(old, f, snap, session).cfg = live
      /\ Loaded(old, f, snap, session).reported = {}
  BY <1>1, <1>3 DEF Unloaded
<1> QED
  BY <1>2, <1>4 DEF static, current, fits

(* The live configuration of a load: the settings and named entries are the  *)
(* files', and what is left of the snapshot was learned or stubbed.          *)
LEMMA LoadedLives ==
  ASSUME NEW f, NEW session, FilesOf(f), SnapshotAccounted
  PROVE  LET said == LoadLayeredConfig(f)
             live == Live(f, snapshot, session)
         IN /\ IsConfig(live) /\ live.exclude = said.exclude
            /\ \A q \in Paths :
                  /\ Resynced(q) => live.at[q] = said.at[q]
                  /\ IsMerged(q) /\ said.at[q] # None => live.at[q] = said.at[q]
                  /\ IsMerged(q) /\ said.at[q] = None /\ live.at[q] # None
                        => q \in learned \/ IsStub(q)
<1> DEFINE said == LoadLayeredConfig(f)
           live == Live(f, snapshot, session)
           current == Contributions(said)
           base == Resync(snapshot.at, said, snapshot.remembered, current)
           dropped == Dropped(snapshot.at, snapshot.remembered, current)
<1>1. IsConfig(said)
  BY LoadShape
<1>2. CASE ~Usable(snapshot, said)
  BY <1>1, <1>2 DEF Live
<1>3. CASE Usable(snapshot, said)
  <2>1. /\ IsConfig(base) /\ base.exclude = said.exclude
        /\ \A q \in Paths : base.at[q] =
             IF Resynced(q) \/ (IsMerged(q) /\ said.at[q] # None) THEN said.at[q]
             ELSE IF Gone(q, snapshot.remembered, current) THEN None ELSE snapshot.at[q]
    <3> HIDE DEF said
    <3> QED BY <1>1, ResyncAt
  <2>2. ASSUME NEW q \in Paths, IsMerged(q), said.at[q] = None, base.at[q] # None
        PROVE  q \in learned \/ IsStub(q)
    <3>1. q \notin current
      BY <2>2 DEF Contributions
    <3>2. ~Resynced(q)
      BY <2>2 DEF IsMerged, Resynced, MergeKeys, ResyncKeys
    <3>3. q \notin snapshot.remembered /\ ~Authoritative(q) /\ snapshot.at[q] # None
      <4> HIDE DEF base, current
      <4> QED BY <2>1, <2>2, <3>1, <3>2 DEF Gone
    <3> QED
      BY <1>3, <2>2, <3>3 DEF Usable, SnapshotAccounted
  <2>3. /\ IsConfig(base) /\ base.exclude = said.exclude
        /\ \A q \in Paths :
              /\ Resynced(q) => base.at[q] = said.at[q]
              /\ IsMerged(q) /\ said.at[q] # None => base.at[q] = said.at[q]
              /\ IsMerged(q) /\ said.at[q] = None /\ base.at[q] # None
                    => q \in learned \/ IsStub(q)
    <3> HIDE DEF base, said, current
    <3> QED BY <2>1, <2>2
  <2>4. dropped \in SUBSET Registry
    BY DEF Dropped
  <2>5. live = Restub(base, session, dropped)
    BY <1>3 DEF Live
  <2>6. CASE live = base
    BY <2>3, <2>6
  <2>7. CASE live = Stubbed(base, dropped)
    <3> HIDE DEF base, said, dropped, live, current
    <3>1. /\ IsConfig(live) /\ live.exclude = base.exclude
          /\ \A q \in Paths : live.at[q] # base.at[q] => base.at[q] = None /\ IsStub(q)
      BY <2>3, <2>4, <2>7, StubbedAt
    <3>2. ASSUME NEW q \in Paths
          PROVE  /\ Resynced(q) => live.at[q] = said.at[q]
                 /\ IsMerged(q) /\ said.at[q] # None => live.at[q] = said.at[q]
                 /\ IsMerged(q) /\ said.at[q] = None /\ live.at[q] # None
                       => q \in learned \/ IsStub(q)
      <4>1. CASE live.at[q] = base.at[q]
        BY <2>3, <4>1
      <4>2. CASE live.at[q] # base.at[q]
        <5>1. base.at[q] = None /\ IsStub(q) /\ ~Resynced(q)
          BY <3>1, <4>2, StubsAreMerged
        <5> QED
          BY <2>3, <5>1
      <4> QED
        BY <4>1, <4>2
    <3>3. live.exclude = said.exclude
      BY <2>3, <3>1
    <3> QED
      BY <3>1, <3>2, <3>3 DEF live, said
  <2> QED
    BY <2>5, <2>6, <2>7 DEF Restub
<1> QED
  BY <1>2, <1>3

-----------------------------------------------------------------------------
(* A process that loads what the files are now is up to date, and nothing of *)
(* its configuration is unaccounted for.                                     *)
LEMMA LoadKeeps ==
  ASSUME LayersInv, NEW p \in Procs, NEW session,
         DOMAIN file' = Layers, FilesOf(file'),
         proc' = [proc EXCEPT ![p] = Loaded(proc[p], file', snapshot, session)],
         fresh' \subseteq fresh \cup {p},
         \A q \in fresh' : q # p => file' = file,
         UNCHANGED <<snapshot, learned>>
  PROVE  LayersInv'
<1> DEFINE me == Loaded(proc[p], file', snapshot, session)
           said == LoadLayeredConfig(file')
           live == Live(file', snapshot, session)
<1>1. /\ DOMAIN me = DOMAIN Unloaded /\ me.static = said /\ me.cfg = live
      /\ me.contributions = Contributions(said) /\ me.reported = {}
  <2>1. DOMAIN proc[p] = DOMAIN Unloaded
    BY DEF LayersInv, StateShaped, Shaped
  <2> QED
    BY <2>1, LoadedFields
<1>2. IsConfig(said)
  BY LoadShape
<1>3. /\ IsConfig(live) /\ live.exclude = said.exclude
      /\ \A q \in Paths :
            /\ Resynced(q) => live.at[q] = said.at[q]
            /\ IsMerged(q) /\ said.at[q] # None => live.at[q] = said.at[q]
            /\ IsMerged(q) /\ said.at[q] = None /\ live.at[q] # None
                  => q \in learned \/ IsStub(q)
  BY LoadedLives DEF LayersInv
<1>4. DOMAIN proc' = Procs /\ proc'[p] = me /\ \A q \in Procs : q # p => proc'[q] = proc[q]
  BY DEF LayersInv, StateShaped
<1> HIDE DEF me, live
<1>5. StateShaped'
  BY <1>1, <1>2, <1>3, <1>4 DEF LayersInv, StateShaped, Shaped
<1>6. SnapshotAccounted'
  BY DEF LayersInv, SnapshotAccounted
<1>7. ASSUME NEW q \in Procs PROVE ProcAccounted(q)'
  <2>1. CASE q = p
    <3>1. \A x \in Paths : IsMerged(x) /\ said.at[x] # None => x \in Contributions(said)
      BY DEF Contributions
    <3> HIDE DEF said
    <3> QED
      BY <1>1, <1>3, <1>4, <2>1, <3>1 DEF ProcAccounted
  <2>2. CASE q # p
    BY <1>4, <2>2 DEF ProcAccounted, LayersInv
  <2> QED
    BY <2>1, <2>2
<1>8. ASSUME NEW q \in fresh' PROVE UpToDate(q)'
  <2>1. CASE q = p
    BY <1>1, <1>3, <1>4, <2>1 DEF UpToDate, Said
  <2>2. CASE q # p
    <3>1. q \in fresh /\ q \in Procs /\ file' = file
      BY <2>2 DEF LayersInv, StateShaped
    <3> QED
      BY <1>4, <2>2, <3>1 DEF UpToDate, Said, LayersInv
  <2> QED
    BY <2>1, <2>2
<1> QED
  BY <1>5, <1>6, <1>7, <1>8 DEF LayersInv

-----------------------------------------------------------------------------
(* The first start, with or without an older version's snapshot.             *)
LEMMA LayersInitEstablishes == LayersInit => LayersInv
<1> SUFFICES ASSUME LayersInit PROVE LayersInv
  OBVIOUS
<1>1. IsConfig(Empty)
  BY DEF IsConfig, Empty
<1>2. \A p \in Procs : proc[p] = Unloaded
  BY DEF LayersInit
<1>3. StateShaped
  <2>1. DOMAIN file = Layers /\ file.shipped \in Shipped /\ file.user \in User /\ file.project = None
    BY DEF LayersInit, Layers
  <2>2. FilesOf(file)
    BY <2>1, FilesAssumption DEF FilesOf, Readable
  <2> QED
    BY <1>1, <1>2, <2>1, <2>2 DEF LayersInit, StateShaped, Shaped, Unloaded
<1>4. SnapshotAccounted
  BY DEF LayersInit, SnapshotAccounted, Readable
<1>5. \A p \in Procs : ProcAccounted(p)
  BY <1>2 DEF ProcAccounted, Unloaded, Empty
<1>6. \A p \in fresh : UpToDate(p)
  BY DEF LayersInit
<1> QED
  BY <1>3, <1>4, <1>5, <1>6 DEF LayersInv

(* load(), whoever calls it.                                                 *)
LEMMA LoadsPreserves ==
  ASSUME LayersInv, NEW p \in Procs, NEW session, Loads(p, session)
  PROVE  LayersInv'
<1>1. DOMAIN file' = Layers /\ FilesOf(file') /\ file' = file
  BY DEF Loads, LayersInv, StateShaped
<1>2. /\ proc' = [proc EXCEPT ![p] = Loaded(proc[p], file', snapshot, session)]
      /\ fresh' = fresh \cup {p} /\ snapshot' = snapshot /\ learned' = learned
  BY DEF Loads
<1> QED
  BY <1>1, <1>2, LoadKeeps

(* The end of a session or of a generation changes neither configuration.    *)
LEMMA EndsPreserve ==
  ASSUME LayersInv, NEW p \in Procs, SessionEnds(p) \/ GivesUp(p)
  PROVE  LayersInv'
<1>1. UNCHANGED <<file, snapshot, fresh, learned>>
  BY DEF SessionEnds, GivesUp
<1>2. /\ DOMAIN proc' = Procs
      /\ \A q \in Procs : /\ DOMAIN proc'[q] = DOMAIN proc[q]
                          /\ proc'[q].static = proc[q].static /\ proc'[q].cfg = proc[q].cfg
                          /\ proc'[q].contributions = proc[q].contributions
                          /\ proc'[q].reported = proc[q].reported
  BY DEF SessionEnds, GivesUp, LayersInv, StateShaped, Shaped, Unloaded
<1>3. StateShaped'
  BY <1>1, <1>2 DEF LayersInv, StateShaped, Shaped
<1>4. SnapshotAccounted'
  BY <1>1 DEF LayersInv, SnapshotAccounted
<1>5. \A q \in Procs : ProcAccounted(q)'
  BY <1>1, <1>2 DEF LayersInv, ProcAccounted
<1>6. \A q \in fresh' : UpToDate(q)'
  BY <1>1, <1>2 DEF LayersInv, StateShaped, UpToDate, Said
<1> QED
  BY <1>3, <1>4, <1>5, <1>6 DEF LayersInv

(* A generation begins: stubs, in the static configuration too when it is    *)
(* the live one.                                                             *)
LEMMA BeginsPreserves ==
  ASSUME LayersInv, NEW p \in Procs, Begins(p)
  PROVE  LayersInv'
<1> DEFINE known == IF proc[p].session THEN Registry ELSE {}
           cfg == Stubbed(proc[p].cfg, known)
           static == IF proc[p].alias THEN Stubbed(proc[p].static, known) ELSE proc[p].static
<1>1. UNCHANGED <<file, snapshot, fresh, learned>>
  BY DEF Begins
<1>2. Shaped(proc[p]) /\ DOMAIN proc = Procs
  BY DEF LayersInv, StateShaped
<1>3. /\ IsConfig(cfg) /\ cfg.exclude = proc[p].cfg.exclude
      /\ \A q \in Paths : cfg.at[q] # proc[p].cfg.at[q] => proc[p].cfg.at[q] = None /\ IsStub(q)
  BY <1>2, StubbedAt DEF Shaped
<1>4. /\ IsConfig(static) /\ static.exclude = proc[p].static.exclude
      /\ \A q \in Paths : static.at[q] # proc[p].static.at[q] => proc[p].static.at[q] = None /\ IsStub(q)
  BY <1>2, StubbedAt DEF Shaped
<1>5. /\ DOMAIN proc' = Procs /\ DOMAIN proc'[p] = DOMAIN Unloaded
      /\ proc'[p].static = static /\ proc'[p].cfg = cfg
      /\ proc'[p].contributions = proc[p].contributions /\ proc'[p].reported = proc[p].reported
      /\ \A q \in Procs : q # p => proc'[q] = proc[q]
  <2>1. proc' = [proc EXCEPT ![p].cfg = cfg, ![p].static = static,
                   ![p].generation = [on |-> TRUE, fingerprint |-> Fingerprint(proc[p].static),
                                      stubbed |-> proc[p].session]]
    BY DEF Begins
  <2> HIDE DEF cfg, static
  <2> QED
    BY <1>2, <2>1 DEF Shaped, Unloaded
<1> HIDE DEF cfg, static
<1>6. StateShaped'
  BY <1>1, <1>3, <1>4, <1>5 DEF LayersInv, StateShaped, Shaped
<1>7. SnapshotAccounted'
  BY <1>1 DEF LayersInv, SnapshotAccounted
<1>8. ASSUME NEW q \in Procs PROVE ProcAccounted(q)'
  BY <1>1, <1>3, <1>4, <1>5 DEF LayersInv, ProcAccounted
<1>9. ASSUME NEW q \in fresh' PROVE UpToDate(q)'
  <2>1. CASE q = p
    <3>1. UpToDate(p)
      BY <1>1, <2>1 DEF LayersInv
    <3>2. LoadLayeredConfig(file)' = LoadLayeredConfig(file)
      BY <1>1
    <3>3. ASSUME NEW x \in Paths
          PROVE  /\ static.at[x] # Said(x) => Said(x) = None /\ IsStub(x)
                 /\ Resynced(x) => cfg.at[x] = Said(x)
                 /\ IsMerged(x) /\ Said(x) # None => cfg.at[x] = Said(x)
                 /\ IsMerged(x) /\ Said(x) = None /\ cfg.at[x] # None => x \in learned \/ IsStub(x)
      BY <1>3, <1>4, <3>1, StubsAreMerged DEF UpToDate
    <3> QED
      BY <1>1, <1>3, <1>4, <1>5, <2>1, <3>1, <3>2, <3>3 DEF UpToDate, Said
  <2>2. CASE q # p
    BY <1>1, <1>5, <2>2 DEF LayersInv, StateShaped, UpToDate, Said
  <2> QED
    BY <2>1, <2>2
<1> QED
  BY <1>6, <1>7, <1>8, <1>9 DEF LayersInv

(* A generation is written: what it takes from the live configuration was    *)
(* accounted for, and what the metrics tool said to this process is learned. *)
LEMMA WritesPreserves ==
  ASSUME LayersInv, NEW p \in Procs, Writes(p)
  PROVE  LayersInv'
<1> DEFINE me == proc[p]
           new == Generated(me)
<1>1. Shaped(me) /\ DOMAIN proc = Procs
  BY DEF LayersInv, StateShaped
<1>2. /\ IsConfig(new) /\ new.exclude = me.static.exclude
      /\ \A q \in Paths : new.at[q] =
           IF Resynced(q) \/ (IsMerged(q) /\ me.static.at[q] # None) THEN me.static.at[q]
           ELSE IF Gone(q, {}, me.contributions) THEN None
           ELSE IF IsGroup(q) THEN me.static.at[q] ELSE me.cfg.at[q]
  <2> DEFINE base == [q \in Paths |-> IF IsGroup(q) THEN me.static.at[q] ELSE me.cfg.at[q]]
  <2>1. new = Resync(base, me.static, {}, me.contributions)
    BY DEF Generated
  <2>2. \A q \in Paths : base[q] = IF IsGroup(q) THEN me.static.at[q] ELSE me.cfg.at[q]
    OBVIOUS
  <2> HIDE DEF base, new, me
  <2>3. IsConfig(me.static)
    BY <1>1 DEF Shaped
  <2>4. /\ IsConfig(new) /\ new.exclude = me.static.exclude
        /\ \A q \in Paths : new.at[q] =
             IF Resynced(q) \/ (IsMerged(q) /\ me.static.at[q] # None) THEN me.static.at[q]
             ELSE IF Gone(q, {}, me.contributions) THEN None ELSE base[q]
    BY <2>1, <2>3, ResyncAt
  <2> QED
    BY <2>2, <2>4
<1>3. UNCHANGED <<file, fresh>> /\ learned' = learned \cup me.reported
  BY DEF Writes
<1>4. /\ snapshot'.at = new.at /\ snapshot'.remembered = me.contributions
  BY DEF Writes
<1>5. /\ DOMAIN proc' = Procs /\ DOMAIN proc'[p] = DOMAIN Unloaded
      /\ proc'[p].static = me.static /\ proc'[p].cfg = new
      /\ proc'[p].contributions = me.contributions /\ proc'[p].reported = me.reported
      /\ \A q \in Procs : q # p => proc'[q] = proc[q]
  <2>1. proc' = [proc EXCEPT ![p].cfg = new, ![p].alias = FALSE, ![p].generation = Idle]
    BY DEF Writes
  <2> HIDE DEF new
  <2> QED
    BY <1>1, <2>1 DEF Shaped, Unloaded
<1>6. ProcAccounted(p)
  BY DEF LayersInv
<1> HIDE DEF new
<1>7. ASSUME NEW q \in Paths, IsMerged(q)
      PROVE  ~Resynced(q) /\ ~IsGroup(q)
  BY <1>7 DEF IsMerged, Resynced, IsGroup, MergeKeys, ResyncKeys
<1>8. ASSUME NEW q \in Paths, IsMerged(q), new.at[q] # None
      PROVE  q \in me.contributions \/ Authoritative(q) \/ q \in learned \/ q \in me.reported \/ IsStub(q)
  BY <1>2, <1>6, <1>7, <1>8 DEF ProcAccounted
<1>9. StateShaped'
  BY <1>1, <1>2, <1>3, <1>5 DEF LayersInv, StateShaped, Shaped
<1>10. SnapshotAccounted'
  BY <1>3, <1>4, <1>8 DEF SnapshotAccounted
<1>11. ASSUME NEW q \in Procs PROVE ProcAccounted(q)'
  <2>1. CASE q = p
    BY <1>3, <1>5, <1>6, <1>8, <2>1 DEF ProcAccounted
  <2>2. CASE q # p
    BY <1>3, <1>5, <2>2 DEF ProcAccounted, LayersInv
  <2> QED
    BY <2>1, <2>2
<1>12. ASSUME NEW q \in fresh' PROVE UpToDate(q)'
  <2>1. CASE q = p
    <3>1. UpToDate(p)
      BY <1>3, <2>1 DEF LayersInv
    <3>2. LoadLayeredConfig(file)' = LoadLayeredConfig(file)
      BY <1>3
    <3>3. ASSUME NEW x \in Paths
          PROVE  /\ Resynced(x) => new.at[x] = Said(x)
                 /\ IsMerged(x) /\ Said(x) # None => new.at[x] = Said(x)
                 /\ IsMerged(x) /\ Said(x) = None /\ new.at[x] # None => x \in learned' \/ IsStub(x)
      <4>1. Resynced(x) => ~IsStub(x)
        BY StubsAreMerged
      <4>2. Resynced(x) => new.at[x] = Said(x)
        BY <1>2, <3>1, <4>1 DEF UpToDate
      <4>3. IsMerged(x) /\ Said(x) # None => new.at[x] = Said(x)
        BY <1>2, <1>7, <3>1 DEF UpToDate
      <4>4. IsMerged(x) /\ Said(x) = None /\ new.at[x] # None => x \in learned' \/ IsStub(x)
        BY <1>2, <1>3, <1>7, <3>1 DEF UpToDate
      <4> QED
        BY <4>2, <4>3, <4>4
    <3> QED
      BY <1>2, <1>3, <1>5, <2>1, <3>1, <3>2, <3>3 DEF UpToDate, Said
  <2>2. CASE q # p
    BY <1>3, <1>5, <2>2 DEF LayersInv, StateShaped, UpToDate, Said
  <2> QED
    BY <2>1, <2>2
<1> QED
  BY <1>9, <1>10, <1>11, <1>12 DEF LayersInv

-----------------------------------------------------------------------------
(* An editor leaves a file that was read before, or that cannot be.          *)
LEMMA EditPreserves ==
  ASSUME LayersInv, NEW layer \in Layers, NEW content, Edit(layer, content),
         \/ layer = "shipped" /\ content \in Shipped
         \/ layer = "user" /\ content \in User
         \/ layer = "project" /\ content \in Project
  PROVE  LayersInv'
<1>1. DOMAIN file' = Layers /\ FilesOf(file')
  BY FilesAssumption DEF Edit, LayersInv, StateShaped, FilesOf, Layers
<1>2. fresh' = {} /\ UNCHANGED <<snapshot, proc, learned>>
  BY DEF Edit
<1>3. StateShaped'
  BY <1>1, <1>2 DEF LayersInv, StateShaped
<1> QED
  BY <1>2, <1>3 DEF LayersInv, SnapshotAccounted, ProcAccounted

(* A command writes what it read, with one value changed.                    *)
Commands(p) ==
    \/ \E pattern \in Patterns : Exclude(p, pattern) \/ Unexclude(p, pattern)
    \/ \E on \in BOOLEAN : SetCompaction(p, on)

LEMMA CommandsWrite ==
  ASSUME LayersInv, NEW p \in Procs, Commands(p)
  PROVE  \E content : WritesUser(p, content) /\ IsConfig(content)
<1>1. file.user # Corrupt => IsConfig(UserLayer)
  <2>1. IsConfig(Empty)
    BY DEF IsConfig, Empty
  <2> QED
    BY <2>1 DEF LayersInv, StateShaped, FilesOf, UserLayer, Readable
<1>2. ASSUME NEW pattern \in Patterns, Exclude(p, pattern)
      PROVE  \E content : WritesUser(p, content) /\ IsConfig(content)
  <2>1. IsConfig([UserLayer EXCEPT !.exclude = @ \cup {pattern}])
    BY <1>1, <1>2 DEF Exclude, IsConfig
  <2> QED
    BY <1>2, <2>1 DEF Exclude
<1>3. ASSUME NEW pattern \in Patterns, Unexclude(p, pattern)
      PROVE  \E content : WritesUser(p, content) /\ IsConfig(content)
  <2>1. IsConfig([UserLayer EXCEPT !.exclude = @ \ {pattern}])
    BY <1>1, <1>3 DEF Unexclude, IsConfig
  <2> QED
    BY <1>3, <2>1 DEF Unexclude
<1>4. ASSUME NEW on \in BOOLEAN, SetCompaction(p, on)
      PROVE  \E content : WritesUser(p, content) /\ IsConfig(content)
  <2>1. IsConfig([UserLayer EXCEPT !.at[<<"context_budget", "enabled">>] = on])
    BY <1>1, <1>4 DEF SetCompaction, IsConfig
  <2> QED
    BY <1>4, <2>1 DEF SetCompaction
<1> QED
  BY <1>2, <1>3, <1>4 DEF Commands

(* applyDelta, and the load of the process that wrote.                       *)
LEMMA CommandsPreserve ==
  ASSUME LayersInv, NEW p \in Procs, Commands(p)
  PROVE  LayersInv'
<1>1. PICK content : WritesUser(p, content) /\ IsConfig(content)
  BY CommandsWrite
<1>2. DOMAIN file' = Layers /\ FilesOf(file')
  BY <1>1 DEF WritesUser, LayersInv, StateShaped, FilesOf, Layers
<1>3. /\ proc' = [proc EXCEPT ![p] = Loaded(proc[p], file', snapshot, proc[p].session)]
      /\ fresh' = {p} /\ snapshot' = snapshot /\ learned' = learned
  BY <1>1 DEF WritesUser
<1> QED
  BY <1>2, <1>3, LoadKeeps

(* update_model_metrics: the path it reports is accounted for until the      *)
(* process loads again, by then from the file it was written to.             *)
LEMMA MetricsPreserve ==
  ASSUME LayersInv, NEW p \in Procs, NEW path, NEW value, UpdateModelMetrics(p, path, value)
  PROVE  LayersInv'
<1> DEFINE me == Loaded(proc[p], file, snapshot, proc[p].session)
           said == LoadLayeredConfig(file)
           live == Live(file, snapshot, proc[p].session)
           at == With(me.cfg.at, path, value)
           static == IF Shared(me, path) THEN With(me.static.at, path, value) ELSE me.static.at
           now == [me EXCEPT !.cfg.at = at, !.reported = {path}, !.static.at = static]
<1>1. /\ DOMAIN me = DOMAIN Unloaded /\ me.static = said /\ me.cfg = live
      /\ me.contributions = Contributions(said) /\ me.reported = {}
  <2>1. DOMAIN proc[p] = DOMAIN Unloaded
    BY DEF LayersInv, StateShaped, Shaped
  <2> QED
    BY <2>1, LoadedFields
<1>2. FilesOf(file) /\ SnapshotAccounted
  BY DEF LayersInv, StateShaped
<1>3. IsConfig(said)
  BY <1>2, LoadShape
<1>4. /\ IsConfig(live) /\ live.exclude = said.exclude
      /\ \A q \in Paths : IsMerged(q) /\ live.at[q] # None
            => said.at[q] # None \/ q \in learned \/ IsStub(q)
  BY <1>2, LoadedLives
<1>5. proc' = [proc EXCEPT ![p] = now]
  BY DEF UpdateModelMetrics
<1>6. fresh' = {} /\ UNCHANGED <<snapshot, learned>>
  BY DEF UpdateModelMetrics
<1>7. DOMAIN file' = Layers /\ FilesOf(file')
  <2>1. file' = [file EXCEPT !.shipped = Persisted(file.shipped, at, path)]
    BY DEF UpdateModelMetrics
  <2>2. IsConfig(Persisted(file.shipped, at, path))
    <3> HIDE DEF at
    <3> QED BY <1>2 DEF FilesOf, IsConfig, Persisted
  <2> HIDE DEF at
  <2> QED
    BY <1>2, <2>1, <2>2 DEF FilesOf, LayersInv, StateShaped, Layers
<1> HIDE DEF me, live, said
<1>8. /\ DOMAIN at = Paths /\ \A q \in Paths : q # path => at[q] = live.at[q]
      /\ DOMAIN static = Paths /\ \A q \in Paths : q # path => static[q] = said.at[q]
  BY <1>1, <1>3, <1>4 DEF With, IsConfig
<1> HIDE DEF at, static
<1>9. /\ DOMAIN now = DOMAIN Unloaded /\ IsConfig(now.cfg) /\ IsConfig(now.static)
      /\ now.cfg.at = at /\ now.static.at = static
      /\ now.contributions = Contributions(said) /\ now.reported = {path}
  BY <1>1, <1>3, <1>4, <1>8 DEF Unloaded, IsConfig
<1> HIDE DEF now
<1>10. DOMAIN proc' = Procs /\ proc'[p] = now /\ \A q \in Procs : q # p => proc'[q] = proc[q]
  BY <1>5 DEF LayersInv, StateShaped
<1>11. StateShaped'
  BY <1>6, <1>7, <1>9, <1>10 DEF LayersInv, StateShaped, Shaped
<1>12. SnapshotAccounted'
  BY <1>6 DEF LayersInv, SnapshotAccounted
<1>13. ASSUME NEW q \in Procs PROVE ProcAccounted(q)'
  <2>1. CASE q = p
    <3>1. ASSUME NEW x \in Paths, IsMerged(x)
          PROVE  /\ static[x] # None => x \in now.contributions \/ x \in now.reported
                 /\ at[x] # None => x \in now.contributions \/ x \in learned
                                    \/ x \in now.reported \/ IsStub(x)
      <4>1. said.at[x] # None => x \in now.contributions
        BY <1>9, <3>1 DEF Contributions
      <4> QED
        BY <1>4, <1>8, <1>9, <3>1, <4>1
    <3> QED
      BY <1>6, <1>9, <1>10, <2>1, <3>1 DEF ProcAccounted
  <2>2. CASE q # p
    BY <1>6, <1>10, <2>2 DEF ProcAccounted, LayersInv
  <2> QED
    BY <2>1, <2>2
<1> QED
  BY <1>6, <1>11, <1>12, <1>13 DEF LayersInv

-----------------------------------------------------------------------------
(* Every step of every process and every editor.                             *)
LEMMA LayersStep == LayersInv /\ [LayersNext]_layersVars => LayersInv'
<1> SUFFICES ASSUME LayersInv, [LayersNext]_layersVars PROVE LayersInv'
  OBVIOUS
<1>1. CASE UNCHANGED layersVars
  BY <1>1 DEF layersVars, LayersInv, StateShaped, SnapshotAccounted, ProcAccounted, UpToDate, Said
<1>2. ASSUME NEW p \in Procs, Starts(p) \/ SessionStart(p) \/ Reload(p)
      PROVE  LayersInv'
  BY <1>2, LoadsPreserves DEF Starts, SessionStart, Reload
<1>3. ASSUME NEW p \in Procs, SessionEnds(p) \/ Begins(p) \/ GivesUp(p) \/ Writes(p)
      PROVE  LayersInv'
  BY <1>3, EndsPreserve, BeginsPreserves, WritesPreserves
<1>4. CASE \/ \E f \in Shipped : Edit("shipped", f)
           \/ \E f \in User : Edit("user", f)
           \/ \E f \in Project : Edit("project", f)
  BY <1>4, EditPreserves DEF Layers
<1>5. ASSUME NEW p \in Procs, Commands(p)
      PROVE  LayersInv'
  BY <1>5, CommandsPreserve
<1>6. CASE \E p \in Procs, report \in Reports : UpdateModelMetrics(p, report[1], report[2])
  BY <1>6, MetricsPreserve
<1> QED
  BY <1>1, <1>2, <1>3, <1>4, <1>5, <1>6 DEF LayersNext, Commands

(* The invariant says what a reader wants to know.                           *)
LEMMA LayersInvSuffices == LayersInv => LivesByTheFiles
<1> SUFFICES ASSUME LayersInv, NEW p \in fresh
    PROVE  LET live == proc[p].cfg.at IN
           /\ proc[p].cfg.exclude =
                UNION {file[l].exclude : l \in {x \in Layers : x = "shipped" \/ Readable(file[x])}}
           /\ \A path \in Paths :
                 /\ Resynced(path) => live[path] = Said(path)
                 /\ IsMerged(path) /\ Said(path) # None => live[path] = Said(path)
                 /\ IsMerged(path) /\ Said(path) = None /\ live[path] # None
                       => path \in learned \/ \E v \in Registry : path = Stub(v)
  BY DEF LivesByTheFiles
<1>1. UpToDate(p)
  BY DEF LayersInv
<1>2. LoadLayeredConfig(file).exclude =
        UNION {file[l].exclude : l \in {x \in Layers : x = "shipped" \/ Readable(file[x])}}
  BY LoadShape DEF LayersInv, StateShaped
<1> QED
  BY <1>1, <1>2 DEF UpToDate, IsStub

(* A process that loaded after the last edit lives by the files, whatever    *)
(* any process generated in between (load, resyncDynamicFromStatic).         *)
THEOREM FilesDecide == LayersSpec => []LivesByTheFiles
<1>1. LayersSpec => []LayersInv
  BY LayersInitEstablishes, LayersStep, PTL DEF LayersSpec
<1> QED
  BY <1>1, LayersInvSuffices, PTL

-----------------------------------------------------------------------------
(* A stub gives every provider of the list an entry and takes none away.     *)
LEMMA StubsEnter ==
  ASSUME NEW cfg, IsConfig(cfg), NEW providers \in SUBSET Registry, NEW v \in Registry,
         v \in providers \/ Entry(cfg.at, v)
  PROVE  Entry(Stubbed(cfg, providers).at, v)
<1>1. Stubbed(cfg, providers).at = [p \in Paths |->
        IF \E w \in providers : p = Stub(w) /\ ~Entry(cfg.at, w) THEN "subscription" ELSE cfg.at[p]]
  BY DEF Stubbed, IsConfig
<1>2. CASE Entry(cfg.at, v)
  <2>1. PICK q \in Paths : q[1] = "providers" /\ q[2] = v /\ cfg.at[q] # None
    BY <1>2 DEF Entry
  <2>2. Stubbed(cfg, providers).at[q] # None
    BY <1>1, <2>1, StubAssumption
  <2> QED
    BY <2>1, <2>2 DEF Entry
<1>3. CASE v \in providers /\ ~Entry(cfg.at, v)
  <2>1. Stub(v) \in Paths /\ Stubbed(cfg, providers).at[Stub(v)] # None
    BY <1>1, <1>3, StubAssumption
  <2>2. Stub(v)[1] = "providers" /\ Stub(v)[2] = v
    BY DEF Stub
  <2> QED
    BY <2>1, <2>2 DEF Entry
<1> QED
  BY <1>2, <1>3

(* In a session, what the files or a usable snapshot know has an entry after *)
(* a load (registerRegistryProviderStubs for what the prune dropped).        *)
LEMMA LoadKeepsEntries ==
  ASSUME NEW f, FilesOf(f), NEW session, session, NEW snap,
         Usable(snap, LoadLayeredConfig(f)), NEW v \in Registry, Entry(snap.at, v)
  PROVE  Entry(Live(f, snap, session).at, v)
<1> DEFINE said == LoadLayeredConfig(f)
           current == Contributions(said)
           base == Resync(snap.at, said, snap.remembered, current)
           dropped == Dropped(snap.at, snap.remembered, current)
<1>1. IsConfig(said)
  BY LoadShape
<1>2. Live(f, snap, session) = Stubbed(base, dropped)
  BY DEF Live, Restub
<1>3. dropped \in SUBSET Registry
  BY DEF Dropped
<1>4. /\ IsConfig(base)
      /\ \A q \in Paths : base.at[q] =
           IF Resynced(q) \/ (IsMerged(q) /\ said.at[q] # None) THEN said.at[q]
           ELSE IF Gone(q, snap.remembered, current) THEN None ELSE snap.at[q]
  <2> HIDE DEF said
  <2> QED BY <1>1, ResyncAt
<1>5. CASE Entry(Prune(snap.at, snap.remembered, current), v)
  <2> HIDE DEF base, said, current
  <2>1. PICK q \in Paths : /\ q[1] = "providers" /\ q[2] = v
                           /\ Prune(snap.at, snap.remembered, current)[q] # None
    BY <1>5 DEF Entry
  <2>2. (IF Gone(q, snap.remembered, current) THEN None ELSE snap.at[q]) # None
    BY <2>1 DEF Prune
  <2>3. IsMerged(q) /\ ~Resynced(q)
    BY <2>1 DEF IsMerged, Resynced, MergeKeys, ResyncKeys
  <2>4. base.at[q] # None
    BY <1>4, <2>2, <2>3
  <2>5. Entry(base.at, v)
    BY <2>1, <2>4 DEF Entry
  <2> HIDE DEF dropped
  <2> QED
    BY <1>2, <1>3, <1>4, <2>5, StubsEnter
<1>6. CASE v \in dropped
  <2> HIDE DEF base, dropped
  <2> QED
    BY <1>2, <1>3, <1>4, <1>6, StubsEnter
<1> QED
  BY <1>5, <1>6 DEF Dropped

LEMMA LoadTakesTheFiles ==
  ASSUME NEW f, FilesOf(f), NEW session, SnapshotAccounted,
         NEW v \in Registry, Entry(LoadLayeredConfig(f).at, v)
  PROVE  Entry(Live(f, snapshot, session).at, v)
<1>1. PICK q \in Paths : q[1] = "providers" /\ q[2] = v /\ LoadLayeredConfig(f).at[q] # None
  BY DEF Entry
<1>2. IsMerged(q)
  BY <1>1 DEF IsMerged, MergeKeys
<1>3. Live(f, snapshot, session).at[q] = LoadLayeredConfig(f).at[q]
  BY <1>1, <1>2, LoadedLives
<1> QED
  BY <1>1, <1>3 DEF Entry

(* What only the files may say is in a loaded configuration when they do.    *)
Spoken(cfg, contributions) ==
    \A q \in Paths : Authoritative(q) /\ cfg.at[q] # None => q \in contributions

LEMMA StubsAreNotAuthoritative == \A q \in Paths : IsStub(q) => ~Authoritative(q)
BY DEF IsStub, Stub, Authoritative

LEMMA LoadSpoken ==
  ASSUME NEW f, FilesOf(f), NEW session, NEW snap
  PROVE  /\ Spoken(Live(f, snap, session), Contributions(LoadLayeredConfig(f)))
         /\ Spoken(LoadLayeredConfig(f), Contributions(LoadLayeredConfig(f)))
<1> DEFINE said == LoadLayeredConfig(f)
           current == Contributions(said)
           base == Resync(snap.at, said, snap.remembered, current)
           dropped == Dropped(snap.at, snap.remembered, current)
<1>1. IsConfig(said)
  BY LoadShape
<1>2. \A q \in Paths : Authoritative(q) => IsMerged(q) /\ ~Resynced(q)
  BY DEF Authoritative, IsMerged, Resynced, MergeKeys, ResyncKeys
<1>3. \A q \in Paths : IsMerged(q) /\ said.at[q] # None => q \in current
  BY DEF Contributions
<1>4. /\ IsConfig(base)
      /\ \A q \in Paths : base.at[q] =
           IF Resynced(q) \/ (IsMerged(q) /\ said.at[q] # None) THEN said.at[q]
           ELSE IF Gone(q, snap.remembered, current) THEN None ELSE snap.at[q]
  <2> HIDE DEF said
  <2> QED BY <1>1, ResyncAt
<1>5. dropped \in SUBSET Registry
  BY DEF Dropped
<1>6. \/ Live(f, snap, session) = said
      \/ Live(f, snap, session) = base
      \/ Live(f, snap, session) = Stubbed(base, dropped)
  BY DEF Live, Restub
<1> HIDE DEF said, current, base, dropped
<1>7. Spoken(said, current)
  BY <1>2, <1>3 DEF Spoken
<1>8. Spoken(base, current)
  BY <1>2, <1>3, <1>4 DEF Spoken, Gone
<1>9. Spoken(Stubbed(base, dropped), current)
  BY <1>4, <1>5, <1>8, StubbedAt, StubsAreNotAuthoritative DEF Spoken
<1> QED
  BY <1>6, <1>7, <1>8, <1>9 DEF said, current

-----------------------------------------------------------------------------
(* The five things a step can do to a process.                               *)
LoadsFrom(p, f, session) ==
    FilesOf(f) /\ proc'[p] = Loaded(proc[p], f, snapshot, session) /\ snapshot' = snapshot
Told(p, path, value) ==
    LET me == Loaded(proc[p], file, snapshot, proc[p].session) IN
    /\ snapshot' = snapshot /\ path[1] = "model_metrics" /\ value # None
    /\ \E static : proc'[p] = [me EXCEPT !.cfg.at = With(@, path, value), !.reported = {path},
                                         !.static.at = static]
                   /\ static \in {me.static.at, With(me.static.at, path, value)}

LEMMA ProcStep ==
  ASSUME LayersInv, [LayersNext]_layersVars, NEW p \in Procs
  PROVE  \/ proc'[p] = proc[p]
         \/ \E f, session : LoadsFrom(p, f, session)
         \/ SessionEnds(p) \/ GivesUp(p) \/ Begins(p) \/ Writes(p)
         \/ \E path, value : Told(p, path, value)
<1>1. DOMAIN proc = Procs /\ FilesOf(file)
  BY DEF LayersInv, StateShaped
<1>2. ASSUME NEW q \in Procs, NEW session, Loads(q, session)
      PROVE  proc'[p] = proc[p] \/ \E f, s : LoadsFrom(p, f, s)
  <2>1. proc'[p] = proc[p] \/ LoadsFrom(p, file, session)
    BY <1>1, <1>2 DEF Loads, LoadsFrom
  <2> QED
    BY <2>1
<1>3. ASSUME NEW q \in Procs, SessionEnds(q) \/ GivesUp(q) \/ Begins(q) \/ Writes(q), q # p
      PROVE  proc'[p] = proc[p]
  BY <1>1, <1>3 DEF SessionEnds, GivesUp, Begins, Writes
<1>4. ASSUME NEW q \in Procs, Commands(q)
      PROVE  proc'[p] = proc[p] \/ \E f, s : LoadsFrom(p, f, s)
  <2>1. PICK content : WritesUser(q, content) /\ IsConfig(content)
    BY <1>4, CommandsWrite
  <2>2. FilesOf(file')
    BY <2>1 DEF WritesUser, LayersInv, StateShaped, FilesOf, Layers
  <2>3. proc'[p] = proc[p] \/ LoadsFrom(p, file', proc[p].session)
    BY <1>1, <2>1, <2>2 DEF WritesUser, LoadsFrom
  <2> QED
    BY <2>3
<1>5. ASSUME NEW q \in Procs, NEW report \in Reports, UpdateModelMetrics(q, report[1], report[2])
      PROVE  proc'[p] = proc[p] \/ \E path, value : Told(p, path, value)
  <2>1. CASE q # p
    BY <1>1, <1>5, <2>1 DEF UpdateModelMetrics
  <2>2. CASE q = p
    <3> DEFINE me == Loaded(proc[p], file, snapshot, proc[p].session)
               static == IF Shared(me, report[1]) THEN With(me.static.at, report[1], report[2])
                         ELSE me.static.at
    <3>1. /\ proc' = [proc EXCEPT ![p] =
                [me EXCEPT !.cfg.at = With(me.cfg.at, report[1], report[2]), !.reported = {report[1]},
                           !.static.at = static]]
          /\ snapshot' = snapshot
      BY <1>5, <2>2 DEF UpdateModelMetrics
    <3>2. static \in {me.static.at, With(me.static.at, report[1], report[2])}
      OBVIOUS
    <3>3. report[1][1] = "model_metrics" /\ report[2] # None
      BY ReportsAssumption
    <3> HIDE DEF static, me
    <3>4. proc'[p] = [me EXCEPT !.cfg.at = With(me.cfg.at, report[1], report[2]),
                                !.reported = {report[1]}, !.static.at = static]
      BY <1>1, <3>1
    <3>5. Told(p, report[1], report[2])
      BY <3>1, <3>2, <3>3, <3>4 DEF Told, me
    <3> QED
      BY <3>5
  <2> QED
    BY <2>1, <2>2
<1>6. ASSUME NEW layer, NEW content, Edit(layer, content)
      PROVE  proc' = proc
  BY <1>6 DEF Edit
<1>7. CASE UNCHANGED layersVars
  BY <1>7 DEF layersVars
<1> QED
  BY <1>2, <1>3, <1>4, <1>5, <1>6, <1>7 DEF LayersNext, Commands, Starts, SessionStart, Reload

-----------------------------------------------------------------------------
(* What a generation that no load came into holds for each provider, and     *)
(* keeps when it is written: an entry that is not the files' alone, or that  *)
(* they have.                                                                *)
Stubs(p) ==
    /\ DOMAIN proc[p].generation = DOMAIN Idle
    /\ Spoken(proc[p].cfg, proc[p].contributions)
    /\ Spoken(proc[p].static, proc[p].contributions)
    /\ proc[p].generation.stubbed =>
          proc[p].generation.on /\ \A v \in Registry : Entry(proc[p].cfg.at, v)
EntriesInv == LayersInv /\ \A p \in Procs : Stubs(p)

LEMMA EntriesInit == LayersInit => EntriesInv
<1> SUFFICES ASSUME LayersInit PROVE EntriesInv
  OBVIOUS
<1>1. ASSUME NEW p \in Procs PROVE Stubs(p)
  BY DEF LayersInit, Unloaded, Idle, Stubs, Spoken, Empty
<1> QED
  BY <1>1, LayersInitEstablishes DEF EntriesInv

LEMMA LoadedGeneration ==
  ASSUME NEW old, NEW f, NEW snap, NEW session, DOMAIN old = DOMAIN Unloaded,
         DOMAIN old.generation = DOMAIN Idle
  PROVE  /\ DOMAIN Loaded(old, f, snap, session).generation = DOMAIN Idle
         /\ Loaded(old, f, snap, session).generation.stubbed = FALSE
<1> DEFINE static == LoadLayeredConfig(f)
           current == Contributions(static)
           fits == Usable(snap, static)
           live == IF fits THEN Restub(Resync(snap.at, static, snap.remembered, current), session,
                                       Dropped(snap.at, snap.remembered, current))
                           ELSE static
<1>1. Loaded(old, f, snap, session) =
        [old EXCEPT !.session = session, !.static = static, !.contributions = current,
           !.alias = ~fits, !.reported = {}, !.generation.stubbed = FALSE, !.cfg = live]
  BY DEF Loaded
<1> HIDE DEF static, current, fits, live
<1> QED
  BY <1>1 DEF Unloaded, Idle

(* A loaded configuration, and one the metrics tool then adds to.            *)
LEMMA LoadsStub ==
  ASSUME EntriesInv, NEW p \in Procs, NEW f, NEW session, LoadsFrom(p, f, session)
  PROVE  Stubs(p)'
<1>1. Shaped(proc[p]) /\ DOMAIN proc[p].generation = DOMAIN Idle
  BY DEF EntriesInv, LayersInv, StateShaped, Stubs
<1>2. /\ proc'[p].cfg = Live(f, snapshot, session) /\ proc'[p].static = LoadLayeredConfig(f)
      /\ proc'[p].contributions = Contributions(LoadLayeredConfig(f))
  BY <1>1, LoadedFields DEF LoadsFrom, Shaped
<1>3. DOMAIN proc'[p].generation = DOMAIN Idle /\ proc'[p].generation.stubbed = FALSE
  <2>1. DOMAIN proc[p] = DOMAIN Unloaded
    BY <1>1 DEF Shaped
  <2>2. proc'[p] = Loaded(proc[p], f, snapshot, session)
    BY DEF LoadsFrom
  <2>3. /\ DOMAIN Loaded(proc[p], f, snapshot, session).generation = DOMAIN Idle
        /\ Loaded(proc[p], f, snapshot, session).generation.stubbed = FALSE
    BY <1>1, <2>1, LoadedGeneration
  <2> QED
    BY <2>2, <2>3
<1>4. /\ Spoken(Live(f, snapshot, session), Contributions(LoadLayeredConfig(f)))
      /\ Spoken(LoadLayeredConfig(f), Contributions(LoadLayeredConfig(f)))
  BY LoadSpoken DEF LoadsFrom
<1> QED
  BY <1>2, <1>3, <1>4 DEF Stubs

LEMMA ToldFields ==
  ASSUME EntriesInv, NEW p \in Procs, NEW path, NEW value, Told(p, path, value)
  PROVE  LET said == LoadLayeredConfig(file)
             live == Live(file, snapshot, proc[p].session)
         IN /\ proc'[p].cfg.at = With(live.at, path, value) /\ IsConfig(live)
            /\ proc'[p].contributions = Contributions(said)
            /\ proc'[p].session = proc[p].session
            /\ proc'[p].static.at \in {said.at, With(said.at, path, value)} /\ IsConfig(said)
            /\ DOMAIN proc'[p].generation = DOMAIN Idle /\ proc'[p].generation.stubbed = FALSE
<1> DEFINE me == Loaded(proc[p], file, snapshot, proc[p].session)
           said == LoadLayeredConfig(file)
           live == Live(file, snapshot, proc[p].session)
<1>1. Shaped(proc[p]) /\ FilesOf(file) /\ SnapshotAccounted /\ DOMAIN proc[p].generation = DOMAIN Idle
  BY DEF EntriesInv, LayersInv, StateShaped, Stubs
<1>2. /\ DOMAIN me = DOMAIN Unloaded /\ me.session = proc[p].session /\ me.static = said
      /\ me.cfg = live /\ me.contributions = Contributions(said)
  BY <1>1, LoadedFields DEF Shaped
<1>3. DOMAIN me.generation = DOMAIN Idle /\ me.generation.stubbed = FALSE
  <2>1. DOMAIN proc[p] = DOMAIN Unloaded
    BY <1>1 DEF Shaped
  <2>2. ASSUME NEW session
        PROVE  /\ DOMAIN Loaded(proc[p], file, snapshot, session).generation = DOMAIN Idle
               /\ Loaded(proc[p], file, snapshot, session).generation.stubbed = FALSE
    BY <1>1, <2>1, LoadedGeneration
  <2> QED
    BY <2>2
<1>4. IsConfig(live) /\ IsConfig(said)
  BY <1>1, LoadedLives, LoadShape
<1>5. PICK static : /\ proc'[p] = [me EXCEPT !.cfg.at = With(@, path, value), !.reported = {path},
                                             !.static.at = static]
                    /\ static \in {me.static.at, With(me.static.at, path, value)}
  BY DEF Told
<1> HIDE DEF me, said, live
<1> QED
  BY <1>2, <1>3, <1>4, <1>5 DEF Unloaded, IsConfig, said, live

LEMMA ToldStub ==
  ASSUME EntriesInv, NEW p \in Procs, NEW path, NEW value, Told(p, path, value)
  PROVE  Stubs(p)'
<1> DEFINE live == Live(file, snapshot, proc[p].session)
           said == LoadLayeredConfig(file)
<1>1. /\ proc'[p].cfg.at = With(live.at, path, value) /\ IsConfig(live)
      /\ proc'[p].contributions = Contributions(said)
      /\ proc'[p].static.at \in {said.at, With(said.at, path, value)} /\ IsConfig(said)
      /\ DOMAIN proc'[p].generation = DOMAIN Idle /\ proc'[p].generation.stubbed = FALSE
  BY ToldFields
<1>2. Spoken(live, Contributions(said)) /\ Spoken(said, Contributions(said))
  BY LoadSpoken DEF EntriesInv, LayersInv, StateShaped
<1>3. path[1] = "model_metrics"
  BY DEF Told
<1> HIDE DEF live, said
<1>4. \A q \in Paths : Authoritative(q) =>
          proc'[p].cfg.at[q] = live.at[q] /\ proc'[p].static.at[q] = said.at[q]
  BY <1>1, <1>3 DEF With, IsConfig, Authoritative
<1> QED
  BY <1>1, <1>2, <1>4 DEF Stubs, Spoken

(* A generation begins: in a session every provider has an entry from now on. *)
LEMMA BeginsStub ==
  ASSUME EntriesInv, NEW p \in Procs, Begins(p)
  PROVE  /\ Stubs(p)'
         /\ proc'[p].session => \A v \in Registry : Entry(proc'[p].cfg.at, v)
<1> DEFINE known == IF proc[p].session THEN Registry ELSE {}
<1>1. /\ DOMAIN proc = Procs /\ Shaped(proc[p])
      /\ Spoken(proc[p].cfg, proc[p].contributions)
      /\ Spoken(proc[p].static, proc[p].contributions)
  BY DEF EntriesInv, LayersInv, StateShaped, Stubs
<1>2. /\ proc'[p].cfg = Stubbed(proc[p].cfg, known) /\ proc'[p].session = proc[p].session
      /\ proc'[p].static \in {proc[p].static, Stubbed(proc[p].static, known)}
      /\ proc'[p].contributions = proc[p].contributions
      /\ DOMAIN proc'[p].generation = DOMAIN Idle
      /\ proc'[p].generation.on /\ proc'[p].generation.stubbed = proc[p].session
  <2>1. proc' = [proc EXCEPT ![p].cfg = Stubbed(@, known),
                            ![p].static = IF proc[p].alias THEN Stubbed(@, known) ELSE @,
                            ![p].generation = [on |-> TRUE, fingerprint |-> Fingerprint(proc[p].static),
                                               stubbed |-> proc[p].session]]
    BY DEF Begins
  <2> HIDE DEF known
  <2> QED
    BY <1>1, <2>1 DEF Shaped, Unloaded, Idle
<1>3. known \in SUBSET Registry /\ (proc[p].session => known = Registry)
  OBVIOUS
<1> HIDE DEF known
<1>4. IsConfig(proc[p].cfg) /\ IsConfig(proc[p].static)
  BY <1>1 DEF Shaped
<1>5. \A q \in Paths :
          /\ Stubbed(proc[p].cfg, known).at[q] # proc[p].cfg.at[q] => IsStub(q)
          /\ Stubbed(proc[p].static, known).at[q] # proc[p].static.at[q] => IsStub(q)
  BY <1>3, <1>4, StubbedAt
<1>6. /\ Spoken(proc'[p].cfg, proc'[p].contributions)
      /\ Spoken(proc'[p].static, proc'[p].contributions)
  BY <1>1, <1>2, <1>5, StubsAreNotAuthoritative DEF Spoken
<1>7. ASSUME proc[p].session, NEW v \in Registry
      PROVE  Entry(proc'[p].cfg.at, v)
  BY <1>2, <1>3, <1>4, <1>7, StubsEnter
<1> QED
  BY <1>2, <1>6, <1>7 DEF Stubs

(* A generation that is written keeps every entry its stubs made sure of.    *)
LEMMA WritesStub ==
  ASSUME EntriesInv, NEW p \in Procs, Writes(p)
  PROVE  /\ Stubs(p)'
         /\ snapshot'.at = proc'[p].cfg.at
         /\ proc[p].generation.stubbed => \A v \in Registry : Entry(proc'[p].cfg.at, v)
         /\ \A v \in Registry : Entry(proc'[p].static.at, v) => Entry(proc'[p].cfg.at, v)
<1> DEFINE me == proc[p]
           base == [q \in Paths |-> IF IsGroup(q) THEN me.static.at[q] ELSE me.cfg.at[q]]
           new == Generated(me)
<1>1. DOMAIN proc = Procs /\ Shaped(me) /\ Stubs(p)
  BY DEF EntriesInv, LayersInv, StateShaped
<1>2. /\ proc'[p].cfg = new /\ proc'[p].contributions = me.contributions
      /\ proc'[p].static = me.static
      /\ proc'[p].generation = Idle
      /\ snapshot'.at = new.at
  <2>1. proc' = [proc EXCEPT ![p].cfg = new, ![p].alias = FALSE, ![p].generation = Idle]
        /\ snapshot'.at = new.at
    BY DEF Writes
  <2> HIDE DEF new
  <2> QED
    BY <1>1, <2>1 DEF Shaped, Unloaded
<1>3. \A q \in Paths : new.at[q] =
           IF Resynced(q) \/ (IsMerged(q) /\ me.static.at[q] # None) THEN me.static.at[q]
           ELSE IF Gone(q, {}, me.contributions) THEN None ELSE base[q]
  <2>1. new = Resync(base, me.static, {}, me.contributions)
    BY DEF Generated
  <2>2. IsConfig(me.static)
    BY <1>1 DEF Shaped
  <2> HIDE DEF new, base, me
  <2> QED
    BY <2>1, <2>2, ResyncAt
<1>4. \A q \in Paths : q[1] = "providers" =>
          IsMerged(q) /\ ~Resynced(q) /\ ~IsGroup(q) /\ base[q] = me.cfg.at[q]
  BY DEF IsMerged, Resynced, IsGroup, MergeKeys, ResyncKeys
<1> HIDE DEF new, base
<1>5. Spoken(new, me.contributions)
  <2>1. ASSUME NEW q \in Paths, Authoritative(q), new.at[q] # None, q \notin me.contributions
        PROVE  FALSE
    <3>1. q[1] = "providers"
      BY <2>1 DEF Authoritative
    <3>2. Gone(q, {}, me.contributions)
      BY <1>4, <2>1, <3>1 DEF Gone
    <3>3. me.static.at[q] # None
      BY <1>3, <1>4, <2>1, <3>1, <3>2
    <3> QED
      BY <1>1, <2>1, <3>3 DEF Stubs, Spoken
  <2> QED
    BY <2>1 DEF Spoken
<1>6. ASSUME NEW q \in Paths, q[1] = "providers", me.cfg.at[q] # None
      PROVE  new.at[q] # None
  BY <1>1, <1>3, <1>4, <1>6 DEF Stubs, Spoken, Gone
<1>7. ASSUME NEW v \in Registry, Entry(me.cfg.at, v)
      PROVE  Entry(new.at, v)
  BY <1>6, <1>7 DEF Entry
<1>8. ASSUME NEW v \in Registry, Entry(me.static.at, v)
      PROVE  Entry(new.at, v)
  BY <1>3, <1>4, <1>8 DEF Entry
<1> QED
  BY <1>1, <1>2, <1>5, <1>7, <1>8 DEF Stubs, Idle

LEMMA EntriesStep == EntriesInv /\ [LayersNext]_layersVars => EntriesInv'
<1> SUFFICES ASSUME EntriesInv, [LayersNext]_layersVars PROVE EntriesInv'
  OBVIOUS
<1>1. LayersInv'
  BY LayersStep DEF EntriesInv
<1>2. ASSUME NEW p \in Procs PROVE Stubs(p)'
  <2>1. Stubs(p) /\ DOMAIN proc = Procs /\ Shaped(proc[p])
    BY DEF EntriesInv, LayersInv, StateShaped
  <2>2. CASE proc'[p] = proc[p]
    BY <2>1, <2>2 DEF Stubs
  <2>3. CASE \E f, session : LoadsFrom(p, f, session)
    BY <2>3, LoadsStub
  <2>4. CASE SessionEnds(p) \/ GivesUp(p)
    BY <2>1, <2>4 DEF SessionEnds, GivesUp, Stubs, Shaped, Unloaded, Idle
  <2>5. CASE Begins(p)
    BY <2>5, BeginsStub
  <2>6. CASE Writes(p)
    BY <2>6, WritesStub
  <2>7. CASE \E path, value : Told(p, path, value)
    BY <2>7, ToldStub
  <2> QED
    BY <2>2, <2>3, <2>4, <2>5, <2>6, <2>7, ProcStep DEF EntriesInv
<1> QED
  BY <1>1, <1>2 DEF EntriesInv

(* What a process of a session runs with lacks a provider only when there    *)
(* was nothing to load.                                                      *)
Unnamed(p, v) ==
    /\ ~Entry(proc'[p].static.at, v)
    /\ ~Usable(snapshot', proc'[p].static) \/ ~Entry(snapshot'.at, v)

LEMMA LacksUnnamed ==
  ASSUME EntriesInv, [LayersNext]_layersVars, NEW p \in Procs, NEW v \in Registry,
         proc'[p].cfg # proc[p].cfg, proc'[p].session, ~Entry(proc'[p].cfg.at, v)
  PROVE  Unnamed(p, v)
<1>1. /\ LayersInv /\ DOMAIN proc = Procs /\ Shaped(proc[p]) /\ FilesOf(file) /\ SnapshotAccounted
  BY DEF EntriesInv, LayersInv, StateShaped
<1>2. ASSUME NEW f, NEW session, LoadsFrom(p, f, session)
      PROVE  Unnamed(p, v)
  <2>1. /\ proc'[p].cfg = Live(f, snapshot, session) /\ proc'[p].session = session
        /\ proc'[p].static = LoadLayeredConfig(f) /\ FilesOf(f) /\ snapshot' = snapshot
    <3>1. DOMAIN proc[p] = DOMAIN Unloaded
      BY <1>1 DEF Shaped
    <3>2. proc'[p] = Loaded(proc[p], f, snapshot, session) /\ FilesOf(f) /\ snapshot' = snapshot
      BY <1>2 DEF LoadsFrom
    <3>3. /\ Loaded(proc[p], f, snapshot, session).cfg = Live(f, snapshot, session)
          /\ Loaded(proc[p], f, snapshot, session).session = session
          /\ Loaded(proc[p], f, snapshot, session).static = LoadLayeredConfig(f)
      BY <3>1, LoadedFields
    <3> QED
      BY <3>2, <3>3
  <2>2. ~Entry(LoadLayeredConfig(f).at, v)
    BY <1>1, <2>1, LoadTakesTheFiles
  <2>3. Usable(snapshot, LoadLayeredConfig(f)) => ~Entry(snapshot.at, v)
    BY <2>1, LoadKeepsEntries
  <2> QED
    BY <2>1, <2>2, <2>3 DEF Unnamed
<1>3. ASSUME NEW path, NEW value, Told(p, path, value)
      PROVE  Unnamed(p, v)
  <2> DEFINE said == LoadLayeredConfig(file)
             live == Live(file, snapshot, proc[p].session)
  <2>1. /\ proc'[p].cfg.at = With(live.at, path, value) /\ IsConfig(live)
        /\ proc'[p].session = proc[p].session
        /\ proc'[p].static.at \in {said.at, With(said.at, path, value)} /\ IsConfig(said)
    BY <1>3, ToldFields
  <2>2. snapshot' = snapshot /\ path[1] = "model_metrics"
    BY <1>3 DEF Told
  <2>3. /\ Entry(said.at, v) => Entry(live.at, v)
        /\ Usable(snapshot, said) /\ Entry(snapshot.at, v) => Entry(live.at, v)
    BY <1>1, <2>1, LoadTakesTheFiles, LoadKeepsEntries
  <2> HIDE DEF said, live
  <2>4. \A q \in Paths : IsGroup(q) \/ q[1] = "providers" =>
            proc'[p].static.at[q] = said.at[q] /\ proc'[p].cfg.at[q] = live.at[q]
    BY <2>1, <2>2 DEF With, IsConfig, IsGroup
  <2>5. /\ Entry(proc'[p].static.at, v) = Entry(said.at, v)
        /\ Entry(proc'[p].cfg.at, v) = Entry(live.at, v)
    BY <2>4 DEF Entry
  <2>6. Fingerprint(proc'[p].static) = Fingerprint(said)
    BY <2>4 DEF Fingerprint
  <2> QED
    BY <2>2, <2>3, <2>5, <2>6 DEF Unnamed, Usable
<1>4. ASSUME Writes(p)
      PROVE  Unnamed(p, v)
  BY <1>4, WritesStub DEF Unnamed
<1>5. ~Begins(p)
  BY BeginsStub
<1>6. ASSUME SessionEnds(p) \/ GivesUp(p)
      PROVE  FALSE
  BY <1>1, <1>6 DEF SessionEnds, GivesUp, Shaped, Unloaded
<1> QED
  BY <1>1, <1>2, <1>3, <1>4, <1>5, <1>6, ProcStep

(* A generation that was not loaded into writes an entry for each provider.  *)
LEMMA StubbedWrites ==
  ASSUME EntriesInv, [LayersNext]_layersVars, NEW p \in Procs, NEW v \in Registry,
         proc[p].generation.stubbed, ~proc'[p].generation.on, snapshot' # snapshot
  PROVE  Entry(snapshot'.at, v) /\ Entry(proc'[p].cfg.at, v)
<1>1. /\ LayersInv /\ DOMAIN proc = Procs /\ Stubs(p)
  BY DEF EntriesInv, LayersInv, StateShaped
<1>2. CASE Writes(p)
  BY <1>2, WritesStub
<1>3. ASSUME NEW q \in Procs, Writes(q), q # p
      PROVE  FALSE
  <2>1. proc'[p] = proc[p]
    BY <1>1, <1>3 DEF Writes
  <2> QED
    BY <1>1, <2>1 DEF Stubs
<1>4. \E q \in Procs : Writes(q)
  <2>1. \A q \in Procs : Commands(q) => snapshot' = snapshot
    BY <1>1, CommandsWrite DEF WritesUser
  <2> QED
    BY <2>1 DEF LayersNext, Commands, Starts, SessionStart, Reload, Loads, SessionEnds, Begins,
                GivesUp, Edit, UpdateModelMetrics, layersVars
<1> QED
  BY <1>2, <1>3, <1>4

(* In a session the billing of a provider of the registry is lost only when  *)
(* neither the files nor a snapshot of the same groups had it to load, and a *)
(* generation that no load came into restores it for every process.          *)
THEOREM BillingSurvives == LayersSpec => ProvidersKept
<1>1. LayersSpec => []EntriesInv
  BY EntriesInit, EntriesStep, PTL DEF LayersSpec
<1>2. EntriesInv /\ [LayersNext]_layersVars =>
        [ \A p \in Procs, v \in Registry :
            /\ (proc'[p].cfg # proc[p].cfg /\ proc'[p].session /\ ~Entry(proc'[p].cfg.at, v))
                  => /\ ~Entry(proc'[p].static.at, v)
                     /\ ~Usable(snapshot', proc'[p].static) \/ ~Entry(snapshot'.at, v)
            /\ (proc[p].generation.stubbed /\ ~proc'[p].generation.on /\ snapshot' # snapshot)
                  => Entry(snapshot'.at, v) /\ Entry(proc'[p].cfg.at, v) ]_layersVars
  BY LacksUnnamed, StubbedWrites DEF Unnamed
<1> QED
  BY <1>1, <1>2, PTL DEF LayersSpec, ProvidersKept
=============================================================================
