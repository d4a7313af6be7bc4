--------------------------- MODULE ProviderBreaker --------------------------
(***************************************************************************)
(* The provider circuit breaker, src/src/provider-breaker.ts, as the       *)
(* router drives it from src/index.ts (observeProviderFailure,             *)
(* isBreakerOpen) and from recordOk (src/src/limit-glue.ts).               *)
(*                                                                         *)
(* Time is kept relative, which makes the state finite without a bound on  *)
(* the clock.  The code stores absolute timestamps and only ever looks at  *)
(* the differences                                                         *)
(*     now - evidence[ref].at   compared with windowMs                     *)
(*     now - open_until         compared with 0 and with windowMs          *)
(* so age[m] and since[p] ARE these differences, saturated at Window:      *)
(*     age[m] = Window    no evidence, or evidence the window ignores;     *)
(*     since[p] < 0       open for another -since[p] ticks;                *)
(*     since[p] = Window  never opened, or open too long ago to matter.    *)
(* trip_count is read only as "= 0" and as min(trip_count, #ladder), so    *)
(* it saturates at the ladder's length.                                    *)
(***************************************************************************)
EXTENDS Integers, Sequences, FiniteSets

CONSTANTS
    Providers,      \* provider names, the part of a ref before the slash
    Models,         \* model refs
    ProviderOf,     \* [Models -> Providers]
    Local,          \* providers whose daemon runs on this machine
    MinModels,      \* [Providers -> Nat]: min_models.local / min_models.cloud
    Window,         \* windowMs, in ticks
    Ladder,         \* cooldownMs, in ticks
    LadderTop,      \* the longest step of the ladder
    Kinds,          \* failure kinds the walk reports
    Texts           \* sets of features an error text may show

ASSUME ProvidersAssumption ==
    /\ ProviderOf \in [Models -> Providers]
    /\ Local \subseteq Providers
    /\ MinModels \in [Providers -> Nat \ {0}]

ASSUME TuningAssumption ==
    /\ Window \in Nat \ {0}
    /\ Ladder \in Seq(Nat \ {0}) /\ Len(Ladder) > 0
    /\ LadderTop \in Nat
    /\ \A i \in 1 .. Len(Ladder) : Ladder[i] <= LadderTop

VARIABLES
    age,            \* [Models -> 0 .. Window]
    since,          \* [Providers -> -LadderTop .. Window]
    tripCount,      \* [Providers -> 0 .. Len(Ladder)]
    cloudEnabled    \* the kill switch, provider_breaker.enabled

vars == <<age, since, tripCount, cloudEnabled>>

-----------------------------------------------------------------------------
\* The set of models of one provider.
ModelsOf(p) == {m \in Models : ProviderOf[m] = p}

(* Which failures speak about the provider and not about one model.  An    *)
(* error text shows a set of features ("transport" wording, a parsed 5xx   *)
(* code, ...); the exclusions are tested before the transport and gateway  *)
(* wording, and a parsed 4xx beats incidental gateway wording.             *)
CountsAsProviderEvidence(kind, text) ==
    \/ kind \in {"empty_response", "empty_timeout", "stall_timeout"}
    \/ /\ kind \in {"provider_error", "stream_threw"}
       /\ text \cap {"rate_limit", "abort", "overflow", "request", "permanent"} = {}
       /\ \/ "transport" \in text
          \/ "code5xx" \in text
          \/ "gateway" \in text /\ "code4xx" \notin text

IsProviderOpen(p) == since[p] < 0

\* What the walk asks: the kill switch disarms cloud providers only.
IsBreakerOpen(m) ==
    LET p == ProviderOf[m] IN
    IsProviderOpen(p) /\ (p \in Local \/ cloudEnabled)

\* The kill switch stops the recording of cloud failures as well.
Observed(p) == p \in Local \/ cloudEnabled

\* Models of p with live evidence once m has failed.
EvidenceWith(m) ==
    {m} \cup {n \in ModelsOf(ProviderOf[m]) : age[n] < Window}

\* Mutant: a quiet window does not forget the old trip.
TripBaseKept(p) == tripCount[p]

\* The trip count a failure starts from: a whole window after the last
\* cooldown the old trip is forgotten.
TripBase(p) == IF since[p] >= Window THEN 0 ELSE tripCount[p]

NextStep(p) ==
    IF TripBase(p) < Len(Ladder) THEN TripBase(p) + 1 ELSE Len(Ladder)

\* Mutant: late failures count while the breaker is open.
OpensAgain(m) ==
    TripBase(ProviderOf[m]) > 0
        \/ Cardinality(EvidenceWith(m)) >= MinModels[ProviderOf[m]]

\* The failure of m opens the breaker of its provider.
Opens(m) ==
    LET p == ProviderOf[m] IN
    /\ ~IsProviderOpen(p)
    /\ TripBase(p) > 0 \/ Cardinality(EvidenceWith(m)) >= MinModels[p]

-----------------------------------------------------------------------------
Init ==
    /\ age = [m \in Models |-> Window]
    /\ since = [p \in Providers |-> Window]
    /\ tripCount = [p \in Providers |-> 0]
    /\ cloudEnabled \in BOOLEAN

(* A failed attempt of m, reported by any of the walks in flight - also by *)
(* one that started before the breaker opened.                             *)
RecordProviderFailure(m, kind, text) ==
    LET p == ProviderOf[m] IN
    /\ Observed(p)
    /\ CountsAsProviderEvidence(kind, text)
    /\ age' = [age EXCEPT ![m] = 0]
    /\ IF Opens(m)
         THEN /\ tripCount' = [tripCount EXCEPT ![p] = NextStep(p)]
              /\ since' = [since EXCEPT ![p] = -Ladder[NextStep(p)]]
         ELSE /\ tripCount' = [tripCount EXCEPT ![p] =
                                 IF IsProviderOpen(p) THEN @ ELSE TripBase(p)]
              /\ since' = since
    /\ UNCHANGED cloudEnabled

\* Mutant: a success resets the ladder and leaves the open time standing.
SuccessKeepsOpenTime(m) ==
    /\ age' = [n \in Models |-> IF ProviderOf[n] = ProviderOf[m] THEN Window ELSE age[n]]
    /\ tripCount' = [tripCount EXCEPT ![ProviderOf[m]] = 0]
    /\ UNCHANGED <<since, cloudEnabled>>

\* Any completed answer of the provider forgets everything about it.
RecordProviderSuccess(m) ==
    LET p == ProviderOf[m] IN
    /\ age' = [n \in Models |-> IF ProviderOf[n] = p THEN Window ELSE age[n]]
    /\ since' = [since EXCEPT ![p] = Window]
    /\ tripCount' = [tripCount EXCEPT ![p] = 0]
    /\ UNCHANGED cloudEnabled

(* "/router cooldowns clear", and a restart of the process: the breaker    *)
(* state is volatile and never reaches the disk (src/src/cache.ts).        *)
ClearBreakers ==
    /\ age' = [m \in Models |-> Window]
    /\ since' = [p \in Providers |-> Window]
    /\ tripCount' = [p \in Providers |-> 0]
    /\ UNCHANGED cloudEnabled

\* load() re-reads the configuration: the kill switch may flip.
Reload ==
    /\ cloudEnabled' = ~cloudEnabled
    /\ UNCHANGED <<age, since, tripCount>>

\* One tick of the wall clock.
Tick ==
    /\ age' = [m \in Models |-> IF age[m] < Window THEN age[m] + 1 ELSE Window]
    /\ since' = [p \in Providers |-> IF since[p] < Window THEN since[p] + 1 ELSE Window]
    /\ UNCHANGED <<tripCount, cloudEnabled>>

Next ==
    \/ \E m \in Models, kind \in Kinds, text \in Texts :
          RecordProviderFailure(m, kind, text)
    \/ \E m \in Models : RecordProviderSuccess(m)
    \/ ClearBreakers
    \/ Reload
    \/ Tick

Spec == Init /\ [][Next]_vars

\* Time passes; nothing forces a failure, a success or a reload.
FairSpec == Spec /\ WF_vars(Tick)

-----------------------------------------------------------------------------
(* Type correctness, together with the fact the ladder rests on: whatever  *)
(* is open or half open has tripped and was not forgotten since.           *)
BreakerInv ==
    /\ age \in [Models -> 0 .. Window]
    /\ since \in [Providers -> -LadderTop .. Window]
    /\ tripCount \in [Providers -> 0 .. Len(Ladder)]
    /\ cloudEnabled \in BOOLEAN
    /\ \A p \in Providers : since[p] < Window => tripCount[p] > 0

(* Failures that arrive while a breaker is open - from walks that were     *)
(* already streaming when it opened - never prolong the open time.         *)
NeverProlonged ==
    [][\A p \in Providers : since[p] < 0 /\ since'[p] < 0 => since'[p] >= since[p]]_vars

(* A breaker never stays open for good: the provider becomes attemptable   *)
(* again whatever else the router does meanwhile.                          *)
CoolsDown ==
    \A p \in Providers : (since[p] < 0) ~> (since[p] >= 0)

PhaseOf(p) ==
    IF since[p] < 0 THEN "open" ELSE IF since[p] < Window THEN "half_open" ELSE "closed"

CB == INSTANCE CircuitBreaker WITH
        Top      <- Len(Ladder),
        phase    <- [p \in Providers |-> PhaseOf(p)],
        rung     <- [p \in Providers |-> IF since[p] < Window THEN tripCount[p] ELSE 0],
        suspects <- [p \in Providers |-> {m \in ModelsOf(p) : age[m] < Window}]

(* The breaker keeps the promise of ADR-0026: it opens only on enough      *)
(* distinct failing models, or on one failed probe within a window after   *)
(* its own cooldown, climbs the ladder one rung at a time and restarts at  *)
(* the first rung after a success or a quiet window.                       *)
ImplementsCircuitBreaker == CB!Spec
=============================================================================
