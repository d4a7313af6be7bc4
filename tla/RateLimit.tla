------------------------------ MODULE RateLimit -----------------------------
(***************************************************************************)
(* Per-model cooldowns and failure streaks: RateLimitManager               *)
(* (src/src/rate-limit.ts), the streak of src/src/model-health.ts, and the *)
(* glue that feeds both from one stream failure (src/src/limit-glue.ts).   *)
(*                                                                         *)
(* Time is relative: left[r] is cooldown_until - now and resetIn[r] is     *)
(* resetAtMs - now, both floored at 0; quiet[r] is now - last_fail,        *)
(* saturated one past HealthDecay; midnight counts down to 00:00 UTC.      *)
(* left[r] = 0 with hits[r] > 0 is an EXPIRED entry nobody has looked at:  *)
(* the first look deletes it (lazy cleanup), and its hits with it.         *)
(*                                                                         *)
(* Failures arrive from attempts already in flight, so a failure may be    *)
(* recorded at any time, cooldown or not.                                  *)
(***************************************************************************)
EXTENDS Integers, Sequences, FiniteSets

CONSTANTS
    Refs,           \* model refs
    ProviderOf,     \* [Refs -> providers]
    Free,           \* openrouter/...:free refs, under one account-wide cap
    Listed,         \* refs the last scan lists as available
    Hard,           \* backoff_minutes, in ticks
    Soft,           \* soft_backoff_ms, in ticks
    MaxReset,       \* longest reset time a provider announces
    Day,            \* ticks of a UTC day
    HealthDecay,    \* HEALTH_DECAY_MS, in ticks
    UnhealthyAt,    \* UNHEALTHY_AT
    CostMuxAtHit,   \* cost_mux_at_hit
    MaxHits,        \* bound on hits[r] and on fails[r]
    MaxMux          \* bound on costMux

ASSUME LadderAssumption ==
    /\ Hard \in Seq(Nat \ {0}) /\ Len(Hard) > 0
    /\ Soft \in Seq(Nat \ {0}) /\ Len(Soft) > 0
    /\ MaxReset \in Nat /\ Day \in Nat \ {0} /\ HealthDecay \in Nat
    /\ MaxHits \in Nat /\ MaxMux \in Nat
    /\ Free \subseteq Refs /\ Listed \subseteq Refs

VARIABLES
    left,           \* ticks of cooldown left
    hits,           \* failures on the entry's record
    resetIn,        \* ticks until the reset time the entry carries, 0 if none
    fails,          \* model_health: consecutive failures
    quiet,          \* ticks since the last failure
    costMux,        \* cost multiplier of a provider
    bumped,         \* providers bumped since midnight
    midnight        \* ticks until the next UTC midnight

vars == <<left, hits, resetIn, fails, quiet, costMux, bumped, midnight>>

Providers == {ProviderOf[r] : r \in Refs}

Larger(a, b) == IF a > b THEN a ELSE b
Smaller(a, b) == IF a < b THEN a ELSE b

\* The step of a ladder for the n-th hit: the last step repeats.
Backoff(ladder, n) == ladder[Smaller(n, Len(ladder))]

IsLimited(r) == left[r] > 0

\* Mutant: a streak ends by success only.
StaleNever(r) == fails[r] = 0

Stale(r) == fails[r] = 0 \/ quiet[r] > HealthDecay
FailureStreak(r) == IF Stale(r) THEN 0 ELSE fails[r]
IsUnhealthy(r) == FailureStreak(r) >= UnhealthyAt

Init ==
    /\ left = [r \in Refs |-> 0]
    /\ hits = [r \in Refs |-> 0]
    /\ resetIn = [r \in Refs |-> 0]
    /\ fails = [r \in Refs |-> 0]
    /\ quiet = [r \in Refs |-> 0]
    /\ costMux = [p \in Providers |-> 1]
    /\ bumped = {}
    /\ midnight \in 1 .. Day

-----------------------------------------------------------------------------
\* The streak grows by one, or starts over when the last failure is stale.
RecordModelFailure(r) ==
    /\ fails' = [fails EXCEPT ![r] = FailureStreak(r) + 1]
    /\ quiet' = [quiet EXCEPT ![r] = 0]

\* At most one bump per provider and UTC day, on one exact hit.
BumpMux(r) ==
    LET p == ProviderOf[r] IN
    IF hits'[r] = CostMuxAtHit /\ p \notin bumped /\ r \in Listed
      THEN /\ costMux' = [costMux EXCEPT ![p] = Smaller(@ + 1, MaxMux)]
           /\ bumped' = bumped \cup {p}
      ELSE UNCHANGED <<costMux, bumped>>

\* Mutant: the announced reset is noted, the wait is the rung alone.
RecordLimitRungOnly(r, reset) ==
    /\ hits[r] < MaxHits /\ FailureStreak(r) < MaxHits
    /\ hits' = [hits EXCEPT ![r] = @ + 1]
    /\ left' = [left EXCEPT ![r] = Backoff(Hard, hits[r] + 1)]
    /\ resetIn' = [resetIn EXCEPT ![r] = reset]
    /\ RecordModelFailure(r)
    /\ BumpMux(r)
    /\ UNCHANGED midnight

(* A rate limit, or a paid model's failure that looks like one.  reset is  *)
(* the announced time to the provider's reset, 0 when none was parsed.     *)
RecordLimit(r, reset) ==
    /\ hits[r] < MaxHits /\ FailureStreak(r) < MaxHits
    /\ hits' = [hits EXCEPT ![r] = @ + 1]
    /\ left' = [left EXCEPT ![r] = Larger(Backoff(Hard, hits[r] + 1), reset)]
    /\ resetIn' = [resetIn EXCEPT ![r] = reset]
    /\ RecordModelFailure(r)
    /\ BumpMux(r)
    /\ UNCHANGED midnight

\* Mutant: a soft failure overwrites a longer cooldown.
SoftFailureOverwrites(r) ==
    /\ hits[r] < MaxHits /\ FailureStreak(r) < MaxHits
    /\ hits' = [hits EXCEPT ![r] = @ + 1]
    /\ left' = [left EXCEPT ![r] = Backoff(Soft, hits[r] + 1)]
    /\ resetIn' = [resetIn EXCEPT ![r] = 0]
    /\ RecordModelFailure(r)
    /\ UNCHANGED <<costMux, bumped, midnight>>

\* An empty response, a timeout, an error of a free or local model.
RecordSoftFailure(r) ==
    LET until == Backoff(Soft, hits[r] + 1) IN
    /\ hits[r] < MaxHits /\ FailureStreak(r) < MaxHits
    /\ hits' = [hits EXCEPT ![r] = @ + 1]
    /\ left' = [left EXCEPT ![r] = Larger(@, until)]
    /\ resetIn' = [resetIn EXCEPT ![r] = 0]
    /\ RecordModelFailure(r)
    /\ UNCHANGED <<costMux, bumped, midnight>>

(* The account-wide daily cap, reported by one free ref: every free ref is *)
(* limited until midnight, but only r failed.                              *)
RecordDayCap(r) ==
    /\ FailureStreak(r) < MaxHits
    /\ left' = [s \in Refs |-> IF s \in Free THEN Larger(left[s], midnight) ELSE left[s]]
    /\ resetIn' = [s \in Refs |-> IF s \in Free THEN midnight ELSE resetIn[s]]
    /\ RecordModelFailure(r)
    /\ UNCHANGED <<hits, costMux, bumped, midnight>>

\* Mutant: a completed answer deletes the entry.
RecordOkDeletes(r) ==
    /\ left' = [left EXCEPT ![r] = 0]
    /\ hits' = [hits EXCEPT ![r] = 0]
    /\ resetIn' = [resetIn EXCEPT ![r] = 0]
    /\ fails' = [fails EXCEPT ![r] = 0]
    /\ quiet' = [quiet EXCEPT ![r] = 0]
    /\ UNCHANGED <<costMux, bumped, midnight>>

\* A completed answer: the cooldown that may be running stays.
RecordOk(r) ==
    /\ hits' = [hits EXCEPT ![r] = 0]
    /\ fails' = [fails EXCEPT ![r] = 0]
    /\ quiet' = [quiet EXCEPT ![r] = 0]
    /\ UNCHANGED <<left, resetIn, costMux, bumped, midnight>>

(* Anyone asks whether r is limited - the router before every attempt, the *)
(* group filters, the status displays: an expired entry is deleted.        *)
Look(r) ==
    /\ ~IsLimited(r)
    /\ hits' = [hits EXCEPT ![r] = 0]
    /\ resetIn' = [resetIn EXCEPT ![r] = 0]
    /\ UNCHANGED <<left, fails, quiet, costMux, bumped, midnight>>

\* The user's HINT names r: its cooldown goes, its streak stays.
ClearLimit(r) ==
    /\ left' = [left EXCEPT ![r] = 0]
    /\ hits' = [hits EXCEPT ![r] = 0]
    /\ resetIn' = [resetIn EXCEPT ![r] = 0]
    /\ UNCHANGED <<fails, quiet, costMux, bumped, midnight>>

Forget ==
    /\ left' = [r \in Refs |-> 0]
    /\ hits' = [r \in Refs |-> 0]
    /\ resetIn' = [r \in Refs |-> 0]

\* "/router cooldowns clear".
ClearAll ==
    /\ Forget
    /\ fails' = [r \in Refs |-> 0]
    /\ quiet' = [r \in Refs |-> 0]
    /\ UNCHANGED <<costMux, bumped, midnight>>

(* load(), on every session start, subagent sessions included, makes a new *)
(* RateLimitManager: its map is empty, the streaks live in the cache.      *)
Load == Forget /\ UNCHANGED <<fails, quiet, costMux, bumped, midnight>>

Tick ==
    /\ left' = [r \in Refs |-> Larger(left[r] - 1, 0)]
    /\ resetIn' = [r \in Refs |-> Larger(resetIn[r] - 1, 0)]
    /\ quiet' = [r \in Refs |->
                   IF fails[r] = 0 THEN 0 ELSE Smaller(quiet[r] + 1, HealthDecay + 1)]
    /\ midnight' = IF midnight = 1 THEN Day ELSE midnight - 1
    /\ bumped' = IF midnight = 1 THEN {} ELSE bumped
    /\ UNCHANGED <<hits, fails, costMux>>

Failure(r) ==
    \/ \E reset \in 0 .. MaxReset : RecordLimit(r, reset)
    \/ RecordSoftFailure(r)
    \/ r \in Free /\ RecordDayCap(r)

Next ==
    \/ \E r \in Refs : Failure(r) \/ RecordOk(r) \/ Look(r) \/ ClearLimit(r)
    \/ ClearAll
    \/ Load
    \/ Tick

Spec == Init /\ [][Next]_vars

\* Only the clock must advance; failures, answers and looks come as they may.
FairSpec == Spec /\ WF_vars(Tick)

-----------------------------------------------------------------------------
\* Types, and an entry never ends before the reset time it carries.
RateLimitInv ==
    /\ left \in [Refs -> Nat]
    /\ hits \in [Refs -> 0 .. MaxHits]
    /\ resetIn \in [Refs -> Nat]
    /\ fails \in [Refs -> 0 .. MaxHits]
    /\ quiet \in [Refs -> 0 .. HealthDecay + 1]
    /\ costMux \in [Providers -> Nat]
    /\ bumped \subseteq Providers
    /\ midnight \in 1 .. Day
    /\ \A r \in Refs : resetIn[r] <= left[r]

(* A running cooldown is shortened only by who may take the entry away -   *)
(* the user's HINT for this model, "cooldowns clear", a reload - or by a    *)
(* fresh rate limit of the model, which puts its own full rung in its      *)
(* place.  No soft failure, daily cap, look or answer of a concurrent walk *)
(* re-arms a limited model, nor any event of another model.                *)
NoEarlyRearm ==
    [][\A r \in Refs :
         left'[r] < left[r] - 1 =>
            \/ ClearLimit(r) \/ ClearAll \/ Load
            \/ /\ hits'[r] = hits[r] + 1
               /\ left'[r] >= Backoff(Hard, hits'[r])
               /\ \A s \in Refs \ {r} : left'[s] = left[s]]_vars

(* Every model gets another chance: once failures stop, every cooldown     *)
(* ends and every demotion decays, whatever looks, answers, clears and     *)
(* reloads are interleaved with the clock.                                 *)
SecondChance ==
    <>[][\A r \in Refs : ~Failure(r)]_vars
        => <>[](\A r \in Refs : ~IsLimited(r) /\ ~IsUnhealthy(r))
=============================================================================
