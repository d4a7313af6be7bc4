--------------------------- MODULE CircuitBreaker ---------------------------
(***************************************************************************)
(* What the provider circuit breaker of ADR-0026 promises, independent of  *)
(* clocks, evidence ages and trip counters.  Each provider is closed,      *)
(* open, or half open (its cooldown is over and one failed re-probe is     *)
(* enough to re-open it).  A closed breaker opens only when MinModels      *)
(* distinct models are under suspicion; an open one is never prolonged     *)
(* and ends half open, unless a success closes it first.                   *)
(***************************************************************************)
EXTENDS Integers, FiniteSets

CONSTANTS
    Providers,      \* the providers the router streams from
    Models,         \* their models
    MinModels,      \* [Providers -> Nat]: distinct failing models that trip
    Top             \* number of rungs of the cooldown ladder

VARIABLES
    phase,          \* [Providers -> {"closed", "open", "half_open"}]
    rung,           \* ladder position of the current trip, 0 when closed
    suspects        \* models whose failures are recent enough to count

vars == <<phase, rung, suspects>>

Init ==
    /\ phase = [p \in Providers |-> "closed"]
    /\ rung = [p \in Providers |-> 0]
    /\ suspects = [p \in Providers |-> {}]

\* Suspicion grows by one model at a time, and any of it may fade.
Suspicion(p) ==
    \/ suspects'[p] \subseteq suspects[p]
    \/ \E m \in Models : suspects'[p] \subseteq suspects[p] \cup {m}

\* Enough distinct models of a trusted provider failed: first rung.
Trip(p) ==
    /\ phase[p] = "closed" /\ phase'[p] = "open"
    /\ rung'[p] = 1
    /\ Suspicion(p)
    /\ Cardinality(suspects'[p]) >= MinModels[p]

\* The probe after a cooldown failed: next rung, capped at the last one.
Retrip(p) ==
    /\ phase[p] = "half_open" /\ phase'[p] = "open"
    /\ rung'[p] = IF rung[p] < Top THEN rung[p] + 1 ELSE Top
    /\ suspects'[p] # {}

\* The cooldown is over.
Expire(p) ==
    /\ phase[p] = "open" /\ phase'[p] = "half_open"
    /\ rung'[p] = rung[p]
    /\ suspects'[p] \subseteq suspects[p]

\* Nobody probed for a whole window: the old trip vouches for nothing more.
Lapse(p) ==
    /\ phase[p] = "half_open" /\ phase'[p] = "closed"
    /\ rung'[p] = 0
    /\ suspects'[p] \subseteq suspects[p]

\* The provider answered, or the user cleared the cooldowns.
Close(p) ==
    /\ phase'[p] = "closed"
    /\ rung'[p] = 0
    /\ suspects'[p] = {}

\* Evidence comes and goes without consequence.
Hold(p) ==
    /\ phase'[p] = phase[p]
    /\ rung'[p] = rung[p]
    /\ Suspicion(p)

Step(p) ==
    \/ Trip(p) \/ Retrip(p) \/ Expire(p) \/ Lapse(p) \/ Close(p) \/ Hold(p)

Next == \A p \in Providers : Step(p)

Spec == Init /\ [][Next]_vars
=============================================================================
