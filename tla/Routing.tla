------------------------------- MODULE Routing --------------------------------
(***************************************************************************)
(* From the group of a turn to the list of models its walk gets             *)
(* (src/routing.ts, src/stream-orchestrator.ts), as far as it is decided    *)
(* before the first attempt: discovery, the gates of a group, the sorts,    *)
(* the demotions by pace (src/budget-pacing.ts) and by failures             *)
(* (src/model-health.ts), the fallback groups, the turn's list; the list of *)
(* a turn whose HINT names a model (src/hint-resolution.ts); the table that *)
(* "/router" shows; and the                                                 *)
(* generation that writes the lists and the fallback groups of the groups   *)
(* anew from what pi offers (src/dynamic-config.ts,                         *)
(* src/dynamic-config-runner.ts).                                           *)
(*                                                                         *)
(* What is known of a model is a record; None is "unknown" for a number     *)
(* and "absent" for a key of a group.  Prices are per million tokens.       *)
(* A turn resolves several groups in a row: only the round robin counters   *)
(* change on the way, so they are passed from one resolution to the next.   *)
(***************************************************************************)
EXTENDS Blocklist, Lists, Integers, SequencesExt

CONSTANTS Model,        \* [Refs -> what the catalogs know of a model]
          Billing,      \* [providers -> "subscription", "pay_per_token" or None]
          FreeModels,   \* free_models of the configuration, in order
          Scanned,      \* refs of the scan cache, in order, some perhaps gone
          Catalog,      \* refs pi's registry knows, available or not, in order
          Hints,        \* what a HINT may ask for: refs with that name, perhaps one exactly,
                        \* and refs whose name differs in case and separators only
          MaxSpare,     \* fallback models behind a hinted one
          Rules,        \* exclude: the global rules
          Order,        \* the names of the groups, in the order of the file
          Group,        \* [Names -> their static configuration]
          Window,       \* best_quality_window, in percent
          UnhealthyAt,  \* UNHEALTHY_AT
          MaxFails,     \* bound: longer streaks are not told apart
          Scenes        \* what may happen: failures, budgets, other registries

VARIABLES scene,   \* one of Scenes
          offers,  \* what pi's registry has available, in order
          group,   \* the configuration of the groups in use
          fails,   \* model_health: failures in a row, none of them decayed
          ahead,   \* pacedProviders
          spent,   \* subscription providers whose cached budget is used up
          rr       \* rrCounters

vars == <<block, streak, seen, scene, offers, group, fails, ahead, spent, rr>>
tables == <<scene, offers, group>>

Names == ToSet(Order)
Numbers == {None} \cup Nat
PipeStep == [method : STRING, topK : Numbers]
\* Group of types.ts, and what the catalogs tell of a model.
GroupConfig ==
    [method : STRING, topK : Numbers, pipeline : Seq(PipeStep), models : SUBSET Refs,
     minPct : Numbers, minGdpval : Numbers, maxGdpval : Numbers, scoreBy : {None} \cup STRING,
     requireColumn : BOOLEAN, minScore : Numbers, maxCost : Numbers, maxCostPerM : Numbers,
     minContext : Numbers, excludeProviders : SUBSET DOMAIN Billing, excludeModels : SUBSET Refs,
     preference : STRING, fallbacks : {None} \cup Seq(Names)]
ModelFacts ==
    [provider : DOMAIN Billing, slug : {None} \cup STRING, signature : STRING, variant : 0..4, gdp : Numbers, cost : Numbers,
     input : Numbers, free : BOOLEAN, window : Numbers, agent : BOOLEAN, column : Numbers,
     latency : Nat, throughput : Nat]
RoutingAssumption ==
    /\ Model \in [Refs -> ModelFacts] /\ Group \in [Names -> GroupConfig]
    /\ \A s \in Scenes : \A r \in Refs : s.texts[r] \subseteq Texts
ASSUME RoutingAssumption
\* No ref is listed twice (a generation makes a Set of all it finds), and a
\* pipeline has a step: without one the models of its group would stay unranked.
ListsAssumption ==
    /\ \A refs \in {FreeModels, Catalog, Scanned} \cup UNION {s.registries : s \in Scenes} :
          refs \in Seq(Refs) /\ IsInjective(refs)
    /\ Order \in Seq(Names) /\ IsInjective(Order)
    /\ \A n \in Names : Group[n].method = "pipeline" => Group[n].pipeline # << >>
    /\ \A s \in Scenes : s.pressure \in [Refs -> Int]
    /\ \A h \in Hints : h.names \subseteq Refs /\ h.spelled \subseteq Refs
    /\ None \notin Int /\ UnhealthyAt \in Nat \ {0} /\ MaxFails \in Nat /\ MaxSpare \in Nat /\ Window \in Nat
ASSUME ListsAssumption

NaN == None  \* no number either
Provider(r) == Model[r].provider
Slug(r) == Model[r].slug
IsLocal(r) == r \in LocalRefs
BillingFor(r) == IF Billing[Provider(r)] = None THEN "pay_per_token" ELSE Billing[Provider(r)]
IsTokenBased(r) == Billing[Provider(r)] = "pay_per_token"
Gdpval(r) == IF Model[r].gdp = None THEN 50 ELSE Model[r].gdp
Unhealthy(r) == fails[r] >= UnhealthyAt

-----------------------------------------------------------------------------
\* isExcluded; paid_models_from spares what is free.
Excluded(r) ==
    \/ Provider(r) \in Rules.providers \/ r \in Rules.models
    \/ Provider(r) \in Rules.paidFrom /\ ~Model[r].free

\* allDiscoveredRefs: the registry, then the free models pi has a key for.
HasKey(r) == Provider(r) \notin scene.keyless
Available == offers \o Only(FreeModels, {r \in Refs : HasKey(r)} \ ToSet(offers))
\* The models a session is limited to, none when it is not.
Scoped(r) == scene.scoped = {} \/ r \in scene.scoped
Discovered == Only(Available, {r \in Refs : Scoped(r) /\ ~Excluded(r) /\ ~IsBlocked(r)})

\* dedupByModelIdentity: of one provider's refs with one slug the best variant
\* stays, at the place of the first.
SameModel(a, b) == a = b \/ (Slug(a) # None /\ Slug(a) = Slug(b) /\ Provider(a) = Provider(b))
Better(refs, a, b) ==
    \/ Model[a].variant > Model[b].variant
    \/ Model[a].variant = Model[b].variant /\ Place(refs, a) < Place(refs, b)
SameSlug(a, b) == a = b \/ (Slug(a) # None /\ Slug(a) = Slug(b))
Canonical(r) == Slug(r) = None \/ Model[r].variant = 4
DedupByModelIdentity(refs) ==
    LET Twins(r) == {x \in ToSet(refs) : SameModel(x, r)}
        First(r) == \A x \in Twins(r) : Place(refs, r) <= Place(refs, x)
        Best(r) == CHOOSE x \in Twins(r) : \A y \in Twins(r) \ {x} : Better(refs, x, y)
        firsts == Only(refs, {r \in ToSet(refs) : First(r)})
    IN [i \in DOMAIN firsts |-> Best(firsts[i])]

\* The gates.  A missing or zero bound admits everything, an unknown value
\* fails a bound.
AtLeast(value, min) == min \in {None, 0} \/ (value # None /\ value >= min)
AtMost(value, max) == max \in {None, 0} \/ (value # None /\ value <= max)

\* min_gdpval_pct counts only without min_gdpval, of the best before the gates.
InPercent(refs, r, g) ==
    LET scores == {Model[x].gdp : x \in ToSet(refs)} \ {None} IN
    \/ g.minGdpval \notin {None, 0} \/ g.minPct \in {None, 0} \/ scores = {}
    \/ Model[r].gdp # None /\ \A s \in scores : 100 * Model[r].gdp >= g.minPct * s

\* scoreColumnGateFailure: both gates stand down while nothing has a value.
ColumnAdmits(r, g) ==
    \/ g.scoreBy = None \/ \A x \in Refs : Model[x].column = None
    \/ /\ g.requireColumn => Model[r].column # None
       /\ AtLeast(Model[r].column, g.minScore)

\* A model is free by its tag, the configured list or its price, for the groups
\* as for a generation.
AdmitsZeroCost(r) == IsLocal(r) \/ (Model[r].free /\ IsTokenBased(r))
CostAdmits(r, max) ==
    CASE max = None -> TRUE
      [] max = 0 -> AdmitsZeroCost(r)
      [] OTHER -> Model[r].free \/ IF Model[r].cost = None THEN BillingFor(r) # "pay_per_token"
                                                  ELSE Model[r].cost <= max
PriceAdmits(r, max) ==
    max = None \/ AdmitsZeroCost(r) \/ (Model[r].input # None /\ Model[r].input <= max)

Admits(refs, r, g) ==
    /\ Model[r].agent
    /\ AtLeast(Model[r].gdp, g.minGdpval) /\ InPercent(refs, r, g)
    /\ AtMost(Model[r].gdp, g.maxGdpval)
    /\ ColumnAdmits(r, g)
    /\ CostAdmits(r, g.maxCost) /\ PriceAdmits(r, g.maxCostPerM)
    /\ AtLeast(Model[r].window, g.minContext)

\* applyGroupFilters.
Listed(r, g) == Provider(r) \notin g.excludeProviders /\ r \notin g.excludeModels
ApplyGroupFilters(refs, g) ==
    Only(DedupByModelIdentity(Only(refs, {r \in Refs : Listed(r, g)})),
         {r \in Refs : Admits(refs, r, g)})

\* hasBudget.
HasBudget(r) == IsLocal(r) \/ BillingFor(r) = "pay_per_token" \/ Provider(r) \notin spent

-----------------------------------------------------------------------------
\* An unknown cost comes last.
Cheaper(a, b) ==
    Model[a].cost # None /\ (Model[b].cost = None \/ Model[a].cost < Model[b].cost)
SameCost(a, b) == Model[a].cost = Model[b].cost
CheapThenGood(a, b) == Cheaper(a, b) \/ (SameCost(a, b) /\ Gdpval(a) > Gdpval(b))
SortByMinCost(refs) == Sorted(refs, CheapThenGood)

\* rankByScore: those within the window of the best are equally good, the
\* cheapest first, then the weakest.
RankByScore(refs, score) ==
    LET Near(r) == Window > 0 /\ \A x \in ToSet(refs) : 100 * score[r] >= (100 - Window) * score[x]
        LessNear(a, b) == \/ Cheaper(a, b)
                          \/ SameCost(a, b) /\ Gdpval(a) < Gdpval(b)
                          \/ SameCost(a, b) /\ Gdpval(a) = Gdpval(b) /\ score[a] > score[b]
        Less(a, b) == CASE Near(a) /\ Near(b) -> LessNear(a, b)
                        [] Near(a) # Near(b) -> Near(a)
                        [] OTHER -> score[a] > score[b]
    IN Sorted(refs, Less)

Measured == {r \in Refs : Model[r].column # None}
\* sortBest: models without a value in the column follow, by GDPval.
SortBest(refs, column) ==
    IF column = None THEN RankByScore(refs, [r \in Refs |-> Gdpval(r)])
    ELSE RankByScore(Only(refs, Measured), [r \in Refs |-> Model[r].column])
         \o Sorted(Only(refs, Refs \ Measured), LAMBDA a, b : Gdpval(a) > Gdpval(b))

\* billingTier, and the rank each preference gives the tiers 0 to 3.
BillingTier(r) ==
    CASE IsLocal(r) -> 2
      [] ~IsLocal(r) /\ BillingFor(r) = "subscription" -> 1
      [] OTHER -> IF Model[r].free THEN 0 ELSE 3
TierRank(preference) ==
    CASE preference = "strict_local" -> <<1, 2, 0, 3>>
      [] preference = "local_first" -> <<0, 2, 1, 3>>
      [] preference = "cloud_first" -> <<0, 1, 3, 2>>
      [] OTHER -> <<0, 1, 2, 3>>
SortByBillingPreference(refs, preference) ==
    LET Tier(r) == TierRank(preference)[BillingTier(r) + 1]
        Pressed(a, b) == BillingTier(a) = 1 /\ scene.pressure[a] # scene.pressure[b]
        Less(a, b) == CASE Tier(a) # Tier(b) -> Tier(a) < Tier(b)
                        [] Tier(a) = Tier(b) /\ Pressed(a, b) -> scene.pressure[a] < scene.pressure[b]
                        [] OTHER -> CheapThenGood(a, b)
    IN Sorted(refs, Less)

SortBy(refs, method) ==
    CASE method \in {"min_cost", "min_cost_if_all_priced"} -> SortByMinCost(refs)
      [] method = "max_gdpval" -> Sorted(refs, LAMBDA a, b : Gdpval(a) > Gdpval(b))
      [] method = "best" -> SortBest(refs, None)
      [] method = "min_latency" -> Sorted(refs, LAMBDA a, b : Model[a].latency < Model[b].latency)
      [] method = "max_throughput" -> Sorted(refs, LAMBDA a, b : Model[a].throughput > Model[b].throughput)
      [] method = "billing_preference" -> SortByBillingPreference(refs, "default")
      [] OTHER -> refs

-----------------------------------------------------------------------------
\* coalesceBySlug: refs of one slug stand together, at the best one's place.
CoalesceBySlug(refs) ==
    LET Lead(r) == CHOOSE i \in DOMAIN refs :
                     /\ refs[i] = r \/ (Slug(r) # None /\ Slug(refs[i]) = Slug(r))
                     /\ \A j \in 1..(i - 1) : refs[j] # r /\ (Slug(r) = None \/ Slug(refs[j]) # Slug(r))
    IN Sorted(refs, LAMBDA a, b : Lead(a) < Lead(b))

PaceDemote(refs) ==
    Sorted(refs, LAMBDA a, b : Provider(a) \notin ahead /\ Provider(b) \in ahead)
Streak(r) == IF Unhealthy(r) THEN fails[r] ELSE 0
DemoteUnhealthy(refs) == Sorted(refs, LAMBDA a, b : Streak(a) < Streak(b))
Rank(refs) == DemoteUnhealthy(PaceDemote(CoalesceBySlug(refs)))

\* top_k.
Capped(refs, k) == IF k \in {None, 0} THEN refs ELSE Cut(refs, k)
\* Mutant: the list is cut before the failing models are moved back.
TopFirst(refs, k) == Rank(Capped(refs, k))
\* The ranked list, cut to top_k.
Top(refs, k) == Capped(Rank(refs), k)

\* The place a round robin begins at.  A counter that once met an empty list is
\* NaN for good.
Turn(refs, counter) == IF counter = NaN \/ Len(refs) = 0 THEN NaN ELSE counter % Len(refs)
Turned(refs, i) == IF i = NaN THEN refs ELSE SubSeq(refs, i + 1, Len(refs)) \o SubSeq(refs, 1, i)
After(i) == IF i = NaN THEN NaN ELSE i + 1

\* resolveGroup, up to its sort.
Candidates(g) ==
    Only(ApplyGroupFilters(Only(Discovered, {r \in Refs : g.models = {} \/ r \in g.models}), g),
         {r \in Refs : HasBudget(r)})

\* Its sorts; a pipeline ranks and cuts after every step.
Piped(pipeline, refs) ==
    LET list[i \in 0 .. Len(pipeline)] ==
            IF i = 0 THEN refs ELSE Top(SortBy(list[i - 1], pipeline[i].method), pipeline[i].topK)
    IN list
Ordered(g, refs, counter) ==
    CASE g.method = "roundrobin" -> Turned(refs, Turn(refs, counter))
      [] g.method = "best" -> SortBest(refs, g.scoreBy)
      [] g.method = "tiered" -> SortByBillingPreference(refs, g.preference)
      [] OTHER -> SortBy(refs, g.method)
Result(g, refs, counter) ==
    IF g.method = "pipeline"
    THEN Piped(g.pipeline, refs)[Len(g.pipeline)]
    ELSE Top(Ordered(g, refs, counter),
             IF g.method \in {"roundrobin", "best", "tiered"} THEN None ELSE g.topK)
ResultOf(name, refs, counters) ==
    [list |-> Result(group[name], refs, counters[name]),
     rr |-> IF group[name].method = "roundrobin"
            THEN [counters EXCEPT ![name] = After(Turn(refs, @))] ELSE counters]

\* resolveGroup: the list of a group and the counters it leaves.
ResolveGroup(name, counters) == ResultOf(name, Candidates(group[name]), counters)

Fallbacks(name) == IF group[name].fallbacks = None THEN << >> ELSE group[name].fallbacks

\* The list of one more group of a chain meets what was found so far.
HealthyFirst(list) == list # << >> /\ ~Unhealthy(Head(list))
Considered(found, next) ==
    CASE ~found.begun -> [list |-> next.list, rr |-> next.rr, begun |-> TRUE,
                          empty |-> next.list = << >>, done |-> HealthyFirst(next.list)]
      [] found.begun /\ next.list # << >> /\ (found.empty \/ HealthyFirst(next.list))
           -> [found EXCEPT !.list = next.list, !.rr = next.rr, !.done = TRUE]
      [] OTHER -> [found EXCEPT !.rr = next.rr]

\* resolve: the group itself when its best is healthy; else its fallback groups
\* in order, the first with a healthy best, or the first with any when the group
\* has none; else the group as it is.
Asked(found, n) == IF found.done THEN found ELSE Considered(found, ResolveGroup(n, found.rr))
Chained(name, counters) ==
    LET chain == <<name>> \o Fallbacks(name)
        found[i \in 0 .. Len(chain)] ==
            IF i = 0 THEN [list |-> << >>, rr |-> counters, begun |-> FALSE, empty |-> TRUE,
                           done |-> group[name].method = "dynamic"]
            ELSE Asked(found[i - 1], chain[i])
    IN found
Resolve(name, counters) == Chained(name, counters)[Len(Fallbacks(name)) + 1]

\* The list of a turn: the models of its group, or of "simple" when there are
\* none, then what its fallback groups add.
Adding(sofar, next) ==
    [list |-> sofar.list \o Only(next.list, Refs \ ToSet(sofar.list)),
     rr |-> next.rr]
Served(sofar, n, first) ==
    IF n \in Names /\ first = (sofar.list = << >>) THEN Adding(sofar, Resolve(n, sofar.rr)) ELSE sofar
Gathered(name) ==
    LET chain == <<name, "simple">> \o Fallbacks(name)
        sofar[i \in 0 .. Len(chain)] ==
            IF i = 0 THEN [list |-> << >>, rr |-> rr] ELSE Served(sofar[i - 1], chain[i], i <= 2)
    IN sofar
TurnList(name) == Gathered(name)[Len(Fallbacks(name)) + 2]

-----------------------------------------------------------------------------
\* The table of a group shows one row per model, whatever the group lists.
\* pickSlugClusterRepresentatives: a ref that is not cooling down beats one that
\* is, a true name beats an alias, and the place decides.
Shows(refs, cooling, a, b) ==
    CASE (a \in cooling) # (b \in cooling) -> b \in cooling
      [] (a \in cooling) = (b \in cooling) /\ Canonical(a) # Canonical(b) -> Canonical(a)
      [] OTHER -> Place(refs, a) < Place(refs, b)
Representatives(refs, cooling) ==
    LET firsts == Only(refs, {r \in ToSet(refs) : \A x \in ToSet(refs) :
                                SameSlug(x, r) => Place(refs, r) <= Place(refs, x)})
        Row(r) == CHOOSE x \in ToSet(refs) :
                    /\ SameSlug(x, r)
                    /\ \A y \in ToSet(refs) \ {x} : SameSlug(y, r) => Shows(refs, cooling, x, y)
    IN [i \in DOMAIN firsts |-> Row(firsts[i])]

\* The live sorts without pace and round robin; the last step of a pipeline does
\* not cut.
Shown(pipeline, refs) ==
    LET Step(list, i) == Capped(DemoteUnhealthy(SortBy(list, pipeline[i].method)),
                                IF i = Len(pipeline) THEN None ELSE pipeline[i].topK)
        list[i \in 0 .. Len(pipeline)] == IF i = 0 THEN refs ELSE Step(list[i - 1], i)
    IN list
DisplayOrder(g, refs) ==
    CASE g.method = "best" -> SortBest(refs, g.scoreBy)
      [] g.method = "tiered" -> SortByBillingPreference(refs, g.preference)
      [] g.method = "pipeline" -> Shown(g.pipeline, refs)[Len(g.pipeline)]
      [] OTHER -> SortBy(refs, g.method)
Table(rows, cooling) ==
    DemoteUnhealthy(Only(rows, Refs \ cooling)) \o Only(rows, cooling)
GetTopModels(n, cooling) ==
    Table(Representatives(CoalesceBySlug(DisplayOrder(group[n], ApplyGroupFilters(Discovered, group[n]))),
                          cooling), cooling)

\* The first hundred rows of every table, one table behind the other.
Rows(cooling) ==
    LET Step(rows, n) == IF group[n].method = "dynamic" THEN rows ELSE rows \o Cut(GetTopModels(n, cooling), 100)
        rows[i \in 0 .. Len(Order)] == IF i = 0 THEN << >> ELSE Step(rows[i - 1], Order[i])
    IN rows[Len(Order)]

-----------------------------------------------------------------------------
\* A HINT names a model.  isRefUsable, as far as the registry tells.
Usable(r) == r \in ToSet(Catalog) /\ (IsLocal(r) \/ HasKey(r))
HigherGdp(a, b) ==
    Model[a].gdp # None /\ (Model[b].gdp = None \/ Model[a].gdp > Model[b].gdp)

\* Discovered refs of that name, then those the registry finds, blocked and
\* excluded ones too; when there are none the first row of the tables whose name
\* differs in case and separators only.
Matches(h, rows) ==
    LET found == Only(Discovered, h.names)
        direct == found \o Only(Catalog, h.names \ ToSet(found))
    IN IF direct = << >> THEN Cut(Only(rows, h.spelled), 1) ELSE direct
RankHintCandidates(refs) ==
    LET usable == {r \in Refs : Usable(r)}
    IN Sorted(Only(refs, usable), HigherGdp) \o Sorted(Only(refs, Refs \ usable), HigherGdp)

\* The ref asked for with its provider comes first when it can be used; a few of
\* the best others follow.  The code asks pi for keys on the way, and nothing the
\* list depends on changes here meanwhile.
HintedList(h, rows) ==
    LET named == RankHintCandidates(Matches(h, rows))
        first == Only(named, {r \in {h.exact} : Usable(r)})
        siblings == first \o Only(named, Refs \ ToSet(first))
        spare == Only(offers, {r \in Refs : ~IsBlocked(r) /\ ~Excluded(r) /\ Usable(r)} \ ToSet(named))
    IN IF named = << >> THEN << >> ELSE siblings \o Cut(Sorted(spare, HigherGdp), MaxSpare)

-----------------------------------------------------------------------------
\* The generation.  What it starts from: free models, scanned ones, the registry,
\* as far as they can be streamed; those without a score only when they are
\* listed as free.
Streamable(r) == IsLocal(r) \/ (HasKey(r) /\ r \in ToSet(FreeModels) \cup ToSet(offers))
AllModelRefs ==
    LET listed == FreeModels \o Only(Scanned, Refs \ ToSet(FreeModels))
    IN listed \o Only(offers, Refs \ ToSet(listed))
WithMetadata ==
    Only(AllModelRefs, {r \in Refs : /\ ~Excluded(r) /\ Streamable(r)
                                     /\ r \in ToSet(FreeModels) \/ Model[r].gdp \notin {None, 0}})

\* collapseSameSlugClusters: of one provider's refs with one slug the first with
\* the true name stays, or the first.
Foremost(refs, r, Alike(_, _)) ==
    \A i \in DOMAIN refs : Alike(refs[i], r) /\ refs[i] # r =>
        IF Canonical(refs[i]) = Canonical(r) THEN i > Place(refs, r) ELSE Canonical(r)
CollapseSameSlugClusters(refs) ==
    LET First(r) == \A x \in ToSet(refs) : SameModel(x, r) => Place(refs, r) <= Place(refs, x)
        firsts == Only(refs, {r \in ToSet(refs) : First(r)})
    IN [i \in DOMAIN firsts |-> CHOOSE x \in ToSet(refs) : SameModel(x, firsts[i]) /\ Foremost(refs, x, SameModel)]

FilterModelsForGroup(refs, g) ==
    Only(refs, {r \in Refs : Listed(r, g) /\ Admits(refs, r, g)})

\* sortModelsForGroup; a column ranks those that have a value for it first.
FreeFirst(a, b) == Model[a].free /\ ~Model[b].free
SortModelsForGroup(refs, g) ==
    LET Score(r) == IF g.scoreBy # None /\ Model[r].column # None THEN Model[r].column ELSE Gdpval(r)
        Profiled(r) == g.scoreBy = None \/ Model[r].column # None
        Best(a, b) == (Profiled(a) /\ ~Profiled(b)) \/ (Profiled(a) = Profiled(b) /\ Score(a) > Score(b))
        Cheap(a, b) == \/ FreeFirst(a, b)
                       \/ ~FreeFirst(b, a) /\ (Cheaper(a, b) \/ (SameCost(a, b) /\ Score(a) > Score(b)))
        Tiered(a, b) == \/ Gdpval(a) > Gdpval(b)
                        \/ Gdpval(a) = Gdpval(b) /\ FreeFirst(a, b)
                        \/ /\ Gdpval(a) = Gdpval(b) /\ ~FreeFirst(b, a)
                           /\ Score(a) > Score(b) \/ (Score(a) = Score(b) /\ Cheaper(a, b))
    IN CASE g.method \in {"best", "max_gdpval"} -> Sorted(refs, Best)
         [] g.method = "min_cost" -> Sorted(refs, Cheap)
         [] g.method = "tiered" -> Sorted(refs, Tiered)
         [] OTHER -> refs

\* collectGroupModels: the curated models that pass the gates, each for itself,
\* then one ref of every other model.  identityKey: a model is a slug, or the
\* base tokens of a name that nothing matched, at whatever providers.
IdentityKey(r) == IF Slug(r) # None THEN Slug(r) ELSE Model[r].signature
SameIdentity(a, b) == IdentityKey(a) = IdentityKey(b)
Curated(g) == {r \in g.models : Model[r].gdp # None /\ ApplyGroupFilters(<<r>>, g) # << >>}

\* Mutant: a name that nothing matched is a model of its own.
UnmatchedStay(g, sorted) ==
    Curated(g) \cup {r \in ToSet(sorted) : /\ \A c \in Curated(g) : ~SameSlug(c, r)
                                          /\ Foremost(sorted, r, SameSlug)}
CollectGroupModels(g, sorted) ==
    Curated(g) \cup {r \in ToSet(sorted) : /\ \A c \in Curated(g) : ~SameIdentity(c, r)
                                          /\ Foremost(sorted, r, SameIdentity)}

\* Mutant: the gates see every alias, and of those that pass one stays.
GatesFirst(g) ==
    CollectGroupModels(g, SortModelsForGroup(CollapseSameSlugClusters(FilterModelsForGroup(WithMetadata, g)), g))
ListOf(g) ==
    CollectGroupModels(g, SortModelsForGroup(FilterModelsForGroup(CollapseSameSlugClusters(WithMetadata), g), g))

\* computeFallbackGroups: the next better group first, after the best the next
\* weaker; a chain that is given stays.
Quality(g) ==
    CASE g.maxCost = 0 -> 0
      [] g.maxCost # 0 /\ g.minGdpval # None -> g.minGdpval
      [] OTHER -> 750
Eligible ==
    Sorted(Only(Order, {n \in Names : Group[n].method # "dynamic"}),
           LAMBDA a, b : Quality(Group[a]) < Quality(Group[b]))
ComputeFallbackGroups(n) ==
    LET i == Place(Eligible, n) IN
    IF Group[n].fallbacks # None THEN Group[n].fallbacks
    ELSE SubSeq(Eligible, i + 1, Len(Eligible)) \o Reverse(SubSeq(Eligible, 1, i - 1))

Generated ==
    [n \in Names |-> IF Group[n].method = "dynamic" THEN Group[n]
                     ELSE [Group[n] EXCEPT !.models = ListOf(Group[n]), !.fallbacks = ComputeFallbackGroups(n)]]

-----------------------------------------------------------------------------
Init ==
    /\ BlocklistInit
    /\ scene \in Scenes
    /\ offers \in scene.registries
    /\ group = Group
    /\ fails = [r \in Refs |-> 0]
    /\ ahead = {} /\ spent = {}
    /\ rr = [n \in Names |-> 0]

\* A turn is routed: no attempt yet, the counters have moved.
Route(name) ==
    /\ rr' = TurnList(name).rr
    /\ UNCHANGED <<blockVars, tables, fails, ahead, spent>>

\* An attempt fails, in this turn or in one that is still streaming; without a
\* text only the streak of the model grows.
Fails(r) ==
    /\ r \in scene.failing
    /\ fails' = [fails EXCEPT ![r] = IF @ < MaxFails THEN @ + 1 ELSE MaxFails]
    /\ \/ \E t \in scene.texts[r] : RecordBlocklistFailure(r, t)
       \/ UNCHANGED blockVars
    /\ UNCHANGED <<tables, ahead, spent, rr>>

\* recordOk.
Answers(r) ==
    /\ fails' = [fails EXCEPT ![r] = 0]
    /\ RecordBlocklistSuccess(r)
    /\ UNCHANGED <<tables, ahead, spent, rr>>

\* "/router blocklist clear".
Clears ==
    /\ ClearBlocklist \/ \E r \in Refs : RecordBlocklistSuccess(r)
    /\ UNCHANGED <<tables, fails, ahead, spent, rr>>

\* A quarter of an hour without a failure of r, an hour, a week; or a block ends.
Passes(r) ==
    /\ fails' = [fails EXCEPT ![r] = 0]
    /\ Hour(r) \/ Week(r) \/ UNCHANGED blockVars
    /\ UNCHANGED <<tables, ahead, spent, rr>>
Ends(r) ==
    /\ Expire(r)
    /\ UNCHANGED <<tables, fails, ahead, spent, rr>>

\* The usage log grows or a budget window begins.
Spends ==
    /\ ahead' \in SUBSET scene.budgeted /\ spent' \in SUBSET scene.metered
    /\ UNCHANGED <<blockVars, tables, fails, rr>>

\* A scan hands its configuration over: what is listed and the fallback groups,
\* unless no model has a score.  pi's registry changes.
Regenerate ==
    /\ scene.generates /\ WithMetadata # << >>
    /\ group' = Generated
    /\ UNCHANGED <<blockVars, scene, offers, fails, ahead, spent, rr>>
RegistryChanges ==
    /\ offers' \in scene.registries
    /\ UNCHANGED <<blockVars, scene, group, fails, ahead, spent, rr>>

Next ==
    \/ \E n \in Names : Route(n)
    \/ \E r \in Refs : Fails(r) \/ Answers(r) \/ Passes(r) \/ Ends(r)
    \/ Clears \/ Spends \/ Regenerate \/ RegistryChanges
Spec == Init /\ [][Next]_vars

-----------------------------------------------------------------------------
Static == {n \in Names : group[n].method # "dynamic"}
Chain(n) == {n} \cup ToSet(Fallbacks(n))

\* What a group may serve, said without an order of steps: discovered refs that
\* no better variant of the same model stands for, through every gate, in budget.
PoolOf(g) ==
    LET offered == {r \in ToSet(Discovered) : (g.models = {} \/ r \in g.models)}
        listed == {r \in offered : Listed(r, g)}
        asked == Only(Available, offered)
    IN {r \in listed : /\ \A x \in listed \ {r} : SameModel(x, r) => Better(Available, r, x)
                       /\ Admits(asked, r, g) /\ HasBudget(r)}
Pool(n) == PoolOf(group[n])

\* Nobody gets a list exactly when no group of the chain has a model; the first
\* of the list is a failing model only when every model of every group of the
\* chain is failing, or the group itself has none; and inside a list no failing
\* model comes before a working one, nor one ahead of its pace before one that
\* is not.
FirstIsHealthy(n, list) ==
    /\ (list = << >>) <=> (\A m \in Chain(n) : Pool(m) = {})
    /\ (list # << >> /\ Pool(n) # {} /\ Unhealthy(Head(list)))
          => \A m \in Chain(n) : \A r \in Pool(m) : Unhealthy(r)
    /\ \A i, j \in DOMAIN list : i < j =>
          /\ Streak(list[i]) <= Streak(list[j])
          /\ (Streak(list[i]) = Streak(list[j]) /\ Provider(list[i]) \in ahead)
                => Provider(list[j]) \in ahead

\* The walk gets every working model that the group or one of its fallback
\* groups may serve and that no top_k cuts off, each once, and only models
\* some group may serve.
CutOff(m) ==
    group[m].topK # None \/ \E i \in DOMAIN group[m].pipeline : group[m].pipeline[i].topK # None
NothingLost(n, list) ==
    /\ IsInjective(list)
    /\ \A m \in Chain(n) \cap Static : \A r \in Pool(m) : ~Unhealthy(r) /\ ~CutOff(m) => r \in ToSet(list)
    /\ ToSet(list) \subseteq UNION {Pool(m) : m \in Names}

\* The table has one row for every model that the gates admit, listed or not, and
\* a row that cools down only where every ref of its model does; a pipeline may
\* cut models off before its last step.
CutShort(g) ==
    /\ g.method = "pipeline"
    /\ \E i \in 1 .. Len(g.pipeline) - 1 : g.pipeline[i].topK \notin {None, 0}
TableTells(n, cooling, rows, admitted) ==
    /\ \A i, j \in DOMAIN rows : i # j => ~SameSlug(rows[i], rows[j])
    /\ ~CutShort(group[n]) => \A r \in admitted : \E i \in DOMAIN rows : SameSlug(rows[i], r)
    /\ ~CutShort(group[n]) => \A i \in DOMAIN rows : rows[i] \in cooling =>
          \A r \in admitted : SameSlug(rows[i], r) => r \in cooling

\* Who names a model gets it before any other, from a provider that can serve it
\* when there is one, and one that some table shows when only the spelling of
\* the name is off; a blocked or excluded ref only goes to who names it.
HintServed(h, rows, list) ==
    LET named == {r \in h.names : r \in ToSet(Catalog) \cup ToSet(Discovered)}
        shown == h.spelled \cap ToSet(rows)
    IN
    /\ (list = << >>) <=> (named = {} /\ shown = {})
    /\ named = {} /\ shown # {} => Head(list) \in shown
    /\ \A r \in named : r \in ToSet(list) /\ (Usable(r) => Usable(Head(list)))
    /\ (h.exact \in named /\ Usable(h.exact)) => Head(list) = h.exact
    /\ \A i, j \in DOMAIN list : i < j /\ list[j] \in named => list[i] \in named
    /\ \A r \in ToSet(list) : Excluded(r) \/ IsBlocked(r) => r \in named

\* A turn is not sent to a failing, blocked or unaffordable model while the
\* chain of its group has a better one, whatever failures, expiries, budgets
\* and other turns came before, nor is the table silent about one (resolve,
\* resolveGroup, fallbackGroupCandidates, rankHintCandidates, getTopModels).
TurnsServed ==
    /\ \A n \in Static : /\ FirstIsHealthy(n, Resolve(n, rr).list) /\ NothingLost(n, TurnList(n).list)
                         /\ \A cooling \in scene.cooling : TableTells(n, cooling, GetTopModels(n, cooling),
                                                               PoolOf([group[n] EXCEPT !.models = {}]))
    /\ \A cooling \in scene.cooling : \A h \in Hints, rows \in {Rows(cooling)} :
          HintServed(h, rows, HintedList(h, rows))

\* What a generation writes: the curated models that pass the gates, and of
\* every other model, be it a slug or the tokens of a name nothing matched, one
\* ref of one provider, that passes them too; no alias stands in for the
\* true name at its provider, which may be dearer; nothing that passes is
\* forgotten; and a chain that nobody gave leads to every group, upwards first
\* (collapseSameSlugClusters, collectGroupModels, computeFallbackGroups).
Written(g, list) ==
    LET pool == ToSet(WithMetadata)
        TrueName(r) == \A x \in pool : SameModel(x, r) /\ Canonical(x) => Canonical(r)
        reps == CollapseSameSlugClusters(WithMetadata)
        Fits(r) == Listed(r, g) /\ Admits(reps, r, g)
        new == list \ Curated(g)
    IN /\ Curated(g) \subseteq list
       /\ \A r \in new : r \in pool /\ TrueName(r) /\ Fits(r)
       /\ \A r \in new : \A x \in list \ {r} : ~SameIdentity(r, x)
       /\ \A r \in ToSet(reps) : Fits(r) => \E x \in list : SameIdentity(x, r)
Upwards(n, chain) ==
    /\ ToSet(chain) = Static \ {n} /\ IsInjective(chain)
    /\ \A i, j \in DOMAIN chain : i < j =>
          LET q == Quality(Group[n])  a == Quality(Group[chain[i]])  b == Quality(Group[chain[j]])
          IN \/ a >= q /\ b <= q
             \/ a >= q /\ b >= a
             \/ a <= q /\ b <= a
\* Every list a generation hands over serves its group as said above, and a
\* given chain is kept (generateDynamicConfigNow).
ListsServe ==
    [][group' # group =>
         \A n \in Static : /\ Written(Group[n], group'[n].models)
                           /\ IF Group[n].fallbacks = None THEN Upwards(n, group'[n].fallbacks)
                                                          ELSE group'[n].fallbacks = Group[n].fallbacks]_vars
=============================================================================
