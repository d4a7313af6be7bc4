# TLA+ models of pi-model-dynamic-router

The router is a pi extension. It registers virtual models ("groups"), and for
every turn it picks a real model, streams its answer, and fails over to other
models when one is limited, silent, broken or too small. This directory holds
TLA+ modules translated from its source, TLC configurations that check them on
small instances, and TLAPS proofs of what matters most. PROJECT.json maps
every definition to the lines it models.

## Inventory

One process, one JavaScript event loop. Between two awaits a function runs
alone; at an await anything may run: other turns, subagent sessions, tool
sub-calls, scans. Several processes share the cache and configuration files.

| component | state | operations | hard behaviour |
|---|---|---|---|
| circuit breaker (`provider-breaker.ts`, wired in `index.ts`) | evidence per model, `open_until`, `trip_count` per provider, kill switch | record failure / success, open?, clear, reload | late failures of walks that began before it opened; windows; ladder limits |
| rate limits and health (`rate-limit.ts`, `limit-glue.ts`, `model-health.ts`) | cooldown per ref with hits and reset, streak per ref, cost multiplier per provider | record limit / soft failure / day cap / ok, look (deletes expired entries), clear, reload | overwrites of concurrent records, lazy deletion, decay, midnight |
| learned blocklist (`model-blocklist.ts`) | blocks and streaks per ref, by failure signature | record failure / success, clear, expire | remnants that convict later |
| candidate walk (`stream-orchestrator.ts`, `tryStream` of `stream-proxy.ts`) | candidates left, errors, visited groups, open attempts; shared local slots and skip reasons | skip, probe, open, consume, wait, retry, nested walk, cascade, last resorts | checks before an await used after it, shared maps, slot release on every path, termination |
| stream consumption (`consumeWithDetection`) | held events, timers, flags of one attempt | upstream events, timeouts, aborts, classification | a timer racing a late event, two terminal events, held content lost |
| turns and sessions (`turn-state.ts`, `event-handlers.ts`, `subcall-scope.ts`) | per-session LRU stores, live session contexts | session start / end, turn start / end, model selection | a subagent session ending while the parent streams, eviction |
| loop escalation (`escalation.ts`) | level, streak, turn counter, pending flag, the open check | record turn, asynchronous check, reset | a check resolving after reset or after another escalation |
| cache persistence (`cache.ts`, `session-errors.ts`) | in-memory cache, global file, project file | load, save with merge, append, debounced save | concurrent processes, a crash between the files, merges that lose or resurrect entries |
| scan and generated configuration (`scan-runner.ts`, `scan-sanity.ts`, `dynamic-config*.ts`) | inventory, fingerprints, snapshot, queue of generations, settle retry | scan, settle, retry, generate, refuse, accept | overlapping scans, a registry that is not ready, stale fingerprints |
| configuration (`config-loader.ts`, `user-config-store.ts`, `dynamic-config.ts`) | three layers of files, the snapshot, the live configuration | load, resync, stub, commands, metrics tool | what was dropped lives on; what is known is lost |
| routing (`routing.ts`, `budget*.ts`, `exclude.ts`) | round robin counters, tables | rank, filter, resolve a group, fallback groups, HINT, table, generated lists | order of cuts and demotions, aliases, mutual fallbacks |
| classifier chain (`content-classifier.ts`, `laya-classifier.ts`, probes, `ollama-utils.ts`) | answer cache, availability of two daemons, lists of verified models | classify, detach, probe | overlapping calls, late answers, negative caches, contexts |
| scores and prices (`metrics.ts`, `scan-runner.ts`, `cache.ts`) | mirror and cache of scores, kept costs, prices | load, scrape, estimate, look up, save, merge | sources in any order, placeholders taken for values, aliasing of two maps |
| registration (`group-registration.ts`) | what pi has for the daemon, who owns a provider's name | session start, extension load | a registration replaces all that was there |
| texts, matching, context budget, costs, delegation, commands, reports | mostly pure data | | wording and heuristics; little control |

### What makes each correct

- Breaker: opens only on enough distinct failing models, never on one slow
  model; never prolonged by late failures; always ends; the ladder restarts
  after a success or a quiet window; the kill switch spares local providers.
- Rate limits: a cooldown covers the reset it knows; it ends early only for a
  named reason; every model becomes eligible again once failures stop.
- Blocklist: a block is earned by what the model did since it last answered.
- Walk: returns; terminates its proxy; gives every local slot back once;
  respects the slot limit; enters no group twice.
- Consumption: at most one terminal event reaches the user, a success is complete,
  a failed attempt leaks nothing it withheld, an old attempt is silent.
- Sessions: what a session remembers is its own and stays while its entry must; a
  follow-up continues the prompt's run; a child never takes the parent's context with it.
- Escalation: a stale check changes nothing; one incident raises one level.
- Persistence: a process keeps what it recorded; a recorded error reaches the
  disk; volatile state never leaves the process.
- Scan and snapshot: an early result never replaces a good one; what counts as
  current is; every scan ends.
- Configuration: a process lives by the files; no provider loses the billing
  that a file, a snapshot or a generation gave it.
- Routing: a group with a usable model serves it before failing ones; generated
  lists miss nothing and no alias hides a dearer model.
- Classifier: a turn is decided by its own prompt and session; only what decided
  a turn is cached; everything ends; probes neither starve nor repeat.
- Scores and prices: the curated score wins, the newest page replaces older ones;
  no placeholder passes for a price.
- Registration: nothing pi knows is replaced or doubled.

## Modules

| module | models | relation to the others |
|---|---|---|
| `CircuitBreaker` | what ADR-0026 promises, without clocks | abstract specification |
| `ProviderBreaker` | `provider-breaker.ts` as `index.ts` and `limit-glue.ts` drive it | implements `CircuitBreaker` |
| `RateLimit` | `rate-limit.ts`, `model-health.ts`, `limit-glue.ts` | its times are free choices in `StreamWalk` |
| `StreamWalk` | `walkCandidates`, `driveStream`, `tryStream` | abstracts the two above and `ConsumeDetection` |
| `ConsumeDetection` | `consumeWithDetection` of `stream-proxy.ts`, several attempts on one proxy | the "stream" await of `StreamWalk` |
| `Sessions` | `turn-state.ts`, the handlers of `event-handlers.ts`, the turn fields of the Router, the run memory | its streams are the walks of `StreamWalk` |
| `Escalation` | `escalation.ts` | fed by the turn ends of `Sessions` |
| `Lists` | stable sort, filter, place and cut of a list | used by `Routing`, `Classifier` and `Probes` |
| `Blocklist` | `model-blocklist.ts` | a specification of its own, and part of `Routing` |
| `Routing` | `routing.ts`, the demotions, the fallback groups, `hint-resolution.ts`, the lists of a generation | extends `Blocklist`; its lists are the candidates of `StreamWalk` |
| `Classifier` | `content-classifier.ts`, the Laya stage, the local leg | its categories choose the group in `Sessions` |
| `Probes` | the probes of a scan for the classifier | extends `Classifier` |
| `ScanCache` | `cache.ts`, `session-errors.ts` in several processes | holds the state of breakers, blocks and scans on disk |
| `DynamicConfig` | when a scan generates, refuses, retries and accepts | its lists are made in `Routing`, its merge in `ConfigLayers` |
| `ConfigLayers` | layers, merge, snapshot, resync, commands, the metrics tool | several processes on the same files |
| `Leaderboard` | how a page becomes scores and profiles | pure; used by `Metrics` |
| `Metrics` | `metrics.ts` and all that feeds it | extends `Leaderboard` |
| `Registration` | `group-registration.ts` | extends `Metrics`: the start of a session does both |
| `RateLimitProofs`, `StreamWalkProofs`, `ConsumeDetectionProofs`, `SessionsProofs`, `RoutingProofs`, `ScanCacheProofs`, `RegistrationProofs` | proofs | each extends the module it is named after; `RateLimitProofs` holds those of `ConfigLayers` too, `StreamWalkProofs` those of `DynamicConfig`, `SessionsProofs` those of `Escalation`, `RoutingProofs` those of `Blocklist`, `ScanCacheProofs` those of `Classifier` and `Probes`, `RegistrationProofs` those of `Leaderboard`, `Metrics` and `ProviderBreaker` |
| `ListsProofs` | lemmas on sorts, filters, cuts and on induction along a list | extended by `RoutingProofs`, `ScanCacheProofs` and `RegistrationProofs` |
| `MC...` | instances for TLC | |

A definition whose comment begins with "Mutant" is a changed form of the
definition after it, with a bug such code could have. PROJECT.json names the
property that fails when the one takes the place of the other.

### Breaker

`age[m]`, `since[p]` and `tripCount[p]` are the differences the code computes
from its timestamps, saturated where the code stops telling them apart. So the
state space is finite without a bound on the clock, and an open breaker is
`since[p] < 0`. `RecordProviderFailure` is the whole of the function of that
name behind `observeProviderFailure`, including the early returns for kinds
and texts that are no evidence. `Reload` flips the kill switch,
`ClearBreakers` stands for the command and for a restart, which the volatile
key of `cache.ts` makes the same thing.

### Rate limits

`left`, `hits` and `resetIn` are a `RateLimit` entry; the entry is absent when
all are 0. `Look` is the deletion of an expired entry that every read
performs. `fails` and `quiet` are the health record. A failure is enabled in
every state because attempts in flight outlive the cooldown of their model.

### Candidate walk

`walk[w]` is one outer `driveStream` call: `pc` says which await it is at,
`mode` whether the attempt is the ordinary one, the wait-for-reset retry, the
forced probe or the collapse retry. A nested `driveStream` is always the last
thing its caller does, so it continues the same record, and `stack` keeps what
the callers' `finally` blocks still have to release. `Resumes` is the event
loop: a walk continues after an await only when no other walk is between two
awaits. Cooldowns and breakers are sets here; a member may leave at any time.

### Stream consumption

`at[a]` is one call of `consumeWithDetection`, `proxy` what the user's stream
has received, in order. One action is one upstream event together with the
verdict it leads to, as the handler and the code behind the race run without an
await. `abandoned` is the flag of a loop that lost the race against its timer:
it goes on reading while the next attempt writes. Texts are reduced to what they
match (tool markup, overflow, repetition).

### Sessions

`turn` and `pin` are the two LRU stores of one entry per session, `live` and
`ctx` the known contexts. A session's `phase` is where pi is: it starts a turn,
streams, runs tools, delegates. Each stream is a process of its own (`streams`),
tied to the entry it was opened for. pi waits for a stream, also after an abort
(ADR-0017), so only a session that is killed or shut down leaves one behind.
Timestamps count turns. A follow-up sees which groups resolve now (`up`) and
continues in its run's group, the base group, or fails (`FollowUpGroup`); a prompt
with a hint is classified anew (`hinted`). `set_model_from_group` is two steps with
the await of pi between them (`Load`, `SetModel`).

History variables are read by properties only. `first` is the first model of the open
turn, and no eviction erases it; `others` who has used the Router's store since a
session last did, `crowded` for whom these were as many as it holds, `since` the first
model since the entry was last lost. `ran` is the group of the open prompt, `disturbed`
who lost a turn entry or left a stream behind.

### Escalation

One action per half of an exchange (`RecordTurn`), per answer of the local model
(`Answered`) and per new session (`Reset`). The turn counter is kept modulo its
cadence, the session counter as "the open check is of this session". The
`checks` and `evidence` variables are history.

### Blocklist

`block[r]` and `streak[r]` are the two maps of the cache; a failure text is its
signature, and the classes of texts (permanent, unknown, transient) are
constants. Ages are the three answers the code takes from them. `seen` is
history: what the model did since it last answered or was cleared.

### Routing

`Resolve` is `Router.resolve` with `resolveGroup`: discovery, gates, sort,
demotion by pace, cut, demotion by failures, fallback groups. It returns the list
with the round robin counters, since one turn resolves several groups in a row
(`TurnList`, as `driveStream` builds its candidates). `GetTopModels` is the table of
`/router`. `HintedList` is the list of a turn whose HINT names a model: what discovery
and the registry know by that name, else the first row of the tables (`Rows`) whose name
differs in case and separators only. The code asks pi for keys in between
(`stream-orchestrator.ts:733-772`); nothing that the list depends on is changed there in
the model, which makes it in one step.

`Discovered` applies the session's `scopedModels` (`Scoped`) as the code does: to the
lists of turns and tables, neither to the lists a generation writes nor to what a HINT
finds in the registry or gets as a spare.
`Regenerate` is `generateDynamicConfigNow`: it writes the lists and the fallback
groups of every group anew from what pi offers now.

The state is what changes between turns: failures, pace, budgets, counters,
blocks, pi's offers and the groups' lists. What is known of a model is a constant
record, and a scene says which of these events happen in it. Two models are one for a
generation (`SameIdentity`) when they have the same slug or, where nothing matched, the
same tokens in their names, whoever provides them.

### Classifier and probes

`call[id]` is one asynchronous run: the one that decides the turn, and the one it
may detach, for the log only. Each action is what happens between two awaits: the
deterministic stages with the start of the first request (`Start`), an answer or a
failure of Laya, of a cloud model, of the daemon check, of a local model
(`Advance`). `cache` is `classifyCache` in LRU order, `ollama` what the process
believes of its daemon. `Probes` adds the scan, which writes the chains the runs
read.

### Cache files

One action is one file operation of `loadCache` or `saveCache` with the memory it
changes, and processes interleave between them. The loads and saves are
synchronous in the source, so a process does nothing else in between. A rename is
atomic; a process may die before or after it, or the write may fail. `gsync` and
`psync` compare modification times: "stale" means another process has written
since. `own` is history: what a process recorded and did not take back.

### Scan and generation

`scan` is the guard `scanning` with the await it stands at, `queue` the promise
chain of generations (`serialized`), `retry` the settle timer. A version of the
static configuration stands for its fingerprint. `Verdict` is `scan-sanity.ts` in
full over the four counts of an inventory.

### Configuration

A configuration maps paths of keys to values; `LoadLayeredConfig` merges the
shipped, the user and the project file with the validation of each, `Prune` and
`Resync` bring a snapshot up to date, `Stubbed` adds the providers only the
registry knows. `proc[p]` keeps the live and the remembered static configuration
and whether both are one object (`alias`).

### Scores, prices, registration

A score is the name of its source: "builtin", "estimate" or a row of a page. The
mirror `gdpval` and `cache.gdpval_scores` are two variables with the flag `alias`
for the time after a scrape, when they are one object, so a write to one is a write
to the other exactly then. `pinned` is the cost kept of a model by `getM`. The scan
is four actions with awaits between them. `Leaderboard` translates the two
extractors of a page; `RatedBy` is their reference.

In `Registration`, `overlay` is the list registered for Ollama, which masks
`models.json`, and `owner` who has a provider's name. `StartsSession` is the
handler's publication, load, cache sync and both registrations in one step.

## Runs

| run | question | instance | properties |
|---|---|---|---|
| `breaker` | does the breaker keep its promise under every order of failures, successes, clears, reloads and ticks | a local provider with 2 models (2 trip it), a cloud provider with 3 (3 trip it), ladder 1, 2, 3, window 2 | `BreakerInv`, `NeverProlonged`, `CoolsDown`, `ImplementsCircuitBreaker` |
| `ratelimit` | are cooldowns kept, and does every model get another chance | a free and a paid model, hard ladder 2, 3, soft ladder 1, 2, day of 3 ticks | `RateLimitInv`, `NoEarlyRearm`, `SecondChance` |
| `walk` | does every walk terminate, release and report, alone and beside another | one walk over a local, a cloud and a free model in two groups that name each other and share the cloud one, with overflows that name a window or do not; or two walks on two groups with one local slot | `WalkInv`, `ProxyTerminated`, `NoGroupTwice`, `WalksReturn` |
| `consume` | is every attempt's output in order, complete and ended once | two attempts, three events each | `ConsumeInv`, `SuccessDelivered`, `MarkupWithheld`, `NoLateOutput`, `ProxyEnds` |
| `sessions` | does a child, a sub-call, a reload or an eviction disturb a session | a parent with two turns, a child with one, stores for one and for two | `DriverPinned`, `OwnState`, `ContextAlive`, `FollowUpContinues` |
| `escalation` | is one incident one raise, and a stale answer none | three levels, threshold 3, cadence 3 | `EarnedLevel`, `NoStackedRaise` |
| `persist` | does what a process records survive the others, and the breaker stay in it | two processes of one project, one ref, a ring of two errors, three time stamps, one death | `OwnKept`, `BreakerVolatile`, `RecordedPersists` |
| `configuration` | what may replace a snapshot, and does every scan end | four inventories on both sides of the thresholds, three scans, an edit, a crash, a reload | `SnapshotCurrent`, `GoodSnapshotKept`, `ScansEnd` |
| `layers` | does a process live by the files | two processes (symmetric), variants of the three files, three changes | `LivesByTheFiles`, `ProvidersKept` |
| `classifier` | whose answer decides and is cached, does everything end, are probes fair | two sessions with two prompts; or one prompt between two scans; answer cache of one | `OwnContext`, `CacheRouted`, `EveryoneReturns`, `ProbesServe` |
| `routing` | which list does a turn get after any history, and what does a generation write | six models, six groups, five scenes | `BlocksEarned`, `TurnsServed`, `ListsServe` |
| `metrics` | which score and price is believed after any order of sources, and what is registered | six slugs, four cloud and two local models, two pages, two configurations, four scenes | `ScoresRank`, `PricesHonest`, `PiKeeps` |

Some properties say what the code does where a comment promises more. In `consume` an
attempt behind whose content the upstream closes without a terminal event is a success,
and nothing ends the proxy (`ClosedSilently`); an abandoned attempt that rejects with an
AbortError pushes an end (`Intruders`). `WalksReturn` holds unless a model that
overflows without naming its window keeps coming out of its cooldown (`blind`).
`ProxyTerminated` is about a walk nobody ran beside (`Alone`), `DriverPinned` follows the
pin until its session is crowded out of the store, `ProvidersKept` names the load after
which an entry is missing. All are explained under "Known behaviour", and all of these
cases happen in the runs.

### Bounds and why they are enough

- Breaker: the two providers differ in all the code tells apart (local or cloud,
  trip count, kill switch). The ladder is longer than the window, so evidence
  ages out while a breaker is open; the last rung is reached and repeated.
- Rate limits: a second hit reaches the last rung of either ladder and a third
  repeats it (`MaxHits`). An announced reset can be longer and shorter than a
  rung, a day ends during a cooldown, a streak decays before a cooldown is over.
- Walk: the groups name each other as fallback, as generated configurations do;
  one slot is the limit with the most conflicts. The single walk has every retry
  and last resort and overflows, in either group, with and without a window in the
  text; the pair has every interleaving of awaits.
- Consumption: three events hold an opening, put something behind it and end, or not.
- Sessions: a second turn of the parent sees what the first left; a store of one evicts
  at every switch between the sessions, a store of two must not; of two streams in
  flight one may be left behind by its session (`MaxStreams`, `MaxTurns`).
- Escalation: the thresholds of the source, three levels as there.
- Persistence: two errors fill the ring and a third pushes one out; with two
  processes every pair of file operations meets (`MaxClock`, `MaxDeaths`).
- Configuration: the inventories lie on both sides of each threshold; three scans
  are a good one, an early one and its repetition (`MaxScans`, `MaxEdits`,
  `MaxRestarts`, `MaxReloads`).
- Layers: three changes are an edit, what another process does with it and its
  removal (`MaxChanges`).
- Classifier: two sessions that send the same words are the fewest that can take
  each other's context; a cache of one evicts at once; three cloud models of two
  providers against a list of two are the fewest where one provider could fill it.
- Routing: one model at two providers, an alias, a local one, and two of different
  providers that nothing matched and whose names have the same tokens; four groups that
  fall back on each other, one per way of making a list. The thresholds are smaller than
  the source's 5 and 2 (a block after `MinFailures` 2, unhealthy at `UnhealthyAt` 1),
  with a failure beyond each. Histories are exhaustive within a scene.
- Metrics: the older page has what the newer lacks and both order their rows against
  the names; a subscription, a paid model, its alias and one that is sometimes free.
  For the scores the extractor is proved against `RatedBy` for every page
  (`PagesReadAsRated`); for the profiles it was read against the pages of the scenes.

### Fairness

- `breaker`, `ratelimit`: only the clock is fair. Nothing forces a failure, a
  success or a look.
- `walk`: each walk's steps are weakly fair. The event loop runs every
  continuation, an open stream ends by its provider or by one of its two timers,
  a wait is a timer.
- `consume`: the timer of an attempt and the walk's continuation are weakly fair.
  An upstream owes nothing, so `ProxyEnds` rests on the timer alone.
- `persist`: the steps of a save are weakly fair, as a synchronous function runs to
  its end. The debounced timer is strongly fair: other loads and saves of the same
  process delay it, none cancels it.
- `configuration`: the awaits of a scan, the generations, the retry timer and the
  registry becoming ready are weakly fair. The settle time is strongly fair, since
  a crash starts it anew.
- `classifier`: every run's next step, the probe of the sidecar and the scan are
  weakly fair: each of their requests has a time limit of its own. The cloud probe
  has only a signal (`classifier-fallback-probe.ts:389`), which the runtime is
  assumed to honour.
- `sessions`, `escalation`, `layers`, `routing`, `metrics` have safety and action
  properties only.

A deadlock is an error except in five runs where the system may really stop: all
sessions may be gone (`sessions`), all bounded events may be used up (`persist`,
`configuration`, `layers`), all prompts may be classified (`classifier`).

## Proofs

Everything below holds for all values of the constants that satisfy the named
assumption of the module: sizes and ladders positive, sets within their types.

- **`BreakerInvariant`**: `BreakerInv` is inductive as it stands. Beyond types it
  says that whatever is open or half open has a trip on record; without that the
  ladder could be entered at a rung 0.
- **`BreakerNeverProlonged`** follows from one step: a failure opens only a
  breaker that is not open.
- **`BreakerRefinement`**: `ProviderBreaker` implements `CircuitBreaker`. An open
  breaker is phase "open", one within a window after its end "half open";
  suspects are the models with evidence younger than the window. The proof maps
  each operation to a step per provider: the failing provider trips, re-trips or
  holds, the others hold; the clock expires, lapses or fades.
- **`CooldownCoversReset`**: `RateLimitInv` is inductive; each operation that
  shortens a cooldown also replaces or deletes the reset its entry carries.
- **`OnlyLimitsRearm`** follows from it, one case per operation: only the HINT for this
  model, the clear command and a reload take a running entry away, and only a limit of
  the model itself replaces it, by its own full rung.
- **`SlotsAreAccounted`**: for any number of walks, groups, candidates and slots.
  A walk's record says which slots its open attempts hold (`Slotted`); the invariant
  is that the shared counter is the cardinality of the set of held slots (`Holders`),
  plus the types. It is a set and not a sum so that the library's theorems about
  cardinalities apply: every path that opens or releases a slot adds or removes one
  member. That a returned walk holds none, and that the limit is kept, follow.
- **`ProxiesEnd`** needs what each await owes the proxy: at which points of a walk
  its stream is still open, and what its silent skips left in the shared map. It
  excludes walks that had company, as the property does (`Alone`).
- **`CascadesNeverReturn`**: the groups a cascade has entered grow with it and
  contain every group on its path, so the next one is new. It assumes of the
  fallback orders only that they name groups.
- **`NothingOvertakes`**, **`MarkupIsWithheld`**, **`SuccessIsDelivered`**,
  **`LateOutputNever`**: for any number of attempts and events. The invariant ties
  three things per attempt: what the upstream sent, what is held, what is on the
  user's stream. `Follow` says that the items of an attempt appear on the stream in
  their order, `From` which they are; both speak of positions, because the prover
  knows nothing of filtered sequences. Each action appends the held items and at most
  one more, so the proof is one lemma on appending and a case per event.
  Upstreams may reject, fall silent, close silently and intrude; what a success still
  says then (all that was sent is on the stream, with its end if it had one) needs the
  positions once more.
- **`FirstModelDrives`**, **`StateIsOwn`**, **`ContextOutlivesChildren`**,
  **`FollowUpsContinue`**: for any sessions, turns, streams and store capacities.
  One inductive invariant gives all four. `Dated`: no time stamp is ahead of the
  session's turn and whatever is open belongs to a turn. `Pinned`: a turn that has
  recorded a model has it pinned with its own date, one that has not holds either no
  pin or one dated before its boundary, which is why the first record repins and no
  later one does. `Kept` says that the entry of a session that is not crowded out is
  there: behind it in the order are only sessions that used the store since (`Behind`),
  so fewer than it holds, and whatever is pushed out is at its head (`TouchBehind`).
  `Undisturbed`: a session that lost nothing has at most the one
  stream its turn waits for, so no stream left behind can change its run. The lemmas
  `WithoutProperties` and `TouchProperties` say what a Map does with a key that is
  deleted and set again; `StepPreserves` says once that a step of one session does
  nothing to another but push its entry out, which the history notes. A follow-up is
  proved for every set of groups that resolve.
- **`EscalationInvariant`**, **`EveryLevelEarned`**, **`RaisesNeverStack`**: the
  invariant adds two conjuncts to the types. `PendingMeaning`: the flag is set
  exactly while no check was begun since the streak raised. `CallMeaning`: an open
  check of this session saw a level not above today's, and if it can still raise,
  two checks were begun since the last raise. Neither is inductive without the
  other: a check copies the flag when it begins, and the level it saw tells
  whether the streak raised since.
- **`BlocksAlwaysEarned`**: `BlocksEarned` is not inductive, since a failure may
  block on the word of a streak. `StreaksCovered` adds that a streak is of an
  unknown text of a cloud model and counts nothing the history does not hold. Then
  each operation either writes what the history allows or erases both.
- **`RoutedBlocksEarned`**: the same for the whole of `Routing`. The lemma
  `RoutingDrivesBlocklist` maps every step of the router to a step of the
  blocklist or a stutter, so the invariant carries over.
- **`TurnsAlwaysServed`**: for any models, groups, chains of fallbacks, failures,
  budgets and counters. The invariant is only about types (`RoutingShape`): what a
  group resolves to is a function of the state, and the work is to open it. Every
  step of the pipeline either keeps a part of the list it got (a gate, a cut) or puts
  the same entries in another order (a sort, a demotion, a rotation), so a list never
  names what the group did not offer; a demotion puts the healthy before the failing.
  That carries along the chain of fallbacks and along the groups of a turn by
  induction over the length of what was gathered. The table and the HINT list add the
  removal of duplicates, the collapse of aliases and the rows put in front.
- **`GenerationsServe`**: a generated list keeps the curated models, forgets nothing
  that passes the gates, names each other model once, be it a slug or the tokens of an
  unmatched name, and by its true name; a chain that nobody gave leads to every group,
  upwards first. The list is built by collapsing clusters, and the lemmas follow which
  member stays (`Truer`, `Foremost`); the chain is two sorts put together, one of them
  reversed. `ListsAssumption` says that a generation finds each reference once, as it
  collects them into a Set, and that a pipeline has a step.
- **`ProbesAlwaysServe`**: no provider is asked again while another still waits to be
  asked, and the list of a local probe that has ended is kept for just the candidates
  the next scan will see, unless one of them was not asked. `TurnsAreFair` is the first
  part: the list is filled in rounds, and a provider that waits was in every round that
  is over. The second needs that all candidate lists are in one order
  (`CandidatesOrdered`), so that two lists with the same entries are the same list, and
  from `ProbeInv` that what was asked had been chosen before some of the marks were
  written. `ProbesAssumption` says that an inventory names a model once, as a scan
  replaces all that its provider had.
- **`SnapshotAlwaysCurrent`**: versions of the groups only grow. A generation
  carries one no newer than the loaded configuration, that is no newer than the
  file, and a snapshot's fingerprint is no newer than the groups it was built from;
  so a fingerprint equal to the file's leaves the groups no choice.
- **`GoodSnapshotsKept`** adds where an inventory came from: one that was taken
  before the registry was ready is marked early (`Honest`). The lemma `Verdicts`
  opens the sanity check once.
- **`RecordsAreKept`**, **`BreakerNeverSpreads`**: for any number of processes, any
  cap, any crashes and failed writes. The invariant says of each process that its
  memory keeps what it recorded (`Keeps`), and of the files and of the list a save is
  about to write that they fit the cap. It needs nothing of the sync marks: whatever a
  process takes for changed or unchanged, a merge or a capped union keeps what is its
  own. The work is in `NewestProperties`: a list cut to its newest entries still holds
  `Cap` newer ones for each entry it lost, by this cut or by an earlier one, which
  rests on the library's well-founded order of subsets. An empty list owns nothing
  (`NothingOwnedByEmpty`), so `mergeExternal` may take the file's whole.
- **`ContextsStayApart`**, **`OnlyRoutesAreCached`**: for any sessions, prompts,
  models and configurations and any size of the answer cache, while scans probe.
  `ClassifierInv` says that every cached answer is one no context had a part in
  (`Plain`), that a prompt is there once, and that a result is of its own session. The
  chains, the daemon and the probes are left free. `StoreKeeps` says what a run leaves
  in the cache: entries that were there, and the answer of a routed run beside them;
  `DecisionEnters` turns that into `CacheRouted`. It assumes that the mark for "no
  context" is no session, and a size above zero.

- **`FilesDecide`**, **`BillingSurvives`**: for any layers, paths and processes.
  `LivesByTheFiles` speaks of the process that loads now; what it needs is that a
  snapshot says nothing on its own account. `SnapshotAccounted` names the four sources
  of what a snapshot holds (remembered from the files, authoritative and dropped by the
  next load, learned, stubbed), `ProcAccounted` says the same of what a process would
  write into the next one, and `UpToDate` what a process that loaded today's layers has
  of them. `BillingSurvives` needs of every process (`EntriesInv`) that what only the
  files may say is in its configuration only when they said it, and that a generation
  that has put its stubs in and was met by no load still has an entry for each provider.
  They assume that files that can be read hold configurations (`FilesAssumption`), that
  the billing of every provider of the registry has a path, and that a report carries a
  value.
- **`PagesReadAsRated`**: for every page the two loops of the extractor compute
  `RatedBy`, the score a reader of the page would give each slug: its row of the board
  by name, else its card. The loops are recursive functions over the entries; that they
  exist and what they have read after so many entries is proved by induction over a set
  of numbers (`AlongTheList`, from the library's well-founded order of subsets), with one
  lemma per kind of write. The page must have the shape the scraper checks (`IsPage`).
- **`CuratedScoresWin`**: `ScoresRank` is about a lookup, which heals the mirror first,
  so the invariant `ScoresInv` is about the pair of mirror and cache, whoever holds it:
  all curated scores are there or a lookup notices that one is not (`Curated`), and what
  is there fits the newest page (`Fitting`), through the alias of the two objects
  (`Tidy`). `PagesAssumption` states for it what `metrics.ts:22` says, that the pages do
  not have the curated slugs, in the weakest form that suffices: one of them is missing
  on all pages.
- **`PlaceholdersNeverPass`**: `PricesInv` says where the configuration and the list of
  prices in use come from; then the lookups are opened one by one. Nothing is asked of
  what was believed before.
- **`RegistrationKeeps`**: for any spellings and scans. `RegInv` adds that a scan's local
  models are spelled as the daemon spells them and that pi's names are its own.
  `DaemonAssumption` says that no two spellings in a scene become one plain name.

Some definitions are written for the prover where another form would be shorter:
positions instead of `SelectSeq` in `ConsumeDetection` and in `Only` of `Lists`, the set
of slots instead of a sum in `StreamWalk`, `Without` as the removal of one position in
`Sessions` and `Classifier` (a Map holds a key once). Loops are recursive functions in
`Leaderboard` and `Routing`, as folds are opaque to the prover. CASEs have disjoint
guards, as an overlap has no defined value.

### Only model-checked

Every invariant and every action property of the runs has its theorem. Seven properties
have none, because they are liveness under fairness, which the prover cannot do:
`CoolsDown`, `SecondChance`, `WalksReturn`, `ProxyEnds`, `RecordedPersists`, `ScansEnd`
and `EveryoneReturns`. `BreakerRefinement` is about the safety of `CircuitBreaker`; that
an open breaker ends is `CoolsDown`. What the extractor makes of the profiles on a page
is read by no property, only its scores are.

The proofs take from the library the facts about finite sets and the well-founded order
of their subsets, and no fact about the program. Whether the modules say what the source
says is not proved: PROJECT.json names the lines to compare.

## Known behaviour no run is about

Noticed while modelling; each is modelled as the code has it, or named here
because its part is left out.

Limits and breakers

- `recordLimit` overwrites a longer cooldown of a concurrent failure with its own
  rung or reset (`NoEarlyRearm` names that exception).
- The backoff does not escalate over an expired cooldown: the lazy deletion
  (`rate-limit.ts:25`) forgets the hits.
- `load()` makes a new RateLimitManager, so a subagent's session start drops all
  cooldowns of the process (`Load`).
- The kill switch and the tuning are read from the live configuration
  (`stream-orchestrator.ts:203`), and `provider_breaker` is no resync key
  (`dynamic-config.ts:408`): while a snapshot fits, its older value stays in force,
  also through the next generation, which starts from the live configuration.
- A breaker whose time ends between the skip and the end of the walk turns off
  the forced probe: the walk ends with an error although nothing was attempted.

Walks and streams

- The reason of a silent skip lives in a map all walks share
  (`stream-orchestrator.ts:1130`): a second walk may take it away, and the first
  returns without a report. `ProxyTerminated` excludes walks that had company.
- A walk restarted after a context overflow begins with an empty set of visited
  groups and may enter a group a second time.
- Cooldown and breaker of a local candidate are not asked again after the await
  of the daemon probe.
- A wait-for-reset retry opens its stream while the limited attempt still holds
  its local slot, and so can be refused for its own sake.
- The probe and the collapse retry record the served model before it has opened.
- An abandoned upstream that rejects with an AbortError still pushes a terminal
  event (`stream-proxy.ts:743`), against the comment at 382-386.
- An upstream that closes without a terminal event behind content counts as an answer
  (`stream-proxy.ts:867-871`), and nothing ends the proxy. The comment at 853-858, that
  such a candidate is never reported as a success, is kept for upstreams that throw.
- After an overflow whose text names no window only the model's cooldown keeps the
  restarted walk from it (`stream-orchestrator.ts:1307-1313`). Two groups whose models
  all overflow so, at a pace at which the cooldowns run out, restart each other without
  end; that is the condition of `WalksReturn`.
- An upstream that lingers behind its `done` event would let the stall timer fire
  after the terminal event; pi-ai's streams close with it, and the model says so.

Sessions

- The driver pin is written before failover (`routing.ts:517`), so it may name a
  model that did not serve the turn.
- One SessionEscalation serves all sessions of the process, where its comment asks
  for one each: a child's start resets the parent's level.
- The counters that detect a compaction are one pair per process.
- `set_model_from_group` before `turn_end` books the turn's usage to the new model.
- A session that as many others as the store holds have outrun loses its pin, and the
  next model it records becomes its driver (`turn-state.ts:95`).
- A write of a stream left behind re-creates the entry its session's shutdown
  removed.
- LiveSessionContexts evicts its oldest entry when full: the main session.

Cache and configuration

- A second save in a row writes only the process's own entries over the file
  (`cache.ts:305`); deletions of one process return from another's file
  (`cache.ts:262`); for other keys the memory wins.
- A generation reads the registry before it awaits the matching and decides
  afterwards whether the start-up is settled; a real loss that follows a refused
  early scan is refused once more; a changed configuration with a registry that is
  not ready accepts what it finds; the settle retry is dropped when a scan runs.
- The snapshot is written in place; a crash may leave half of it, which a load
  ignores.
- `update_model_metrics` writes the whole live entry into the shipped file; its
  comment says only the fresh delta. A metric set by the tool and generated without
  a reload is never recorded as a contribution of the files.
- A load that ignores the snapshot (`index.ts:808-815`, `849-851`) leaves a provider that
  only the registry knows without entry and billing, until a generation; a `load()` while
  the matching of that one is awaited drops its stubs once more.

Routing and classifier

- A round robin counter becomes NaN after an empty pool; it advances on every
  resolution, also those of a label. The first non-empty fallback group is taken
  even if all of it is unhealthy. A dynamic group as fallback adds nothing to a turn.
- A pipeline that cuts before its last step may leave a model out of the table, or show
  the ref of it that cools down although another one does not (`CutShort`, which
  `TurnsServed` excepts). A pipeline without steps leaves its group unranked
  (`ListsAssumption` excludes it).
- Two models that nothing matched and whose names have the same tokens are one model for
  a generation, also at different providers (`dynamic-config.ts:269-272`): the list has
  the one that sorts first. The session's `scopedModels` do not bind a HINT.
- `getTopModels` ignores curated lists, budgets, pace and the last cut, so the table
  can differ from the live order. The generation ignores the learned blocklist.
- `ollamaWedged` is captured before the awaits of the cloud leg; the fallback model
  is tried after the timeout of the first opened the wedge; its 501 is not marked. A
  full answer cache evicts its oldest entry also when the key is present.
- A local HINT reply has no guard against spurious markers, the cloud leg has one.
- A mark "no schema" that expires while a local probe runs lets a candidate in that
  was not asked, so the next scan probes again, with nothing changed.
- A scan without local candidates empties `classifier_local_models` and keeps the
  fingerprint (`classifier-local-probe.ts:167`).

Scores, prices, registration

- The cost cache is emptied only when the registry is published: a `cost_per_m`
  written after the first lookup waits for the next session. A removed builtin stays
  until the next scrape, and after a scrape the builtins are written into the cache
  file.
- A page that named every curated slug would hide the curated scores until the next
  `setConfig` or `setCache`, as a lookup takes a gap for the sign that they are missing
  (`PagesAssumption`).
- When another process's file fills the gap of a builtin, a lookup does not notice
  that the scraped value is in its place (`revived` in `ScoresRank`).
- A board row whose name is not in the name table takes the slug of the first name
  with its key, and overwrites that model's own score (`scan-runner.ts:146-170`,
  against the comment at 82-84).
- A group whose name another extension registers after the extension load is
  registered over it at the next session start, since the name is in the own set. On a
  host without `getAll()` a merge loses what was not scanned. Edits of `models.json`
  are masked by the merged list until pi restarts.

## Not modelled, and why

The texts (error patterns, markup, narration, prompts, reports), the heuristics that
match names, the host API and the daemons are data or pure functions of it: their
verdicts are free choices in the modules above. Left out of modelled parts: the footer,
display fields, usage log and the walk of a hinted model in `Sessions`; `resetCache`,
which nothing calls, in `ScanCache`; an unreadable shipped file, which makes `load()`
throw, in `ConfigLayers`; the label of a served model, the reasons of a table and how a
HINT's words are compared with a name in `Routing`; the older format of the page,
measured speeds and profile arithmetic in `Metrics`; the fields of a registered model in
`Registration`. Components without a module: context budget and compaction (token
estimates), costs and cache statistics (sums), delegation and bulk reads (a subagent run
and its formatting), detection and matching, commands and reports, scripts.

## Plan

1. The profiles of a page with a reference of their own, proved as its scores are.
2. The counters that detect a compaction, as a module per process with several
   sessions.
3. Bulk reads and delegation as a composition of `Sessions` with `StreamWalk`.
4. The sums over the usage log that exhaust a budget, which are free in `Routing`.
