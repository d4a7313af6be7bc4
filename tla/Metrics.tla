-------------------------------- MODULE Metrics --------------------------------
(***************************************************************************)
(* What the router believes of a model: its score and its price             *)
(* (src/metrics.ts), and everything that feeds these beliefs in an order    *)
(* nobody controls: a load of the configuration (src/index.ts), the start   *)
(* of a session that publishes pi's registry (src/event-handlers.ts,        *)
(* src/group-registration.ts), a scan that waits for its sources            *)
(* (src/scan-runner.ts), a generation, and the lookups, which mend what     *)
(* they find.                                                               *)
(*                                                                          *)
(* A score or a price is named by the source it comes from: of two sources  *)
(* only their rank and their age matter.  Which slug a model means is taken *)
(* as given; the :free tag, the estimate a provider's entry gives and the   *)
(* factors on a price are left out.                                         *)
(***************************************************************************)
EXTENDS Leaderboard

CONSTANTS Refs,
          Kind,      \* [Refs -> "subscription", "pay_per_token" or "local"]
          Provider,  \* [Refs -> its provider]
          Twin,      \* [Refs -> the ref its provider's pricingAlias stands for, or None]
          Same,      \* [Refs -> the OpenRouter ref of the same model, or None]
          Scenes     \* what may happen: configurations, pages, catalogs, prices, lookups

VARIABLES file,      \* the static configuration the files give
          cfg,       \* the one metrics.ts holds
          mirror,    \* gdpval
          cached,    \* cache.gdpval_scores
          alias,     \* cache.gdpval_scores is the object gdpval itself
          stamped,   \* the scrape needs no repetition
          disk,      \* gdpval_scores of the cache file
          foreign,   \* another process wrote the cache file since the last sync
          scan,      \* where the scan waits, and the free models it has found
          registry,  \* the price pi's registry has of a model: "registry", "zero" or None
          published, \* metrics.ts has the registry
          pinned,    \* metrics: the cost kept of a model
          found,     \* available_models, each with cost_per_m 0
          pricing,   \* openrouter_pricing: "or", "zero" or None
          latest,    \* history: the page of the last scrape
          revived,   \* history: another process's file brought scores back since
          scene

scoreVars == <<mirror, cached, alias, stamped, disk, foreign, latest, revived>>
costVars == <<registry, published, pinned, found, pricing>>
metricsVars == <<file, cfg, scan, scene, scoreVars, costVars>>

ASSUME PriceAssumption ==
    /\ Kind \in [Refs -> {"subscription", "pay_per_token", "local"}]
    /\ None \notin {"zero", "registry", "unknown", "or", "user"}
    /\ \A s \in Scenes : /\ \A c \in s.configs : \A r \in Refs : c.cost[r] \in {None, "zero", "user"}
                         /\ s.prices \subseteq [Refs -> {None, "zero", "registry"}]

\* The curated scores are kept for models the page does not have: "AA's scrape
\* never has these slugs" (metrics.ts:22).  One such slug is enough for a lookup
\* to notice what a scrape has wiped.
ASSUME PagesAssumption ==
    /\ None \notin Slugs \cup {"builtin", "estimate"}
    /\ \A s \in Scenes :
          /\ \A page \in s.pages : IsPage(page) /\ page.name # None
          /\ \A page, other \in s.pages : page.name = other.name => page = other
          /\ \A c \in s.configs :
                /\ c.builtin \subseteq Slugs
                /\ c.builtin # {} => \E x \in c.builtin : \A page \in s.pages : RatedBy(page, x) = None

Assign(target, source) == [s \in Slugs |-> IF source[s] # None THEN source[s] ELSE target[s]]
Builtin(c) == [s \in Slugs |-> IF s \in c.builtin THEN "builtin" ELSE None]
Waits(at, new) == [at |-> at, new |-> new]
NoPins == [r \in Refs |-> None]

-----------------------------------------------------------------------------
\* The scores: the mirror m and the cache's c are one object when same is set.
Scores(m, c, same) == [mirror |-> m, cached |-> IF same THEN m ELSE c, alias |-> same]
Here == Scores(mirror, cached, alias)

\* setConfig, setCache, setGdpval.
SetConfig(s, c) == Scores(Assign(s.mirror, Builtin(c)), s.cached, s.alias)
SetCache(s, c) ==
    IF s.cached = NoScores THEN s
    ELSE Scores(Assign(Assign(s.mirror, s.cached), Builtin(c)), s.cached, s.alias)
SetGdpval(s, scores) == Scores(scores, s.cached, FALSE)

\* Mutant: only the builtins that are missing are put back.
HealedGaps(s, c) ==
    Scores([x \in Slugs |-> IF s.mirror[x] = None /\ x \in c.builtin THEN "builtin" ELSE s.mirror[x]],
           s.cached, s.alias)

\* resolveSlug mends the mirror before it looks: an empty one from the cache,
\* one that lacks a builtin with all of them.
Healed(s, c) ==
    LET filled == IF s.mirror = NoScores THEN Assign(s.mirror, s.cached) ELSE s.mirror
        missing == \E x \in c.builtin : filled[x] = None
    IN Scores(IF missing THEN Assign(filled, Builtin(c)) ELSE filled, s.cached, s.alias)

Keeps(s) == mirror' = s.mirror /\ cached' = s.cached /\ alias' = s.alias

\* loadCache, saveCache: what another process wrote fills the gaps.
Synced(s) ==
    IF ~foreign THEN s
    ELSE LET merged == Assign(disk, s.cached) IN
         Scores(IF s.alias THEN merged ELSE s.mirror, merged, s.alias)

-----------------------------------------------------------------------------
\* findRegistryModel and registryCost, which knows no price of zero.
RegistryCost(r) ==
    CASE ~published -> None
      [] published /\ registry[r] # None -> IF registry[r] = "zero" THEN None ELSE registry[r]
      [] OTHER -> IF Twin[r] # None /\ registry[Twin[r]] = "registry" THEN "registry" ELSE None

\* isFreeModelRef.
IsFreeModelRef(c, r) == Kind[r] = "local" \/ r \in c.free \/ r \in found

\* resolveCostPerM.
ResolveCostPerM(c, r) ==
    CASE RegistryCost(r) # None -> RegistryCost(r)
      [] RegistryCost(r) = None /\ (Kind[r] = "subscription" \/ IsFreeModelRef(c, r)) -> "zero"
      [] OTHER -> "unknown"

\* orFallbackPrice, lookupListPrice, lookupPrice.
OrFallbackPrice(r) ==
    CASE pricing[r] = "or" -> "or"
      [] pricing[r] = "zero" -> IF r \in found \cup cfg.free THEN "zero" ELSE "unknown"
      [] OTHER -> IF Same[r] # None /\ pricing[Same[r]] = "or" THEN "or" ELSE None
LookupListPrice(r) == IF RegistryCost(r) # None THEN RegistryCost(r) ELSE OrFallbackPrice(r)
LookupPrice(r) ==
    IF RegistryCost(r) = None /\ cfg.cost[r] # None THEN cfg.cost[r] ELSE LookupListPrice(r)

\* Mutant: only the zero of a scan is looked up again.
GetMZero(c, r) ==
    CASE pinned[r] = "zero" -> ResolveCostPerM(c, r)
      [] pinned[r] = None -> IF c.cost[r] \in {None, "zero"} THEN ResolveCostPerM(c, r) ELSE c.cost[r]
      [] OTHER -> pinned[r]
\* getM: the cost kept of a model, unless it is a placeholder.
GetM(c, r) ==
    CASE pinned[r] \in {"zero", "unknown"} -> ResolveCostPerM(c, r)
      [] pinned[r] = None -> IF c.cost[r] \in {None, "zero"} THEN ResolveCostPerM(c, r) ELSE c.cost[r]
      [] OTHER -> pinned[r]

\* effCost: a subscription without a price costs next to nothing, by its list
\* price or by a constant, never nothing.
SunkCost(r) == IF LookupListPrice(r) \in {"registry", "or"} THEN "epsilon" ELSE "fallback"
EffCost(r) ==
    IF GetM(cfg, r) = "zero" /\ Kind[r] = "subscription" THEN SunkCost(r) ELSE GetM(cfg, r)

-----------------------------------------------------------------------------
MetricsInit ==
    /\ scene \in Scenes
    /\ file \in scene.configs /\ cfg = file
    /\ disk \in scene.disks
    /\ mirror = Assign(disk, Builtin(cfg)) /\ cached = disk
    /\ alias = FALSE /\ foreign = FALSE /\ revived = FALSE
    /\ stamped = FALSE /\ latest = None /\ scan = Waits("idle", {})
    /\ registry \in scene.prices
    /\ published = FALSE /\ pinned = NoPins
    /\ found = scene.ghosts /\ pricing = [r \in Refs |-> None]

\* load(): the files, then the cache; a snapshot that fits adds its builtins to
\* a copy of the scores.  Then the cache again, and once more when the cache
\* file has been read.
LoadedScores(fits) ==
    LET first == SetCache(SetConfig(Here, file), file)
        copied == IF fits THEN SetGdpval(first, Assign(first.mirror, Builtin(file))) ELSE first
    IN SetCache(copied, file)
Load(fits) ==
    /\ cfg' = file
    /\ Keeps(LoadedScores(fits))
    /\ UNCHANGED <<file, scan, scene, stamped, disk, foreign, latest, revived, costVars>>

\* session_start: the registry is published, the configuration loaded, the
\* cache file read when another process has written it.  What the same handler
\* registers with pi is in module Registration.
SessionStart(fits) ==
    LET loaded == LoadedScores(fits) IN
    /\ published' = TRUE
    /\ pinned' = NoPins
    /\ cfg' = file
    /\ Keeps(SetCache(Synced(loaded), file))
    /\ foreign' = FALSE /\ revived' = (revived \/ foreign)
    /\ UNCHANGED <<file, scan, scene, stamped, disk, latest, registry, found, pricing>>

\* A route, a panel or a gate looks a model up.
Looks(r) ==
    /\ r \in scene.looked
    /\ pinned' = [pinned EXCEPT ![r] = GetM(cfg, r)]
    /\ Keeps(Healed(Here, cfg))
    /\ UNCHANGED <<file, cfg, scan, scene, stamped, disk, foreign, latest, revived,
                   registry, published, found, pricing>>

\* updateMetrics aside, the tool is the only other writer: it loads, and lays
\* the live entry over what is kept.
ToolReports(r, fits) ==
    /\ r \in scene.looked
    /\ cfg' = file
    /\ pinned' = [pinned EXCEPT ![r] = IF file.cost[r] # None THEN file.cost[r] ELSE GetM(file, r)]
    /\ UNCHANGED <<file, scan, scene, stamped, disk, foreign, latest, revived,
                   registry, published, found, pricing>>
    /\ Keeps(Healed(LoadedScores(fits), file))

-----------------------------------------------------------------------------
\* needsGdpvalScrape; the page gives scores, and profiles that are complete or
\* not.  The cache is read with the new profiles before the scores replace
\* the old ones, and then shares their object.
Scraped(s, scores) == LET new == SetGdpval(s, scores) IN Scores(new.mirror, new.mirror, TRUE)

Scrape(force) ==
    /\ scan.at = "idle" /\ (force \/ ~stamped)
    /\ scan' = Waits("prices", {})
    /\ \E page \in scene.pages :
         LET scores == ExtractGdpvalScores(page)
             profiles == {ExtractCapabilityProfiles(page)[s] : s \in Slugs}
             before == IF profiles # {Unmeasured} THEN SetCache(Here, cfg) ELSE Here
             fresh == scores # NoScores
             reasoning == \E profile \in profiles : profile.reasoning # None
         IN
         /\ Keeps(IF fresh THEN Scraped(before, scores) ELSE before)
         /\ stamped' = (stamped \/ (fresh /\ reasoning))
         /\ latest' = IF fresh THEN page.name ELSE latest
         /\ revived' = (revived /\ ~fresh)
    /\ UNCHANGED <<file, cfg, scene, disk, foreign, costVars>>
NoScrape ==
    /\ scan.at = "idle"
    /\ scan' = Waits("prices", {})
    /\ UNCHANGED <<file, cfg, scene, scoreVars, costVars>>

\* OpenRouter's catalog: prices, and the models that are free; or no answer.
Prices ==
    /\ scan.at = "prices"
    /\ \E c \in scene.catalogs :
         /\ pricing' = [r \in Refs |-> IF c[r] # None THEN c[r] ELSE pricing[r]]
         /\ scan' = Waits("daemon", {r \in Refs : c[r] = "zero"})
    /\ UNCHANGED <<file, cfg, scene, scoreVars, registry, published, pinned, found>>

\* The daemon's models, if it answers (tags).  An estimate is made only for a slug
\* that has no score.  Entries of a provider the registry serves under its own
\* name are dropped, those of a provider this scan did not reach stay.
Redundant(r) == published /\ Twin[r] # None /\ registry[Twin[r]] # None
Merged(new) ==
    {r \in found : ~Redundant(r) /\ \A x \in new : Provider[x] # Provider[r]} \cup new
Estimated(s, slugs) ==
    LET healed == Healed(s, cfg)
        new == [x \in Slugs |-> IF x \in slugs /\ healed.mirror[x] = None THEN "estimate" ELSE None]
        filled == Assign(new, healed.cached)
    IN IF new = NoScores THEN healed
       ELSE SetCache(Scores(IF healed.alias THEN filled ELSE healed.mirror, filled, healed.alias), cfg)
Daemon(tags) ==
    /\ scan.at = "daemon"
    /\ scan' = Waits("save", {})
    /\ found' = Merged(scan.new \cup tags)
    /\ Keeps(Estimated(Here, scene.estimates))
    /\ UNCHANGED <<file, cfg, scene, stamped, disk, foreign, latest, revived,
                   registry, published, pinned, pricing>>
DaemonIsDown ==
    /\ scan.at = "daemon"
    /\ scan' = Waits("save", {})
    /\ found' = Merged(scan.new)
    /\ UNCHANGED <<file, cfg, scene, scoreVars, registry, published, pinned, pricing>>
CatalogsAreFresh ==
    /\ scan.at = "prices"
    /\ scan' = Waits("save", {})
    /\ UNCHANGED <<file, cfg, scene, scoreVars, costVars>>

\* saveCache, by the scan or by anything else that has something to save.
Saved ==
    /\ Keeps(Synced(Here))
    /\ disk' = Synced(Here).cached
    /\ foreign' = FALSE /\ revived' = (revived \/ foreign)
    /\ UNCHANGED <<file, cfg, scene, stamped, latest, costVars>>
ScanSaves == scan.at = "save" /\ scan' = Waits("generate", {}) /\ Saved
Saves == UNCHANGED scan /\ Saved

\* generateDynamicConfig hands its configuration to metrics.ts, or gives up.
Generate ==
    /\ scan.at = "generate"
    /\ scan' = Waits("idle", {})
    /\ Keeps(Here) \/ Keeps(SetConfig(Here, cfg))
    /\ UNCHANGED <<file, cfg, scene, stamped, disk, foreign, latest, revived, costVars>>

-----------------------------------------------------------------------------
\* The files change, pi learns a price or loses a model, another process saves
\* the scores of an older page.
Edits(content) ==
    /\ file # content
    /\ file' = content
    /\ UNCHANGED <<cfg, scan, scene, scoreVars, costVars>>
RegistryChanges ==
    /\ registry' \in scene.prices
    /\ UNCHANGED <<file, cfg, scan, scene, scoreVars, published, pinned, found, pricing>>
OthersSave ==
    /\ \E scores \in scene.disks : disk' = Assign(disk, scores)
    /\ foreign' = TRUE
    /\ UNCHANGED <<file, cfg, scan, scene, mirror, cached, alias, stamped, latest, revived, costVars>>

\* Everything but the start of a session.
Step ==
    \/ \E fits \in BOOLEAN : Load(fits)
    \/ \E r \in Refs, fits \in BOOLEAN : ToolReports(r, fits)
    \/ \E r \in Refs : Looks(r)
    \/ \E force \in BOOLEAN : Scrape(force)
    \/ NoScrape \/ Prices \/ CatalogsAreFresh \/ ScanSaves \/ Saves \/ Generate
    \/ DaemonIsDown \/ \E tags \in scene.tags : Daemon(tags)
    \/ \E c \in scene.configs : Edits(c)
    \/ RegistryChanges \/ OthersSave

-----------------------------------------------------------------------------
\* "gdpval_builtin [...] always wins for a given slug", and a scrape rewrites the
\* other scores wholesale: whatever loads, lookups and saves come between, whoever
\* looks a score up finds the curated one, or the one the newest page gives to
\* this very model, or where that gives none an estimate -- unless a cache file of another process has filled the gap by
\* which a lookup notices (metrics.ts:21, resolveSlug, setCache, setGdpval).
Believed(s) == Healed(Here, cfg).mirror[s]
Newest == CHOOSE page \in scene.pages : page.name = latest
ScoresRank ==
    ~revived => \A s \in Slugs :
        /\ s \in cfg.builtin => Believed(s) = "builtin"
        /\ latest # None =>
              IF RatedBy(Newest, s) = None THEN Believed(s) \in {None, "builtin", "estimate"}
              ELSE Believed(s) \in {"builtin", RatedBy(Newest, s)}

\* A placeholder never passes for a price: a model costs nothing, or shows a
\* price of zero, only when it is free or its user says zero, a subscription
\* never; and it is unpriced only while the registry has no price for it and
\* nobody gives it away -- whatever was looked up before the registry was
\* there (getM, resolveCostPerM, effCost, lookupPrice).
PricesHonest ==
    \A r \in Refs :
        /\ EffCost(r) = "zero" => IsFreeModelRef(cfg, r) /\ Kind[r] # "subscription" /\ RegistryCost(r) = None
        /\ LookupPrice(r) = "zero" => IsFreeModelRef(cfg, r) \/ cfg.cost[r] = "zero"
        /\ EffCost(r) = "unknown" =>
              RegistryCost(r) = None /\ Kind[r] = "pay_per_token" /\ ~IsFreeModelRef(cfg, r)
=============================================================================
