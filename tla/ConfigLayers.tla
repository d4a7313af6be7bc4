----------------------------- MODULE ConfigLayers -----------------------------
(***************************************************************************)
(* The configuration a process routes by: the files of three layers and     *)
(* their merge (src/config-loader.ts), the snapshot of the last generation  *)
(* that is laid over it and brought up to date (src/dynamic-config.ts), and *)
(* everything that writes one of those files: the user's editor, the config *)
(* commands (src/commands.ts, src/user-config-store.ts), the metrics tool   *)
(* (src/tools.ts) and the generation (src/dynamic-config-runner.ts), in     *)
(* several processes.                                                       *)
(*                                                                          *)
(* A configuration gives a value, or None, to every path of keys, and holds *)
(* a set of exclusion rules.  Of a group only what decides whether a        *)
(* snapshot fits is kept; its generated list is a matter of GroupLists.     *)
(***************************************************************************)
EXTENDS Naturals, Sequences

CONSTANTS Procs,
          Paths,            \* sequences of keys: <<"providers", "bridge", "billing">>
          Patterns,         \* exclusion rules
          Removed,          \* REMOVED_GROUPS
          Categories,       \* the categories of the classifier
          Registry,         \* providers of pi's registry that PROVIDER_MAP lacks
          Shipped, User, Project,  \* what an editor leaves in each file
          Reports,          \* what the metrics tool is told: <<path, value>>
          None, Corrupt,
          MaxChanges        \* bound: edits, generations, commands and tools together

VARIABLES file,      \* the three layers
          snapshot,  \* router-config.dynamic.json
          proc,      \* the state of each process
          fresh,     \* history: processes that loaded after the last change of a layer
          learned,   \* history: what the tool said before a generation that did not load again
          changes

layersVars == <<file, snapshot, proc, fresh, learned, changes>>

Layers == {"shipped", "user", "project"}
Empty == [exclude |-> {}, at |-> [p \in Paths |-> None]]
Readable(f) == f \notin {None, Corrupt}

\* DYNAMIC_CONFIG_RESYNC_KEYS (exclude is a set of its own here) and
\* DYNAMIC_CONFIG_MERGE_KEYS.
ResyncKeys == {"non_agent_model_prefixes", "empty_response_timeout_ms",
    "reasoning_empty_response_timeout_ms", "stall_timeout_ms", "rate_limit_wait_max_ms",
    "backoff_minutes", "soft_backoff_ms", "delegation", "ollama_max_concurrent_streams",
    "best_quality_window", "log_level", "category_groups", "context_budget", "classifier_log",
    "classifier_laya"}
MergeKeys == {"providers", "model_metrics", "gdpval_builtin"}
Resynced(p) == p[1] \in ResyncKeys
IsMerged(p) == p[1] \in MergeKeys
IsGroup(p) == p[1] = "model_groups"
Authoritative(p) == p[1] = "providers" /\ p[3] = "free_models"   \* STATIC_AUTHORITATIVE_FIELDS

\* The shipped file is always readable: a load throws otherwise.
IsConfig(c) == DOMAIN c = {"exclude", "at"} /\ DOMAIN c.at = Paths
ASSUME FilesAssumption ==
    /\ \A f \in Shipped : IsConfig(f)
    /\ \A f \in User \cup Project : Readable(f) => IsConfig(f)

-----------------------------------------------------------------------------
\* deepMergeConfig: rules of exclusion add up, any other value is replaced.
DeepMerge(base, over) ==
    [exclude |-> base.exclude \cup over.exclude,
     at |-> [p \in Paths |-> IF over.at[p] # None THEN over.at[p] ELSE base.at[p]]]

\* validateRemovedGroups: references to removed groups leave the layer before
\* the merge; a list that held nothing else leaves with them.
IsChain(p) == \/ IsGroup(p) /\ p[3] = "fallback_groups"
              \/ p[1] = "delegation" /\ p[2] = "expensive_groups"
Kept(chain) ==
    CASE chain = None \/ chain \cap Removed = {} -> chain
      [] chain # None /\ chain \cap Removed # {} /\ chain \subseteq Removed -> None
      [] OTHER -> chain \ Removed
ValidateRemovedGroups(layer) ==
    [layer EXCEPT !.at = [p \in Paths |->
        IF IsGroup(p) /\ p[2] \in Removed THEN None
        ELSE IF IsChain(p) THEN Kept(layer.at[p]) ELSE layer.at[p]]]

\* validateCategoryGroups: an unknown category or group loses its entry.
Declared(cfg, g) == \E p \in Paths : IsGroup(p) /\ p[2] = g /\ cfg.at[p] # None
ValidateCategoryGroups(cfg) ==
    [cfg EXCEPT !.at = [p \in Paths |->
        IF p[1] = "category_groups" /\ ~(p[2] \in Categories /\ Declared(cfg, cfg.at[p]))
        THEN None ELSE cfg.at[p]]]

\* validateClassifierLaya: the stage is off unless it has a checkpoint and a
\* loopback endpoint; a wrong or missing option gets its default.
Laya(cfg, option) == cfg.at[<<"classifier_laya", option>>]
LayaSound(cfg) ==
    Laya(cfg, "checkpoint") # None /\ Laya(cfg, "endpoint") \in {None, "loopback"}
LayaDefault == [enabled |-> TRUE, checkpoint |-> None, endpoint |-> "loopback", mode |-> "shadow"]
LayaOption(cfg, option) ==
    IF Laya(cfg, option) = None \/ (option = "mode" /\ Laya(cfg, option) = "wrong")
    THEN LayaDefault[option] ELSE Laya(cfg, option)
ValidateClassifierLaya(cfg) ==
    IF Laya(cfg, "enabled") \in {None, FALSE} THEN cfg
    ELSE IF LayaSound(cfg)
         THEN [cfg EXCEPT !.at = [p \in Paths |->
                 IF p[1] = "classifier_laya" THEN LayaOption(cfg, p[2]) ELSE cfg.at[p]]]
         ELSE [cfg EXCEPT !.at[<<"classifier_laya", "enabled">>] = FALSE]

\* loadLayeredConfig; an override file that cannot be read is as good as none.
Over(cfg, f) == IF Readable(f) THEN DeepMerge(cfg, ValidateRemovedGroups(f)) ELSE cfg
LoadLayeredConfig(f) ==
    ValidateClassifierLaya(ValidateCategoryGroups(Over(Over(f.shipped, f.user), f.project)))

-----------------------------------------------------------------------------
\* collectStaticContributions, staticGroupsFingerprint.
Contributions(static) == {p \in Paths : IsMerged(p) /\ static.at[p] # None}
Fingerprint(static) == [p \in {q \in Paths : IsGroup(q)} |-> static.at[p]]

\* pruneRemovedStaticEntries: what was remembered of the static layers and is
\* no longer there, and what only they may say.
Gone(p, remembered, current) ==
    IsMerged(p) /\ p \notin current /\ (p \in remembered \/ Authoritative(p))

\* Mutant: only the fields of no other owner are dropped.
PruneNothing(at, remembered, current) ==
    [p \in Paths |-> IF Authoritative(p) /\ p \notin current THEN None ELSE at[p]]
Prune(at, remembered, current) ==
    [p \in Paths |-> IF Gone(p, remembered, current) THEN None ELSE at[p]]

Entry(at, provider) == \E p \in Paths : p[1] = "providers" /\ p[2] = provider /\ at[p] # None
Dropped(at, remembered, current) ==
    {v \in Registry : Entry(at, v) /\ ~Entry(Prune(at, remembered, current), v)}

\* resyncDynamicFromStatic.
Resync(at, static, remembered, current) ==
    LET pruned == Prune(at, remembered, current) IN
    [exclude |-> static.exclude,
     at |-> [p \in Paths |-> IF Resynced(p) \/ (IsMerged(p) /\ static.at[p] # None)
                             THEN static.at[p] ELSE pruned[p]]]

\* registerRegistryProviderStubs.
Stub(v) == <<"providers", v, "billing">>
ASSUME StubAssumption == \A v \in Registry : Stub(v) \in Paths /\ "subscription" # None
Stubbed(cfg, providers) ==
    [cfg EXCEPT !.at = [p \in Paths |->
        IF \E v \in providers : p = Stub(v) /\ ~Entry(cfg.at, v) THEN "subscription" ELSE cfg.at[p]]]

-----------------------------------------------------------------------------
\* History in `stubbed`: the live configuration still is the one that this
\* generation, of a session, registered its providers in.
Idle == [on |-> FALSE, fingerprint |-> None, stubbed |-> FALSE]
Unloaded == [session |-> FALSE, static |-> Empty, contributions |-> {}, cfg |-> Empty,
             alias |-> TRUE, reported |-> {}, generation |-> Idle]

\* load(): a torn snapshot, or one of other groups, is not used; the live
\* configuration is then the static one itself.  Providers that were dropped
\* come back as stubs.
Usable(snap, static) == Readable(snap) /\ snap.fingerprint \in {None, Fingerprint(static)}

\* Mutant: what the files dropped stays away.
RestubNever(cfg, session, dropped) == cfg
Restub(cfg, session, dropped) == IF session THEN Stubbed(cfg, dropped) ELSE cfg

Loaded(old, f, snap, session) ==
    LET static == LoadLayeredConfig(f)
        current == Contributions(static)
        fits == Usable(snap, static)
    IN [old EXCEPT !.session = session, !.static = static, !.contributions = current,
          !.alias = ~fits, !.reported = {}, !.generation.stubbed = FALSE,
          !.cfg = IF fits THEN Restub(Resync(snap.at, static, snap.remembered, current), session,
                                      Dropped(snap.at, snap.remembered, current))
                          ELSE static]

\* A first start, or one with the snapshot of a version that remembered nothing.
LayersInit ==
    /\ file \in [shipped : Shipped, user : User, project : {None}]
    /\ snapshot \in {None, [exclude |-> {}, at |-> file.shipped.at, fingerprint |-> None,
                           remembered |-> {}]}
    /\ proc = [p \in Procs |-> Unloaded]
    /\ fresh = {} /\ changes = 0
    /\ learned = IF snapshot = None THEN {}
                 ELSE {p \in Paths : IsMerged(p) /\ ~Authoritative(p) /\ snapshot.at[p] # None}

Changes == changes < MaxChanges /\ changes' = changes + 1

Loads(p, session) ==
    /\ proc' = [proc EXCEPT ![p] = Loaded(@, file, snapshot, session)]
    /\ fresh' = fresh \cup {p}
    /\ UNCHANGED <<file, snapshot, learned, changes>>

\* The extension starts before the first session; a session begins, ends, or
\* something else makes the process load again.
Starts(p) == proc[p] = Unloaded /\ Loads(p, FALSE)
SessionStart(p) == proc[p] # Unloaded /\ Loads(p, TRUE)
Reload(p) == proc[p] # Unloaded /\ Loads(p, proc[p].session)
SessionEnds(p) ==
    /\ proc[p].session
    /\ proc' = [proc EXCEPT ![p].session = FALSE]
    /\ UNCHANGED <<file, snapshot, fresh, learned, changes>>

-----------------------------------------------------------------------------
\* A generation registers the providers of the registry it does not know, in
\* what may be the static configuration itself, and then waits for a matching.
Begins(p) ==
    /\ proc[p] # Unloaded /\ ~proc[p].generation.on
    /\ LET known == IF proc[p].session THEN Registry ELSE {} IN
       proc' = [proc EXCEPT ![p].cfg = Stubbed(@, known),
                            ![p].static = IF proc[p].alias THEN Stubbed(@, known) ELSE @,
                            ![p].generation = [on |-> TRUE,
                                               fingerprint |-> Fingerprint(proc[p].static),
                                               stubbed |-> proc[p].session]]
    /\ Changes
    /\ UNCHANGED <<file, snapshot, fresh, learned>>

\* Refused, or nothing to choose from.
GivesUp(p) ==
    /\ proc[p].generation.on
    /\ proc' = [proc EXCEPT ![p].generation = Idle]
    /\ UNCHANGED <<file, snapshot, fresh, learned, changes>>

\* Mutant: the file is built on the layers, not on what the process runs with.
GeneratedFromLayers(me) == Resync(me.static.at, me.static, {}, me.contributions)

\* The live configuration with the groups of now, resynced, becomes both the
\* file and the live one.
Generated(me) ==
    Resync([p \in Paths |-> IF IsGroup(p) THEN me.static.at[p] ELSE me.cfg.at[p]],
           me.static, {}, me.contributions)

Writes(p) ==
    /\ proc[p].generation.on
    /\ snapshot' = [exclude |-> Generated(proc[p]).exclude, at |-> Generated(proc[p]).at,
                    fingerprint |-> proc[p].generation.fingerprint,
                    remembered |-> proc[p].contributions]
    /\ proc' = [proc EXCEPT ![p].cfg = Generated(proc[p]), ![p].alias = FALSE,
                            ![p].generation = Idle]
    /\ learned' = learned \cup proc[p].reported
    /\ UNCHANGED <<file, fresh, changes>>

-----------------------------------------------------------------------------
\* A layer is edited: by hand, or by a command or tool of process p, which loads.
Edit(layer, content) ==
    /\ file[layer] # content
    /\ file' = [file EXCEPT ![layer] = content]
    /\ Changes
    /\ fresh' = {}
    /\ UNCHANGED <<snapshot, proc, learned>>

WritesUser(p, content) ==
    /\ proc[p] # Unloaded
    /\ file' = [file EXCEPT !.user = content]
    /\ proc' = [proc EXCEPT ![p] = Loaded(@, file', snapshot, proc[p].session)]
    /\ fresh' = {p}
    /\ Changes
    /\ UNCHANGED <<snapshot, learned>>

\* applyDelta: nothing is written over a file that cannot be read.
UserLayer == IF file.user = None THEN Empty ELSE file.user
Exclude(p, pattern) ==
    /\ file.user # Corrupt /\ pattern \notin UserLayer.exclude
    /\ WritesUser(p, [UserLayer EXCEPT !.exclude = @ \cup {pattern}])
Unexclude(p, pattern) ==
    /\ file.user # Corrupt /\ pattern \in UserLayer.exclude
    /\ WritesUser(p, [UserLayer EXCEPT !.exclude = @ \ {pattern}])
SetCompaction(p, on) ==
    /\ file.user # Corrupt
    /\ WritesUser(p, [UserLayer EXCEPT !.at[<<"context_budget", "enabled">>] = on])

\* update_model_metrics: the live entry gets the reported value and goes to the
\* shipped file.  The entry is an object of the static configuration when the
\* snapshot had none.
ASSUME ReportsAssumption ==
    \A report \in Reports : report[1][1] = "model_metrics" /\ report[2] # None
SameEntry(p, q) == SubSeq(p, 1, 2) = SubSeq(q, 1, 2)
With(at, path, value) == [at EXCEPT ![path] = value]
Shared(me, path) ==
    me.alias \/ \A p \in Paths : SameEntry(p, path) => Prune(snapshot.at, snapshot.remembered, me.contributions)[p] = None
Persisted(base, at, path) ==
    [base EXCEPT !.at = [p \in Paths |-> IF SameEntry(p, path) /\ at[p] # None THEN at[p] ELSE @[p]]]
UpdateModelMetrics(p, path, value) ==
    LET me == Loaded(proc[p], file, snapshot, proc[p].session)
        live == With(me.cfg.at, path, value)
    IN
    /\ proc[p] # Unloaded
    /\ Changes
    /\ proc' = [proc EXCEPT ![p] =
                  [me EXCEPT !.cfg.at = live, !.reported = {path},
                             !.static.at = IF Shared(me, path) THEN With(@, path, value) ELSE @]]
    /\ file' = [file EXCEPT !.shipped = Persisted(@, live, path)]
    /\ fresh' = {}
    /\ UNCHANGED <<snapshot, learned>>

LayersNext ==
    \/ \E p \in Procs : Starts(p) \/ SessionStart(p) \/ Reload(p) \/ SessionEnds(p)
                        \/ Begins(p) \/ GivesUp(p) \/ Writes(p)
    \/ \E f \in Shipped : Edit("shipped", f)
    \/ \E f \in User : Edit("user", f)
    \/ \E f \in Project : Edit("project", f)
    \/ \E p \in Procs, pattern \in Patterns : Exclude(p, pattern) \/ Unexclude(p, pattern)
    \/ \E p \in Procs, on \in BOOLEAN : SetCompaction(p, on)
    \/ \E p \in Procs, report \in Reports : UpdateModelMetrics(p, report[1], report[2])
LayersSpec == LayersInit /\ [][LayersNext]_layersVars

-----------------------------------------------------------------------------
Said(path) == LoadLayeredConfig(file).at[path]

\* A process that loaded after the last edit lives by the files, whatever any
\* process generated in between: every rule of every readable layer excludes,
\* every setting that is the user's is the one written, every provider, metric
\* and score the files name has their value, and none they no longer name lives
\* on, except a registered stub and what the metrics tool said to a process
\* that generated before it loaded again (load, resyncDynamicFromStatic).
LivesByTheFiles ==
    \A p \in fresh :
        LET live == proc[p].cfg.at IN
        /\ proc[p].cfg.exclude = UNION {file[l].exclude : l \in {x \in Layers : x = "shipped" \/ Readable(file[x])}}
        /\ \A path \in Paths :
              /\ Resynced(path) => live[path] = Said(path)
              /\ IsMerged(path) /\ Said(path) # None => live[path] = Said(path)
              /\ IsMerged(path) /\ Said(path) = None /\ live[path] # None
                    => path \in learned \/ \E v \in Registry : path = Stub(v)

\* In a session a provider the registry offers is billed as a subscription, by
\* its stub, whenever nothing else says how: what the process runs with has no
\* entry for it only when neither the files nor a snapshot of the same groups
\* had one to load, and a generation of a session ends that for every process,
\* by writing an entry for each, unless a load replaced the configuration it
\* had put the stubs in (load, registerRegistryProviderStubs,
\* generateDynamicConfigNow).
ProvidersKept ==
    [][ \A p \in Procs, v \in Registry :
          /\ (proc'[p].cfg # proc[p].cfg /\ proc'[p].session /\ ~Entry(proc'[p].cfg.at, v))
                => /\ ~Entry(proc'[p].static.at, v)
                   /\ ~Usable(snapshot', proc'[p].static) \/ ~Entry(snapshot'.at, v)
          /\ (proc[p].generation.stubbed /\ ~proc'[p].generation.on /\ snapshot' # snapshot)
                => Entry(snapshot'.at, v) /\ Entry(proc'[p].cfg.at, v) ]_layersVars
===========================================================================
