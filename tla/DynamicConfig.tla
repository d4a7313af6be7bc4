---------------------------- MODULE DynamicConfig ----------------------------
(***************************************************************************)
(* The scan of the model inventory (src/scan-runner.ts), the sanity check   *)
(* of its result (src/scan-sanity.ts) and the generation of the snapshot    *)
(* router-config.dynamic.json (src/dynamic-config-runner.ts), with the      *)
(* start of sessions, reloads, the settle retry, edits of the static        *)
(* configuration, crashes and restarts of one pi process.                   *)
(*                                                                          *)
(* An inventory is the four numbers the sanity check looks at.  A version   *)
(* of the static configuration stands for its two fingerprints; a later     *)
(* edit never restores an earlier version.  The cache is saved where the    *)
(* scan saves it, in the step that changed it.                              *)
(***************************************************************************)
EXTENDS Naturals, Sequences

CONSTANTS Listers,        \* providers the scan lists models of
          Full, Shrunk,   \* what the settled registry yields, before and after a loss
          Cold, Broken,   \* what it yields before it is ready; a collapse of scoring
          None,
          MaxEdits,       \* bound: edits of the static configuration
          MaxRestarts,    \* bound: crashes
          MaxScans,       \* bound: scans begun
          MaxReloads      \* bound: loads outside a session start

Inventory == [scanned : Nat, survivors : Nat, mapped : Nat, scored : Nat]

ASSUME InventoryAssumption ==
    /\ {Full, Shrunk, Cold, Broken} \subseteq Inventory
    /\ None \notin Nat
    /\ MaxEdits \in Nat /\ MaxRestarts \in Nat /\ MaxScans \in Nat /\ MaxReloads \in Nat

VARIABLES
    proc,      \* the process: up, registry ready, settle time over
    world,     \* the inventory a ready registry yields
    static,    \* the version of the static configuration on disk
    loaded,    \* staticCfg, and what rt.cfg was made from
    scan,      \* where scan() is, and its force flag
    queue,     \* generations waiting for each other (serialized)
    retry,     \* the settle retry of this process
    snapshot,  \* router-config.dynamic.json
    cache,     \* models, lastScanTimestamp, scan_sanity_refusal, models_cached
    count      \* scans, restarts and reloads so far

configVars == <<proc, world, static, loaded, scan, queue, retry, snapshot, cache, count>>

Versions == 0..MaxEdits
Down == [up |-> FALSE, ready |-> FALSE, settled |-> FALSE]
NoScan == [at |-> "idle", force |-> FALSE]

Exists(s) == s # None
Torn(s) == s # None /\ s.torn
Stored(s) == IF Exists(s) /\ ~s.torn THEN s.groupsFp ELSE None   \* readStoredGroupsFingerprint

-----------------------------------------------------------------------------
\* checkScanSanity.
Collapsed(r) == r.scanned >= 30 /\ r.survivors < 20 /\ 100 * r.survivors < 15 * r.scanned
Uncovered(r) == r.mapped >= 8 /\ 10 * r.scored < 4 * r.mapped
Regressed(r, previous) == previous # None /\ previous >= 10 /\ 2 * r.survivors < previous
Sanity(r, previous, changed) ==
    CASE Collapsed(r)                        -> "collapse"
      [] ~Collapsed(r) /\ Uncovered(r)       -> "coverage"
      [] ~Collapsed(r) /\ ~Uncovered(r) /\ ~changed /\ Regressed(r, previous) -> "regression"
      [] OTHER                               -> "ok"

\* A collapse of scoring never passes.
ASSUME BrokenAssumption == Collapsed(Broken) \/ Uncovered(Broken)

\* The same smaller result as the one refused: within a tenth, at least one.
Rounded10th(n) == (n + 5) \div 10
Near(a, b) == LET t == IF Rounded10th(a) > 1 THEN Rounded10th(a) ELSE 1 IN a <= b + t /\ b <= a + t

\* isScanCacheValid: fresh, and at least one model.
CacheValid(c) == c.lastScan = "fresh" /\ \E p \in Listers : c.models[p]

-----------------------------------------------------------------------------
Old == [torn |-> FALSE, survivors |-> Full.survivors, groups |-> 0, groupsFp |-> None, configFp |-> None]

\* A first start, or the files of a version without fingerprints.
ConfigInit ==
    /\ proc = Down /\ world = Full /\ static = 0
    /\ loaded = [static |-> 0, cfg |-> 0]
    /\ scan = NoScan /\ queue = << >> /\ retry = "none"
    /\ \/ /\ snapshot = None
          /\ cache = [models |-> [p \in Listers |-> FALSE], lastScan |-> "never",
                      refusal |-> None, recent |-> FALSE, aged |-> TRUE]
       \/ /\ snapshot = Old
          /\ cache = [models |-> [p \in Listers |-> TRUE], lastScan |-> "fresh",
                      refusal |-> None, recent |-> FALSE, aged |-> FALSE]
    /\ count = [scans |-> 0, restarts |-> 0, reloads |-> 0]

\* load(): the snapshot is used unless it is torn or was made from other
\* groups; one without a fingerprint is accepted.
Loads ==
    /\ loaded' = [static |-> static,
                  cfg |-> IF Exists(snapshot) /\ ~Torn(snapshot)
                             /\ Stored(snapshot) \in {None, static}
                          THEN snapshot.groups ELSE static]

Reload ==
    /\ proc.up /\ count.reloads < MaxReloads
    /\ count' = [count EXCEPT !.reloads = @ + 1]
    /\ Loads
    /\ UNCHANGED <<proc, world, static, scan, queue, retry, snapshot, cache>>

\* scan(): one at a time; a call during another returns at once.
Begins(force) ==
    IF scan.at = "idle"
    THEN /\ count.scans < MaxScans
         /\ count' = [count EXCEPT !.scans = @ + 1]
         /\ scan' = [at |-> "fetch", force |-> force]
    ELSE UNCHANGED <<scan, count>>

\* session_start: of the process, of a new session or of a subagent.
SessionStart ==
    /\ Loads
    /\ proc' = [proc EXCEPT !.up = TRUE]
    /\ Begins(FALSE)
    /\ UNCHANGED <<world, static, queue, retry, snapshot, cache>>

RouterScan ==
    /\ proc.up
    /\ Begins(TRUE)
    /\ UNCHANGED <<proc, world, static, loaded, queue, retry, snapshot, cache>>

\* The lists are fetched provider by provider; one that fails or lists
\* nothing keeps the entries it had.
Merged(models, listed) == [p \in Listers |-> models[p] \/ p \in listed]
Fetch ==
    /\ scan.at = "fetch"
    /\ \E listed \in SUBSET Listers :
          cache' = IF ~(scan.force \/ cache.aged) THEN cache
                   ELSE [cache EXCEPT !.models = Merged(@, listed),
                                      !.aged = IF listed = {} THEN @ ELSE FALSE]
    /\ scan' = [scan EXCEPT !.at = "probe"]
    /\ UNCHANGED <<proc, world, static, loaded, queue, retry, snapshot, count>>

\* A save that throws ends the scan; its finally opens the guard.
FetchThrows ==
    /\ scan.at = "fetch"
    /\ scan' = NoScan
    /\ UNCHANGED <<proc, world, static, loaded, queue, retry, snapshot, cache, count>>

\* The cloud candidates of the classifier are probed, then the snapshot is due.
Waiting(from, force) == [from |-> from, force |-> force, begun |-> FALSE, result |-> Full,
                         fp |-> 0, early |-> FALSE]  \* early: begun before the settle time was over
Probe ==
    /\ scan.at = "probe"
    /\ queue' = Append(queue, Waiting("scan", scan.force))
    /\ scan' = [scan EXCEPT !.at = "generate"]
    /\ UNCHANGED <<proc, world, static, loaded, retry, snapshot, cache, count>>

\* The local candidates are probed; the scan is over.
LocalProbe ==
    /\ scan.at = "localProbe"
    /\ scan' = NoScan
    /\ UNCHANGED <<proc, world, static, loaded, queue, retry, snapshot, cache, count>>

-----------------------------------------------------------------------------
\* A generation, before its await: the inventory and the fingerprint of the
\* groups are taken now, the rest is decided after the matching.
Drifted == Exists(snapshot) /\ Stored(snapshot) # loaded.static
NotDue(g) == ~g.force /\ CacheValid(cache) /\ Exists(snapshot) /\ ~Drifted
Found == IF proc.ready THEN {world, Broken} ELSE {Cold}

\* The end of the generation at the head: its caller goes on.
Ends ==
    /\ queue' = Tail(queue)
    /\ scan' = IF Head(queue).from = "scan" THEN [scan EXCEPT !.at = "localProbe"] ELSE scan
    /\ retry' = IF Head(queue).from = "retry" THEN "done" ELSE retry

\* Mutant: a generation that is not due never returns.
BeginGenerationSilently ==
    /\ queue # << >> /\ ~Head(queue).begun /\ ~NotDue(Head(queue))
    /\ \E r \in Found :
          queue' = [queue EXCEPT ![1] = [@ EXCEPT !.begun = TRUE, !.result = r,
                                         !.fp = loaded.static, !.early = ~proc.settled]]
    /\ UNCHANGED <<proc, world, static, loaded, scan, retry, snapshot, cache, count>>

BeginGeneration ==
    /\ queue # << >> /\ ~Head(queue).begun
    /\ IF NotDue(Head(queue)) THEN Ends
       ELSE /\ \E r \in Found :
                 queue' = [queue EXCEPT ![1] = [@ EXCEPT !.begun = TRUE, !.result = r,
                                                !.fp = loaded.static, !.early = ~proc.settled]]
            /\ UNCHANGED <<scan, retry>>
    /\ UNCHANGED <<proc, world, static, loaded, snapshot, cache, count>>

\* The snapshot the result is compared with: none for a forced scan.
Previous(g) == IF g.force \/ ~Exists(snapshot) \/ Torn(snapshot) THEN None ELSE snapshot.survivors
ConfigChanged(g) == Previous(g) # None /\ snapshot.configFp \notin {None, loaded.static}
Verdict(g) == Sanity(g.result, Previous(g), ConfigChanged(g))

\* Mutant: any scan repeats a refusal.
RepeatsEarly(g) ==
    Verdict(g) = "regression" /\ cache.refusal # None /\ cache.recent
    /\ Near(cache.refusal, g.result.survivors)

\* A settled scan repeats a refusal less than a day old.
Repeats(g) ==
    /\ Verdict(g) = "regression" /\ proc.settled
    /\ cache.refusal # None /\ cache.recent /\ Near(cache.refusal, g.result.survivors)

Refuse ==
    LET g == Head(queue) IN
    /\ queue # << >> /\ g.begun /\ Verdict(g) # "ok" /\ ~Repeats(g)
    /\ IF Verdict(g) = "regression"
       THEN /\ cache' = [cache EXCEPT !.refusal = g.result.survivors, !.recent = TRUE]
            /\ queue' = Tail(queue)
            /\ scan' = IF g.from = "scan" THEN [scan EXCEPT !.at = "localProbe"] ELSE scan
            /\ retry' = IF g.from = "retry" THEN "done"
                        ELSE IF ~proc.settled /\ retry = "none" THEN "armed" ELSE retry
       ELSE Ends /\ UNCHANGED cache
    /\ UNCHANGED <<proc, world, static, loaded, snapshot, count>>

\* Mutant: the groups of before the matching, the fingerprint of now.
SnapshotSwapped(g) == [torn |-> FALSE, survivors |-> g.result.survivors, groups |-> g.fp,
                       groupsFp |-> loaded.static, configFp |-> loaded.static]

\* The snapshot is made from the groups of now, the fingerprint is the one
\* taken before the matching.
Snapshot(g) == [torn |-> FALSE, survivors |-> g.result.survivors, groups |-> loaded.static,
                groupsFp |-> g.fp, configFp |-> loaded.static]
Accept ==
    LET g == Head(queue) IN
    /\ queue # << >> /\ g.begun /\ (Verdict(g) = "ok" \/ Repeats(g))
    /\ snapshot' = Snapshot(g)
    /\ loaded' = [loaded EXCEPT !.cfg = loaded.static]
    /\ cache' = [cache EXCEPT !.refusal = None, !.recent = FALSE, !.lastScan = "fresh"]
    /\ Ends
    /\ UNCHANGED <<proc, world, static, count>>

\* The settle retry: skipped when a scan is running.
RetryFires ==
    /\ retry = "armed" /\ proc.settled
    /\ IF scan.at = "idle"
       THEN retry' = "queued" /\ queue' = Append(queue, Waiting("retry", FALSE))
       ELSE retry' = "skipped" /\ UNCHANGED queue
    /\ UNCHANGED <<proc, world, static, loaded, scan, snapshot, cache, count>>

-----------------------------------------------------------------------------
\* The environment.  The registry is ready before the settle time is over.
Ready ==
    /\ proc.up /\ ~proc.ready
    /\ proc' = [proc EXCEPT !.ready = TRUE]
    /\ UNCHANGED <<world, static, loaded, scan, queue, retry, snapshot, cache, count>>

Settle ==
    /\ proc.ready /\ ~proc.settled
    /\ proc' = [proc EXCEPT !.settled = TRUE]
    /\ UNCHANGED <<world, static, loaded, scan, queue, retry, snapshot, cache, count>>

Lose ==
    /\ world = Full
    /\ world' = Shrunk
    /\ UNCHANGED <<proc, static, loaded, scan, queue, retry, snapshot, cache, count>>

Edit ==
    /\ static < MaxEdits
    /\ static' = static + 1
    /\ UNCHANGED <<proc, world, loaded, scan, queue, retry, snapshot, cache, count>>

\* A day, and a month: the refusal and the lists age, then the whole scan.
Day ==
    /\ cache' = [cache EXCEPT !.recent = FALSE, !.aged = TRUE]
    /\ UNCHANGED <<proc, world, static, loaded, scan, queue, retry, snapshot, count>>
Month ==
    /\ cache.lastScan = "fresh"
    /\ cache' = [cache EXCEPT !.recent = FALSE, !.aged = TRUE, !.lastScan = "old"]
    /\ UNCHANGED <<proc, world, static, loaded, scan, queue, retry, snapshot, count>>

\* The process ends anywhere, also while it writes the snapshot in place.
Crash ==
    /\ proc.up /\ count.restarts < MaxRestarts
    /\ count' = [count EXCEPT !.restarts = @ + 1]
    /\ proc' = Down /\ scan' = NoScan /\ queue' = << >> /\ retry' = "none"
    /\ \/ UNCHANGED snapshot
       \/ /\ queue # << >> /\ Head(queue).begun
          /\ Verdict(Head(queue)) = "ok" \/ Repeats(Head(queue))
          /\ snapshot' = [Snapshot(Head(queue)) EXCEPT !.torn = TRUE]
    /\ UNCHANGED <<world, static, loaded, cache>>

Generation == BeginGeneration \/ Refuse \/ Accept
ScanStep == Fetch \/ FetchThrows \/ Probe \/ LocalProbe
Environment == Ready \/ Settle \/ Lose \/ Edit \/ Day \/ Month \/ Crash
ConfigNext == SessionStart \/ RouterScan \/ Reload \/ ScanStep \/ Generation \/ RetryFires \/ Environment
ConfigSpec == ConfigInit /\ [][ConfigNext]_configVars

\* Every request has a time limit, the registry becomes ready and time passes.
Fairness ==
    /\ WF_configVars(ScanStep) /\ WF_configVars(Generation)
    /\ WF_configVars(RetryFires) /\ WF_configVars(Ready) /\ SF_configVars(Settle)
FairConfigSpec == ConfigSpec /\ Fairness

-----------------------------------------------------------------------------
\* A good snapshot is replaced by one with less than half its models only by
\* a forced scan, after a change of the configuration, or when a registry that
\* was ready found that little: never by a scan that ran too early, unless its
\* matching outlasted the settle time, which the code takes for a settled scan.
GoodSnapshotKept ==
    [][ (/\ Exists(snapshot) /\ ~Torn(snapshot) /\ snapshot' # snapshot
         /\ ~snapshot'.torn /\ Regressed(snapshot', snapshot.survivors))
        => LET g == Head(queue) IN
           \/ g.force \/ ConfigChanged(g) \/ g.result \in {world, Full}
           \/ g.early /\ proc.settled ]_configVars

\* A snapshot that is taken for current was built from the current groups,
\* although the groups may be edited and reloaded while it is being made.
SnapshotCurrent ==
    Exists(snapshot) /\ ~Torn(snapshot) /\ snapshot.groupsFp = static => snapshot.groups = static

\* Every scan ends and opens its guard, and the settle retry of a refused
\* start-up scan decides, unless a scan is running when it fires.
ScansEnd ==
    /\ scan.at # "idle" ~> scan.at = "idle"
    /\ retry = "armed" ~> retry \in {"done", "skipped", "none"}
=============================================================================
