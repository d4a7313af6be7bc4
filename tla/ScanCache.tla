------------------------------ MODULE ScanCache ------------------------------
(***************************************************************************)
(* The router's cache on disk (src/cache.ts), shared by the pi processes of *)
(* one project: the global scan cache and the project's state file, each    *)
(* written by a temporary file and a rename.  One process is single         *)
(* threaded and its loads and saves are synchronous, but the file operations*)
(* inside them interleave with those of the other processes, and a process  *)
(* may die between any two of them.                                         *)
(*                                                                          *)
(* Data: an error entry is its time stamp, a natural number; a list of      *)
(* entries sorted by time is the set of them.  model_blocklist stands for   *)
(* every record-valued key, available_models (a version of the scan) for    *)
(* every other one.  usage_log follows session_errors with an age limit     *)
(* where those have a cap, and is left out.                                 *)
(***************************************************************************)
EXTENDS Naturals, FiniteSets

CONSTANTS Procs,        \* pi processes started in one project
          Refs,         \* models that can be blocked
          Cap,          \* SESSION_ERROR_CAP
          MaxClock,     \* bound: time stamps given to records of any kind
          MaxDeaths     \* bound: crashes and failed writes together

ASSUME CacheAssumption ==
    Cap \in Nat \ {0} /\ MaxClock \in Nat \ {0} /\ MaxDeaths \in Nat

VARIABLES
    pc,        \* where a process is in loadCache or saveCache
    mem,       \* the cache object of a process
    globalf,   \* scan-cache.json
    projectf,  \* router-state.json: its session_errors
    gsync,     \* lastSync: the global file as the process last saw it
    psync,     \* lastProjectSync
    out,       \* the merged list a save is about to write
    timer,     \* the debounced save of a process
    own,       \* ghost: what this incarnation of a process recorded itself
    clock,     \* the last time stamp given to a record
    deaths     \* crashes and failed writes so far

vars == <<pc, mem, globalf, projectf, gsync, psync, out, timer, own, clock, deaths>>
files == <<globalf, projectf>>

Entries == 1..MaxClock
Phases == {"off", "idle", "loadProject",
           "writeGlobal", "syncGlobal", "readProject", "writeProject", "syncProject"}
Sync == {"never", "current", "stale"}   \* stale: written by another process since

\* The newest Cap entries: sorted by ts, then slice(-SESSION_ERROR_CAP).
Newest(S) == {e \in S : Cardinality({x \in S : x > e}) < Cap}

Empty == [errors |-> {}, blocks |-> {}, scan |-> 0, breaker |-> FALSE]

\* Mutant: the volatile key is stripped on writes only.
FromDiskWhole == globalf
\* readFromDisk: the volatile key is dropped from what an older version wrote.
FromDisk == [globalf EXCEPT !.breaker = FALSE]

\* mergeExternal: a key the memory lacks is taken whole, a record-valued key
\* entry by entry; on a conflict the memory wins.
MergeExternal(m, d) ==
    [errors  |-> IF m.errors = {} THEN d.errors ELSE m.errors,
     blocks  |-> m.blocks \cup d.blocks,
     scan    |-> IF m.scan = 0 THEN d.scan ELSE m.scan,
     breaker |-> m.breaker \/ d.breaker]

\* The other processes' view of a file this process has just renamed.
StaleFor(p, sync) == [q \in Procs |-> IF q # p /\ sync[q] = "current" THEN "stale" ELSE sync[q]]

-----------------------------------------------------------------------------
\* A first installation, or the files of an older version: one file, with
\* the instance keys and the breaker in it.
Init ==
    /\ pc = [p \in Procs |-> "off"]
    /\ mem = [p \in Procs |-> Empty]
    /\ globalf \in {Empty, [errors |-> {1}, blocks |-> {}, scan |-> 1, breaker |-> TRUE]}
    /\ clock = 1
    /\ projectf = {}
    /\ gsync = [p \in Procs |-> "never"] /\ psync = [p \in Procs |-> "never"]
    /\ out = [p \in Procs |-> {}]
    /\ timer = [p \in Procs |-> "none"]
    /\ own = [p \in Procs |-> Empty]
    /\ deaths = 0

\* Records and saves of their own accord take time: the bound on both.
Tick == clock < MaxClock /\ clock' = clock + 1

Goto(p, l) == pc' = [pc EXCEPT ![p] = l]

-----------------------------------------------------------------------------
\* loadCache, on the start of the process and of every session in it: a file
\* that changed since the last sync is read; an empty object that was never
\* synced is filled with it, any other one is merged.
BeginLoad(p) ==
    /\ pc[p] \in {"off", "idle"}
    /\ mem' = [mem EXCEPT ![p] =
          CASE gsync[p] = "current"               -> @
            [] gsync[p] = "never" /\ @ = Empty    -> FromDisk
            [] OTHER                              -> MergeExternal(@, FromDisk)]
    /\ gsync' = [gsync EXCEPT ![p] = "current"]
    /\ Goto(p, "loadProject")
    /\ UNCHANGED <<files, psync, out, timer, own, clock, deaths>>

\* Mutants: the file replaces the memory; no cap.
OverlayReplaces(file, errors) == file
OverlayWhole(file, errors) == file \cup errors
\* loadInstanceState: the union of the project file and the memory, capped.
Overlay(file, errors) == Newest(file \cup errors)
LoadProject(p) ==
    /\ pc[p] = "loadProject"
    /\ mem' = [mem EXCEPT ![p].errors =
          IF psync[p] = "current" \/ projectf = {} THEN @ ELSE Overlay(projectf, @)]
    /\ psync' = [psync EXCEPT ![p] = "current"]
    /\ Goto(p, "idle")
    /\ UNCHANGED <<files, gsync, out, timer, own, clock, deaths>>

-----------------------------------------------------------------------------
\* The start of saveCache with m in memory: the global file is merged in if
\* it changed since the last sync.
Saving(p, m) ==
    /\ mem' = [mem EXCEPT ![p] =
          IF gsync[p] = "current" THEN m ELSE MergeExternal(m, FromDisk)]
    /\ Goto(p, "writeGlobal")

\* Every ten turns, after a command, on shutdown and on a signal.
BeginSave(p) ==
    /\ pc[p] = "idle" /\ Tick
    /\ Saving(p, mem[p])
    /\ UNCHANGED <<files, gsync, psync, out, timer, own, deaths>>

\* The timer of scheduleSessionErrorSave: it is forgotten before it saves.
TimerFires(p) ==
    /\ pc[p] = "idle" /\ timer[p] = "armed"
    /\ timer' = [timer EXCEPT ![p] = "none"]
    /\ Saving(p, mem[p])
    /\ UNCHANGED <<files, gsync, psync, out, own, clock, deaths>>

\* The rename: without the instance keys and without the volatile one.
WriteGlobal(p) ==
    /\ pc[p] = "writeGlobal"
    /\ globalf' = [mem[p] EXCEPT !.errors = {}, !.breaker = FALSE]
    /\ gsync' = StaleFor(p, gsync)
    /\ Goto(p, "syncGlobal")
    /\ UNCHANGED <<mem, projectf, psync, out, timer, own, clock, deaths>>

\* The stat after the rename: a rename of another process in between counts
\* as seen.
SyncGlobal(p) ==
    /\ pc[p] = "syncGlobal"
    /\ gsync' = [gsync EXCEPT ![p] = "current"]
    /\ Goto(p, "readProject")
    /\ UNCHANGED <<mem, files, psync, out, timer, own, clock, deaths>>

\* Mutant: a changed file wins over the memory.
ReadProjectOver(p) ==
    /\ pc[p] = "readProject"
    /\ out' = [out EXCEPT ![p] = IF psync[p] = "current" THEN mem[p].errors ELSE projectf]
    /\ Goto(p, "writeProject")
    /\ UNCHANGED <<mem, files, gsync, psync, timer, own, clock, deaths>>
\* The project file is read only if it changed since the last sync.  The
\* merged list goes to the file; the memory keeps its own.
ReadProject(p) ==
    /\ pc[p] = "readProject"
    /\ out' = [out EXCEPT ![p] =
          Newest((IF psync[p] = "current" THEN {} ELSE projectf) \cup mem[p].errors)]
    /\ Goto(p, "writeProject")
    /\ UNCHANGED <<mem, files, gsync, psync, timer, own, clock, deaths>>

WriteProject(p) ==
    /\ pc[p] = "writeProject"
    /\ projectf' = out[p]
    /\ out' = [out EXCEPT ![p] = {}]
    /\ psync' = StaleFor(p, psync)
    /\ Goto(p, "syncProject")
    /\ UNCHANGED <<mem, globalf, gsync, timer, own, clock, deaths>>

SyncProject(p) ==
    /\ pc[p] = "syncProject"
    /\ psync' = [psync EXCEPT ![p] = "current"]
    /\ timer' = [timer EXCEPT ![p] = IF @ = "failed" THEN "none" ELSE @]
    /\ Goto(p, "idle")
    /\ UNCHANGED <<mem, files, gsync, out, own, clock, deaths>>

\* writeJsonAtomic throws (no space, no permission): the save ends there and
\* its caller goes on; the next save tries again.
SaveFails(p) ==
    /\ pc[p] \in {"writeGlobal", "writeProject"} /\ deaths < MaxDeaths
    /\ deaths' = deaths + 1
    /\ timer' = [timer EXCEPT ![p] = IF @ = "none" THEN "failed" ELSE @]
    /\ out' = [out EXCEPT ![p] = {}]
    /\ Goto(p, "idle")
    /\ UNCHANGED <<mem, files, gsync, psync, own, clock>>

-----------------------------------------------------------------------------
\* pushSessionError, then scheduleSessionErrorSave.
Push(errors, e) == Newest(errors \cup {e})
RecordError(p) ==
    /\ pc[p] = "idle" /\ Tick
    /\ mem' = [mem EXCEPT ![p].errors = Push(@, clock + 1)]
    /\ own' = [own EXCEPT ![p].errors = @ \cup {clock + 1}]
    /\ timer' = [timer EXCEPT ![p] = "armed"]
    /\ UNCHANGED <<pc, files, gsync, psync, out, deaths>>

\* A block is saved at once, and so is the success that clears it.
RecordBlock(p, r) ==
    /\ pc[p] = "idle" /\ r \notin mem[p].blocks /\ Tick
    /\ own' = [own EXCEPT ![p].blocks = @ \cup {r}]
    /\ Saving(p, [mem[p] EXCEPT !.blocks = @ \cup {r}])
    /\ UNCHANGED <<files, gsync, psync, out, timer, deaths>>

ClearBlock(p, r) ==
    /\ pc[p] = "idle" /\ r \in mem[p].blocks /\ Tick
    /\ own' = [own EXCEPT ![p].blocks = @ \ {r}]
    /\ Saving(p, [mem[p] EXCEPT !.blocks = @ \ {r}])
    /\ UNCHANGED <<files, gsync, psync, out, timer, deaths>>

\* A scan replaces the models in the shared object and saves.
StoreScan(p) ==
    /\ pc[p] = "idle" /\ Tick
    /\ own' = [own EXCEPT ![p].scan = clock + 1]
    /\ Saving(p, [mem[p] EXCEPT !.scan = clock + 1])
    /\ UNCHANGED <<files, gsync, psync, out, timer, deaths>>

\* The provider breaker opens: in memory only.
TripBreaker(p) ==
    /\ pc[p] = "idle" /\ ~mem[p].breaker /\ Tick
    /\ mem' = [mem EXCEPT ![p].breaker = TRUE]
    /\ own' = [own EXCEPT ![p].breaker = TRUE]
    /\ UNCHANGED <<pc, files, gsync, psync, out, timer, deaths>>

-----------------------------------------------------------------------------
\* The process is gone: the next one under this name starts from the files.
Gone(p) ==
    /\ Goto(p, "off")
    /\ mem' = [mem EXCEPT ![p] = Empty]
    /\ own' = [own EXCEPT ![p] = Empty]
    /\ gsync' = [gsync EXCEPT ![p] = "never"] /\ psync' = [psync EXCEPT ![p] = "never"]
    /\ out' = [out EXCEPT ![p] = {}]
    /\ timer' = [timer EXCEPT ![p] = "none"]
    /\ UNCHANGED <<files, clock>>

\* session_shutdown, SIGINT and SIGTERM: a last save has just finished.
Exit(p) ==
    /\ pc[p] = "syncProject"
    /\ Gone(p)
    /\ UNCHANGED deaths

Crash(p) ==
    /\ pc[p] # "off" /\ deaths < MaxDeaths
    /\ deaths' = deaths + 1
    /\ Gone(p)

SaveStep(p) ==
    WriteGlobal(p) \/ SyncGlobal(p) \/ ReadProject(p) \/ WriteProject(p) \/ SyncProject(p)
Record(p) ==
    \/ RecordError(p) \/ StoreScan(p) \/ TripBreaker(p)
    \/ \E r \in Refs : RecordBlock(p, r) \/ ClearBlock(p, r)

Step(p) ==
    \/ BeginLoad(p) \/ LoadProject(p) \/ BeginSave(p) \/ TimerFires(p) \/ SaveStep(p)
    \/ SaveFails(p) \/ Record(p) \/ Exit(p) \/ Crash(p)
Next == \E p \in Procs : Step(p)
Spec == Init /\ [][Next]_vars

\* A synchronous call returns, and an armed timer fires unless the loop dies.
Fairness == \A p \in Procs :
    WF_vars(LoadProject(p)) /\ WF_vars(SaveStep(p)) /\ SF_vars(TimerFires(p))
FairSpec == Spec /\ Fairness

-----------------------------------------------------------------------------
CacheObject == [errors : SUBSET Entries, blocks : SUBSET Refs, scan : 0..MaxClock, breaker : BOOLEAN]

TypeOK ==
    /\ pc \in [Procs -> Phases]
    /\ mem \in [Procs -> CacheObject] /\ own \in [Procs -> CacheObject]
    /\ globalf \in CacheObject
    /\ projectf \in SUBSET Entries
    /\ gsync \in [Procs -> Sync] /\ psync \in [Procs -> Sync]
    /\ out \in [Procs -> SUBSET Entries]
    /\ timer \in [Procs -> {"none", "armed", "failed"}]
    /\ deaths \in 0..MaxDeaths

\* Enough newer entries to push e out of a capped list.
PushedOut(e, S) == Cardinality({x \in S : x > e}) >= Cap

\* What a live process recorded and has not taken back is in its memory,
\* whatever it merged from the files since: an error unless enough newer ones
\* are there, a block, and a scan unless it made a newer one itself.  The ring
\* buffer never holds more than its cap, in no memory and on no way to a file.
OwnKept == TypeOK /\ Cardinality(projectf) <= Cap /\ \A p \in Procs :
    /\ Cardinality(mem[p].errors) <= Cap /\ Cardinality(out[p]) <= Cap
    /\ \A e \in own[p].errors : e \in mem[p].errors \/ PushedOut(e, mem[p].errors)
    /\ own[p].blocks \subseteq mem[p].blocks
    /\ own[p].scan # 0 => mem[p].scan = own[p].scan

\* An open breaker is in the memory of the process that tripped it and
\* nowhere else: not after a restart, not in another process, and not from
\* the file of an older version that still wrote it.
BreakerVolatile == \A p \in Procs : mem[p].breaker => own[p].breaker

\* An entry that waits for the debounced save reaches the project file, also
\* when other processes save at the same time, unless its process dies, its
\* save fails or newer entries have pushed it out.
RecordedPersists == \A p \in Procs, e \in Entries :
    e \in own[p].errors /\ timer[p] = "armed"
        ~> \/ e \notin own[p].errors
           \/ timer[p] = "failed"
           \/ e \in projectf
           \/ PushedOut(e, mem[p].errors) \/ PushedOut(e, projectf)
=============================================================================
