--------------------------- MODULE ScanCacheProofs ---------------------------
(***************************************************************************)
(* Proofs about ScanCache, for any number of processes, models, time       *)
(* stamps and deaths and any cap of the error list.  The invariant says of *)
(* each process that its memory keeps what it recorded (Keeps); the heart  *)
(* of it is that a list cut to its newest entries still holds enough newer *)
(* ones for every entry it lost, by this cut or by an earlier one          *)
(* (NewestProperties).                                                     *)
(*                                                                         *)
(* The last sections are about Classifier and Probes, for any sessions,    *)
(* prompts, models and configurations and any size of the answer cache and *)
(* of the probes.                                                          *)
(***************************************************************************)
EXTENDS ScanCache, Probes, ListsProofs

-----------------------------------------------------------------------------
(* What a process recorded is in its memory: the part of OwnKept and of    *)
(* BreakerVolatile that is about one process.                              *)
Keeps(o, m) ==
    /\ Cardinality(m.errors) <= Cap
    /\ \A e \in o.errors : e \in m.errors \/ PushedOut(e, m.errors)
    /\ o.blocks \subseteq m.blocks
    /\ o.scan # 0 => m.scan = o.scan
    /\ m.breaker => o.breaker

(* The global file has no more errors than fit: those of an older version. *)
IInv ==
    /\ TypeOK /\ clock \in 1 .. MaxClock
    /\ Cardinality(projectf) <= Cap /\ Cardinality(globalf.errors) <= Cap
    /\ \A p \in Procs : Cardinality(out[p]) <= Cap /\ Keeps(own[p], mem[p])

-----------------------------------------------------------------------------
(* Capped lists.                                                           *)
LEMMA EntriesFinite ==
    ASSUME NEW S \in SUBSET Entries
    PROVE  /\ IsFiniteSet(S) /\ Cardinality(S) \in Nat
           /\ \A T \in SUBSET S :
                 IsFiniteSet(T) /\ Cardinality(T) \in Nat /\ Cardinality(T) <= Cardinality(S)
<1>1. IsFiniteSet(Entries)
  BY CacheAssumption, FS_Interval DEF Entries
<1>2. IsFiniteSet(S)
  BY <1>1, FS_Subset
<1> QED
  BY <1>2, FS_Subset, FS_CardinalityType

(* A family of subsets of a finite set has a minimal member.               *)
LEMMA MinimalSubset ==
    ASSUME NEW S, IsFiniteSet(S), NEW F \in SUBSET SUBSET S, F # {}
    PROVE  \E A \in F : \A B \in F : ~(B \subseteq A /\ B # A)
<1>1. IsWellFoundedOn(StrictSubsetOrdering(S), SUBSET S)
  BY FS_StrictSubsetOrderingWellFounded, FS_FiniteSubsetsOfFinite
<1>2. \E A \in F : \A B \in F : ~(<<B, A>> \in StrictSubsetOrdering(S))
  BY <1>1, WFMin
<1> QED
  BY <1>2 DEF StrictSubsetOrdering

LEMMA SmallestEntry ==
    ASSUME NEW S \in SUBSET Entries, S # {}
    PROVE  \E m \in S : \A x \in S : m <= x
<1> DEFINE Below(m) == {x \in S : x < m}
           F == {Below(m) : m \in S}
<1>1. IsFiniteSet(S) /\ F \in SUBSET SUBSET S /\ F # {}
  BY EntriesFinite
<1> HIDE DEF F
<1>2. PICK A \in F : \A B \in F : ~(B \subseteq A /\ B # A)
  BY <1>1, MinimalSubset
<1>3. PICK m \in S : A = Below(m)
  BY <1>2 DEF F
<1>4. \A x \in S : x \in Nat
  BY CacheAssumption DEF Entries
<1>5. ASSUME NEW x \in S, x < m PROVE FALSE
  <2>1. x \in Below(m) /\ x \notin Below(x) /\ Below(x) \subseteq Below(m)
    BY <1>4, <1>5
  <2> QED
    BY <1>2, <1>3, <2>1 DEF F
<1> QED
  BY <1>4, <1>5

LEMMA GreatestEntry ==
    ASSUME NEW S \in SUBSET Entries, S # {}
    PROVE  \E m \in S : \A x \in S : x <= m
<1> DEFINE Above(m) == {x \in S : x > m}
           F == {Above(m) : m \in S}
<1>1. IsFiniteSet(S) /\ F \in SUBSET SUBSET S /\ F # {}
  BY EntriesFinite
<1> HIDE DEF F
<1>2. PICK A \in F : \A B \in F : ~(B \subseteq A /\ B # A)
  BY <1>1, MinimalSubset
<1>3. PICK m \in S : A = Above(m)
  BY <1>2 DEF F
<1>4. \A x \in S : x \in Nat
  BY CacheAssumption DEF Entries
<1>5. ASSUME NEW x \in S, x > m PROVE FALSE
  <2>1. x \in Above(m) /\ x \notin Above(x) /\ Above(x) \subseteq Above(m)
    BY <1>4, <1>5
  <2> QED
    BY <1>2, <1>3, <2>1 DEF F
<1> QED
  BY <1>4, <1>5

(* The newest entries fit, and whoever is not among them was pushed out by *)
(* those that are.                                                         *)
LEMMA NewestProperties ==
    ASSUME NEW S \in SUBSET Entries
    PROVE  /\ Newest(S) \subseteq S /\ Cardinality(Newest(S)) <= Cap
           /\ \A e \in Entries : PushedOut(e, S) => PushedOut(e, Newest(S))
           /\ \A e \in S : e \in Newest(S) \/ PushedOut(e, Newest(S))
<1> DEFINE N == Newest(S)
           Over(e) == {x \in S : x > e}
<1>0. Cap \in Nat \ {0} /\ Entries \subseteq Nat
  BY CacheAssumption DEF Entries
<1>1. N \subseteq S /\ N \in SUBSET Entries /\ Cap \in Nat \ {0} /\ Entries \subseteq Nat
  BY <1>0 DEF Newest
<1>2. \A e \in S : e \in N <=> Cardinality(Over(e)) < Cap
  BY DEF Newest
<1>3. \A T \in SUBSET S : IsFiniteSet(T) /\ Cardinality(T) \in Nat
  BY EntriesFinite
<1> HIDE DEF N
<1>4. Cardinality(N) <= Cap
  <2>1. CASE N = {}
    BY <1>1, <2>1, FS_EmptySet
  <2>2. CASE N # {}
    <3>1. PICK m \in N : \A x \in N : m <= x
      BY <1>1, <2>2, SmallestEntry
    <3>2. N \ {m} \in SUBSET Over(m)
      BY <1>1, <3>1
    <3>3. Cardinality(Over(m)) < Cap /\ IsFiniteSet(Over(m)) /\ Cardinality(Over(m)) \in Nat
      BY <1>1, <1>2, <1>3, <3>1
    <3>4. Cardinality(N \ {m}) <= Cardinality(Over(m)) /\ Cardinality(N \ {m}) \in Nat
      BY <3>2, <3>3, FS_Subset, FS_CardinalityType
    <3>5. Cardinality(N \ {m}) = Cardinality(N) - 1 /\ Cardinality(N) \in Nat
      BY <1>1, <1>3, <3>1, FS_RemoveElement
    <3> QED
      BY <1>1, <3>3, <3>4, <3>5
  <2> QED
    BY <2>1, <2>2
<1>5. ASSUME NEW e \in Entries, Cardinality(Over(e)) >= Cap
      PROVE  PushedOut(e, N)
  <2> DEFINE A == {x \in N : x > e}
             B == Over(e) \ A
  <2>1. Cardinality(A) \in Nat /\ IsFiniteSet(A)
    <3>1. A \in SUBSET S
      BY <1>1
    <3> QED
      BY <1>3, <3>1
  <2>2. ASSUME Cardinality(A) < Cap PROVE FALSE
    <3>1. A # Over(e)
      BY <1>1, <1>5, <2>1, <2>2
    <3>2. A \subseteq Over(e) /\ B # {} /\ B \in SUBSET Entries
      BY <1>1, <3>1
    <3>3. PICK m \in B : \A x \in B : x <= m
      BY <3>2, GreatestEntry
    <3>4. m \in S /\ m > e /\ m \notin N /\ m \in Nat /\ e \in Nat
      BY <1>1, <3>3
    <3>5. Over(m) \in SUBSET A
      <4> SUFFICES ASSUME NEW x \in S, x > m PROVE x \in A
        OBVIOUS
      <4>1. x \in Nat /\ x > e /\ ~(x <= m)
        BY <1>1, <3>4
      <4>2. x \notin B
        BY <3>3, <4>1
      <4> QED
        BY <4>1, <4>2
    <3>6. Cardinality(Over(m)) <= Cardinality(A) /\ Cardinality(Over(m)) \in Nat
      BY <1>3, <2>1, <3>5, FS_Subset
    <3>7. Cardinality(Over(m)) < Cap
      BY <1>1, <2>1, <2>2, <3>6
    <3> QED
      BY <1>2, <3>4, <3>7
  <2>3. Cardinality(A) >= Cap
    BY <1>1, <2>1, <2>2
  <2> QED
    BY <2>3 DEF PushedOut
<1>6. \A e \in Entries : PushedOut(e, S) => PushedOut(e, N)
  BY <1>5 DEF PushedOut
<1>7. ASSUME NEW e \in S, e \notin N PROVE PushedOut(e, N)
  <2>1. Cardinality(Over(e)) \in Nat
    BY <1>3
  <2>2. Cardinality(Over(e)) >= Cap
    BY <1>1, <1>2, <1>7, <2>1
  <2> QED
    BY <1>5, <2>2
<1> QED
  BY <1>1, <1>4, <1>6, <1>7 DEF N

LEMMA PushedByMore ==
    ASSUME NEW S \in SUBSET Entries, NEW T \in SUBSET S, NEW e \in Entries, PushedOut(e, T)
    PROVE  PushedOut(e, S)
<1>1. {x \in T : x > e} \in SUBSET {x \in S : x > e} /\ {x \in S : x > e} \in SUBSET Entries
  OBVIOUS
<1>2. /\ Cardinality({x \in T : x > e}) <= Cardinality({x \in S : x > e})
      /\ Cardinality({x \in T : x > e}) \in Nat /\ Cardinality({x \in S : x > e}) \in Nat
  BY <1>1, EntriesFinite
<1> QED
  BY <1>2, CacheAssumption DEF PushedOut

-----------------------------------------------------------------------------
(* A memory that grows by a merge, by a capped union or by a record keeps  *)
(* what is its own.                                                        *)
LEMMA NothingOwnedByEmpty ==
    ASSUME NEW o \in CacheObject, NEW m \in CacheObject, Keeps(o, m), m.errors = {}
    PROVE  o.errors = {}
<1>1. \A e : {x \in {} : x > e} = {}
  OBVIOUS
<1>2. \A e : ~PushedOut(e, {})
  BY <1>1, FS_EmptySet, CacheAssumption DEF PushedOut
<1> QED
  BY <1>2 DEF Keeps

LEMMA UnionKeeps ==
    ASSUME NEW o \in CacheObject, NEW m \in CacheObject, Keeps(o, m), NEW file \in SUBSET Entries
    PROVE  LET S == Newest(file \cup m.errors) IN
           /\ S \in SUBSET Entries /\ Cardinality(S) <= Cap
           /\ \A e \in o.errors : e \in S \/ PushedOut(e, S)
<1> DEFINE U == file \cup m.errors
<1>1. U \in SUBSET Entries /\ m.errors \in SUBSET U /\ o.errors \in SUBSET Entries
  BY DEF CacheObject
<1>2. /\ Newest(U) \subseteq U /\ Cardinality(Newest(U)) <= Cap
      /\ \A e \in Entries : PushedOut(e, U) => PushedOut(e, Newest(U))
      /\ \A e \in U : e \in Newest(U) \/ PushedOut(e, Newest(U))
  BY <1>1, NewestProperties
<1>3. ASSUME NEW e \in o.errors PROVE e \in Newest(U) \/ PushedOut(e, Newest(U))
  <2>1. e \in m.errors \/ PushedOut(e, m.errors)
    BY DEF Keeps
  <2>2. PushedOut(e, m.errors) => PushedOut(e, U)
    BY <1>1, PushedByMore
  <2> QED
    BY <1>1, <1>2, <2>1, <2>2
<1> QED
  BY <1>1, <1>2, <1>3

LEMMA DiskClean ==
    ASSUME IInv
    PROVE  FromDisk \in CacheObject /\ ~FromDisk.breaker /\ Cardinality(FromDisk.errors) <= Cap
BY DEF IInv, TypeOK, FromDisk, CacheObject

LEMMA MergeKeeps ==
    ASSUME NEW o \in CacheObject, NEW m \in CacheObject, Keeps(o, m),
           NEW d \in CacheObject, ~d.breaker, Cardinality(d.errors) <= Cap
    PROVE  MergeExternal(m, d) \in CacheObject /\ Keeps(o, MergeExternal(m, d))
<1> DEFINE n == MergeExternal(m, d)
<1>1. /\ n \in CacheObject /\ n.errors = (IF m.errors = {} THEN d.errors ELSE m.errors)
      /\ n.blocks = m.blocks \cup d.blocks /\ n.scan = (IF m.scan = 0 THEN d.scan ELSE m.scan)
      /\ n.breaker <=> m.breaker
  BY DEF MergeExternal, CacheObject
<1> HIDE DEF n
<1>2. CASE m.errors = {}
  <2>1. o.errors = {}
    BY <1>2, NothingOwnedByEmpty
  <2> QED
    BY <1>1, <1>2, <2>1 DEF Keeps, n
<1>3. CASE m.errors # {}
  BY <1>1, <1>3 DEF Keeps, n
<1> QED
  BY <1>2, <1>3

-----------------------------------------------------------------------------
(* Every action changes the memory of one process at most.                 *)
Kept ==
    /\ mem \in [Procs -> CacheObject] /\ own \in [Procs -> CacheObject]
    /\ \A q \in Procs : Keeps(own[q], mem[q])

LEMMA OneProcess ==
    ASSUME IInv, NEW p \in Procs, NEW o \in CacheObject, NEW m \in CacheObject, Keeps(o, m),
           mem' = [mem EXCEPT ![p] = m], own' = [own EXCEPT ![p] = o]
    PROVE  Kept'
<1>1. mem' \in [Procs -> CacheObject] /\ own' \in [Procs -> CacheObject]
  BY DEF IInv, TypeOK
<1>2. ASSUME NEW q \in Procs PROVE Keeps(own'[q], mem'[q])
  <2>1. CASE q = p
    BY <2>1 DEF IInv, TypeOK
  <2>2. CASE q # p
    BY <2>2 DEF IInv, TypeOK
  <2> QED
    BY <2>1, <2>2
<1> QED
  BY <1>1, <1>2 DEF Kept

LEMMA SameMemory ==
    ASSUME IInv, UNCHANGED <<mem, own>>
    PROVE  Kept'
BY DEF IInv, TypeOK, Kept

(* What a load or a save leaves in memory.                                 *)
LEMMA ReloadKeeps ==
    ASSUME IInv, NEW o \in CacheObject, NEW m \in CacheObject, Keeps(o, m)
    PROVE  /\ MergeExternal(m, FromDisk) \in CacheObject /\ Keeps(o, MergeExternal(m, FromDisk))
           /\ m = Empty => FromDisk \in CacheObject /\ Keeps(o, FromDisk)
<1>1. FromDisk \in CacheObject /\ ~FromDisk.breaker /\ Cardinality(FromDisk.errors) <= Cap
  BY DiskClean
<1>2. MergeExternal(m, FromDisk) \in CacheObject /\ Keeps(o, MergeExternal(m, FromDisk))
  BY <1>1, MergeKeeps
<1>3. ASSUME m = Empty PROVE Keeps(o, FromDisk)
  <2>1. m.errors = {} /\ m.blocks = {} /\ m.scan = 0
    BY <1>3 DEF Empty
  <2>2. o.errors = {}
    BY <2>1, NothingOwnedByEmpty
  <2>3. o.blocks = {} /\ o.scan = 0
    BY <2>1 DEF Keeps, CacheObject
  <2> QED
    BY <1>1, <2>2, <2>3 DEF Keeps
<1> QED
  BY <1>1, <1>2, <1>3

LEMMA SavingKeeps ==
    ASSUME IInv, NEW p \in Procs, NEW o \in CacheObject, NEW m \in CacheObject, Keeps(o, m),
           Saving(p, m), own' = [own EXCEPT ![p] = o]
    PROVE  Kept' /\ pc' \in [Procs -> Phases]
<1> DEFINE n == IF gsync[p] = "current" THEN m ELSE MergeExternal(m, FromDisk)
<1>1. n \in CacheObject /\ Keeps(o, n)
  BY ReloadKeeps
<1>2. mem' = [mem EXCEPT ![p] = n] /\ Goto(p, "writeGlobal")
  BY DEF Saving
<1> HIDE DEF n
<1>3. Kept'
  BY <1>1, <1>2, OneProcess
<1>4. pc' \in [Procs -> Phases]
  BY <1>2 DEF Goto, Phases, IInv, TypeOK
<1> QED
  BY <1>3, <1>4

LEMMA SyncsStayTyped ==
    ASSUME NEW p \in Procs, NEW sync \in [Procs -> Sync]
    PROVE  StaleFor(p, sync) \in [Procs -> Sync]
BY DEF StaleFor, Sync

(* What is left of the invariant when memory and ghost are kept.           *)
Shared ==
    /\ pc \in [Procs -> Phases]
    /\ globalf \in CacheObject /\ projectf \in SUBSET Entries
    /\ gsync \in [Procs -> Sync] /\ psync \in [Procs -> Sync]
    /\ out \in [Procs -> SUBSET Entries] /\ timer \in [Procs -> {"none", "armed", "failed"}]
    /\ deaths \in 0 .. MaxDeaths /\ clock \in 1 .. MaxClock
    /\ Cardinality(projectf) <= Cap /\ Cardinality(globalf.errors) <= Cap
    /\ \A q \in Procs : Cardinality(out[q]) <= Cap

LEMMA Parts == (IInv <=> Kept /\ Shared) /\ (IInv' <=> Kept' /\ Shared')
BY DEF IInv, TypeOK, Kept, Shared

-----------------------------------------------------------------------------
(* One lemma for each action.                                              *)
LEMMA BeginLoadKeeps ==
    ASSUME IInv, NEW p \in Procs, BeginLoad(p)
    PROVE  IInv'
<1> DEFINE m == mem[p]
           n == CASE gsync[p] = "current"            -> m
                  [] gsync[p] = "never" /\ m = Empty -> FromDisk
                  [] OTHER                           -> MergeExternal(m, FromDisk)
<1>1. m \in CacheObject /\ own[p] \in CacheObject /\ Keeps(own[p], m)
  BY DEF IInv, TypeOK
<1>2. n \in {m, MergeExternal(m, FromDisk)} \/ (m = Empty /\ n = FromDisk)
  BY DEF IInv, TypeOK, Sync
<1>3. n \in CacheObject /\ Keeps(own[p], n)
  BY <1>1, <1>2, ReloadKeeps
<1>4. mem' = [mem EXCEPT ![p] = n]
  BY DEF BeginLoad, IInv, TypeOK
<1>5. own' = [own EXCEPT ![p] = own[p]]
  BY DEF BeginLoad, IInv, TypeOK
<1> HIDE DEF n
<1>6. Kept'
  BY <1>1, <1>3, <1>4, <1>5, OneProcess
<1>7. Shared'
  BY DEF Shared, IInv, TypeOK, BeginLoad, Goto, Phases, Sync, files
<1> QED
  BY <1>6, <1>7, Parts

LEMMA LoadProjectKeeps ==
    ASSUME IInv, NEW p \in Procs, LoadProject(p)
    PROVE  IInv'
<1> DEFINE m == mem[p]
           S == Newest(projectf \cup m.errors)
           e == IF psync[p] = "current" \/ projectf = {} THEN m.errors ELSE S
           n == [m EXCEPT !.errors = e]
<1>1. m \in CacheObject /\ own[p] \in CacheObject /\ Keeps(own[p], m)
  BY DEF IInv, TypeOK
<1>2. /\ S \in SUBSET Entries /\ Cardinality(S) <= Cap
      /\ \A x \in own[p].errors : x \in S \/ PushedOut(x, S)
  BY <1>1, UnionKeeps DEF IInv, TypeOK
<1>3. n \in CacheObject /\ Keeps(own[p], n)
  BY <1>1, <1>2 DEF CacheObject, Keeps
<1>4. mem' = [mem EXCEPT ![p] = n]
  BY DEF LoadProject, Overlay, IInv, TypeOK
<1>5. own' = [own EXCEPT ![p] = own[p]]
  BY DEF LoadProject, IInv, TypeOK
<1> HIDE DEF n
<1>6. Kept'
  BY <1>1, <1>3, <1>4, <1>5, OneProcess
<1>7. Shared'
  BY DEF Shared, IInv, TypeOK, LoadProject, Goto, Phases, Sync, files
<1> QED
  BY <1>6, <1>7, Parts

LEMMA SaveBegins ==
    ASSUME IInv, NEW p \in Procs, BeginSave(p) \/ TimerFires(p)
    PROVE  IInv'
<1>1. mem[p] \in CacheObject /\ own[p] \in CacheObject /\ Keeps(own[p], mem[p])
  BY DEF IInv, TypeOK
<1>2. Saving(p, mem[p]) /\ own' = [own EXCEPT ![p] = own[p]]
  BY DEF BeginSave, TimerFires, IInv, TypeOK
<1>3. Kept' /\ pc' \in [Procs -> Phases]
  BY <1>1, <1>2, SavingKeeps
<1>4. Shared'
  BY <1>3, CacheAssumption DEF Shared, IInv, TypeOK, BeginSave, TimerFires, Tick, files
<1> QED
  BY <1>3, <1>4, Parts

LEMMA SaveStepKeeps ==
    ASSUME IInv, NEW p \in Procs, SaveStep(p)
    PROVE  IInv'
<1>1. Kept'
  BY SameMemory DEF SaveStep, WriteGlobal, SyncGlobal, ReadProject, WriteProject, SyncProject
<1>2. ASSUME WriteGlobal(p) PROVE Shared'
  <2>1. globalf' \in CacheObject /\ globalf'.errors = {}
    BY <1>2 DEF WriteGlobal, IInv, TypeOK, CacheObject
  <2>2. Cardinality(globalf'.errors) <= Cap
    BY <2>1, FS_EmptySet, CacheAssumption
  <2>3. gsync' \in [Procs -> Sync]
    BY <1>2, SyncsStayTyped DEF WriteGlobal, IInv, TypeOK
  <2> QED
    BY <1>2, <2>1, <2>2, <2>3 DEF Shared, IInv, TypeOK, WriteGlobal, Goto, Phases
<1>3. ASSUME SyncGlobal(p) PROVE Shared'
  BY <1>3 DEF Shared, IInv, TypeOK, SyncGlobal, Goto, Phases, Sync, files
<1>4. ASSUME ReadProject(p) PROVE Shared'
  <2> DEFINE U == (IF psync[p] = "current" THEN {} ELSE projectf) \cup mem[p].errors
  <2>1. U \in SUBSET Entries
    BY DEF IInv, TypeOK, CacheObject
  <2>2. Newest(U) \in SUBSET Entries /\ Cardinality(Newest(U)) <= Cap
    BY <2>1, NewestProperties
  <2>3. out' = [out EXCEPT ![p] = Newest(U)]
    BY <1>4 DEF ReadProject
  <2> HIDE DEF U
  <2>4. out' \in [Procs -> SUBSET Entries] /\ \A q \in Procs : Cardinality(out'[q]) <= Cap
    BY <2>2, <2>3 DEF IInv, TypeOK
  <2> QED
    BY <1>4, <2>4 DEF Shared, IInv, TypeOK, ReadProject, Goto, Phases, files
<1>5. ASSUME WriteProject(p) PROVE Shared'
  <2>1. psync' \in [Procs -> Sync]
    BY <1>5, SyncsStayTyped DEF WriteProject, IInv, TypeOK
  <2>2. out' \in [Procs -> SUBSET Entries] /\ \A q \in Procs : Cardinality(out'[q]) <= Cap
    BY <1>5, FS_EmptySet, CacheAssumption DEF WriteProject, IInv, TypeOK
  <2> QED
    BY <1>5, <2>1, <2>2 DEF Shared, IInv, TypeOK, WriteProject, Goto, Phases
<1>6. ASSUME SyncProject(p) PROVE Shared'
  BY <1>6 DEF Shared, IInv, TypeOK, SyncProject, Goto, Phases, Sync, files
<1> QED
  BY <1>1, <1>2, <1>3, <1>4, <1>5, <1>6, Parts DEF SaveStep

LEMMA SaveFailsKeeps ==
    ASSUME IInv, NEW p \in Procs, SaveFails(p)
    PROVE  IInv'
<1>1. Kept'
  BY SameMemory DEF SaveFails
<1>2. out' \in [Procs -> SUBSET Entries] /\ \A q \in Procs : Cardinality(out'[q]) <= Cap
  BY FS_EmptySet, CacheAssumption DEF SaveFails, IInv, TypeOK
<1>3. Shared'
  BY <1>2, CacheAssumption DEF Shared, IInv, TypeOK, SaveFails, Goto, Phases, files
<1> QED
  BY <1>1, <1>3, Parts

LEMMA RecordErrorKeeps ==
    ASSUME IInv, NEW p \in Procs, RecordError(p)
    PROVE  IInv'
<1> DEFINE c == clock + 1
           m == mem[p]
           o == own[p]
           S == Newest({c} \cup m.errors)
           n == [m EXCEPT !.errors = S]
           w == [o EXCEPT !.errors = o.errors \cup {c}]
<1>1. m \in CacheObject /\ o \in CacheObject /\ Keeps(o, m)
  BY DEF IInv, TypeOK
<1>2. c \in Entries /\ {c} \in SUBSET Entries
  BY CacheAssumption DEF RecordError, Tick, IInv, Entries
<1>3. /\ S \in SUBSET Entries /\ Cardinality(S) <= Cap
      /\ \A x \in o.errors : x \in S \/ PushedOut(x, S)
  BY <1>1, <1>2, UnionKeeps
<1>4. c \in S \/ PushedOut(c, S)
  <2>1. ({c} \cup m.errors) \in SUBSET Entries /\ c \in ({c} \cup m.errors)
    BY <1>1, <1>2 DEF CacheObject
  <2> QED
    BY <2>1, NewestProperties
<1> HIDE DEF S
<1>5. n \in CacheObject /\ w \in CacheObject /\ Keeps(w, n)
  BY <1>1, <1>2, <1>3, <1>4 DEF CacheObject, Keeps
<1>6. mem' = [mem EXCEPT ![p] = n]
  <2>1. (m.errors \cup {clock + 1}) = ({c} \cup m.errors)
    OBVIOUS
  <2> QED
    BY <2>1 DEF RecordError, Push, IInv, TypeOK, S
<1>7. own' = [own EXCEPT ![p] = w]
  BY DEF RecordError, IInv, TypeOK
<1> HIDE DEF n, w
<1>8. Kept'
  BY <1>5, <1>6, <1>7, OneProcess
<1>9. Shared'
  BY CacheAssumption DEF Shared, IInv, TypeOK, RecordError, Tick, files
<1> QED
  BY <1>8, <1>9, Parts

LEMMA RecordBlockKeeps ==
    ASSUME IInv, NEW p \in Procs, NEW r \in Refs, RecordBlock(p, r)
    PROVE  IInv'
<1> DEFINE n == [mem[p] EXCEPT !.blocks = mem[p].blocks \cup {r}]
           w == [own[p] EXCEPT !.blocks = own[p].blocks \cup {r}]
<1>1. mem[p] \in CacheObject /\ own[p] \in CacheObject /\ Keeps(own[p], mem[p])
  BY DEF IInv, TypeOK
<1>2. n \in CacheObject /\ w \in CacheObject /\ Keeps(w, n)
  BY <1>1 DEF CacheObject, Keeps
<1>3. Saving(p, n) /\ own' = [own EXCEPT ![p] = w]
  BY DEF RecordBlock, IInv, TypeOK
<1> HIDE DEF n, w
<1>4. Kept' /\ pc' \in [Procs -> Phases]
  BY <1>2, <1>3, SavingKeeps
<1>5. Shared'
  <2>1. Tick /\ UNCHANGED <<globalf, projectf, gsync, psync, out, timer, deaths>>
    BY DEF RecordBlock, files
  <2> QED
    BY <1>4, <2>1, CacheAssumption DEF Shared, IInv, TypeOK, Tick
<1> QED
  BY <1>4, <1>5, Parts

LEMMA ClearBlockKeeps ==
    ASSUME IInv, NEW p \in Procs, NEW r \in Refs, ClearBlock(p, r)
    PROVE  IInv'
<1> DEFINE n == [mem[p] EXCEPT !.blocks = mem[p].blocks \ {r}]
           w == [own[p] EXCEPT !.blocks = own[p].blocks \ {r}]
<1>1. mem[p] \in CacheObject /\ own[p] \in CacheObject /\ Keeps(own[p], mem[p])
  BY DEF IInv, TypeOK
<1>2. n \in CacheObject /\ w \in CacheObject /\ Keeps(w, n)
  BY <1>1 DEF CacheObject, Keeps
<1>3. Saving(p, n) /\ own' = [own EXCEPT ![p] = w]
  BY DEF ClearBlock, IInv, TypeOK
<1> HIDE DEF n, w
<1>4. Kept' /\ pc' \in [Procs -> Phases]
  BY <1>2, <1>3, SavingKeeps
<1>5. Shared'
  <2>1. Tick /\ UNCHANGED <<globalf, projectf, gsync, psync, out, timer, deaths>>
    BY DEF ClearBlock, files
  <2> QED
    BY <1>4, <2>1, CacheAssumption DEF Shared, IInv, TypeOK, Tick
<1> QED
  BY <1>4, <1>5, Parts

LEMMA StoreScanKeeps ==
    ASSUME IInv, NEW p \in Procs, StoreScan(p)
    PROVE  IInv'
<1> DEFINE n == [mem[p] EXCEPT !.scan = clock + 1]
           w == [own[p] EXCEPT !.scan = clock + 1]
<1>1. mem[p] \in CacheObject /\ own[p] \in CacheObject /\ Keeps(own[p], mem[p])
  BY DEF IInv, TypeOK
<1>2. clock + 1 \in 0 .. MaxClock
  BY CacheAssumption DEF StoreScan, Tick, IInv
<1>3. n \in CacheObject /\ w \in CacheObject /\ Keeps(w, n)
  BY <1>1, <1>2 DEF CacheObject, Keeps
<1>4. Saving(p, n) /\ own' = [own EXCEPT ![p] = w]
  BY DEF StoreScan, IInv, TypeOK
<1> HIDE DEF n, w
<1>5. Kept' /\ pc' \in [Procs -> Phases]
  BY <1>3, <1>4, SavingKeeps
<1>6. Shared'
  <2>1. Tick /\ UNCHANGED <<globalf, projectf, gsync, psync, out, timer, deaths>>
    BY DEF StoreScan, files
  <2> QED
    BY <1>5, <2>1, CacheAssumption DEF Shared, IInv, TypeOK, Tick
<1> QED
  BY <1>5, <1>6, Parts

LEMMA TripBreakerKeeps ==
    ASSUME IInv, NEW p \in Procs, TripBreaker(p)
    PROVE  IInv'
<1> DEFINE n == [mem[p] EXCEPT !.breaker = TRUE]
           w == [own[p] EXCEPT !.breaker = TRUE]
<1>1. mem[p] \in CacheObject /\ own[p] \in CacheObject /\ Keeps(own[p], mem[p])
  BY DEF IInv, TypeOK
<1>2. n \in CacheObject /\ w \in CacheObject /\ Keeps(w, n)
  BY <1>1 DEF CacheObject, Keeps
<1>3. mem' = [mem EXCEPT ![p] = n] /\ own' = [own EXCEPT ![p] = w]
  BY DEF TripBreaker, IInv, TypeOK
<1> HIDE DEF n, w
<1>4. Kept'
  BY <1>2, <1>3, OneProcess
<1>5. Shared'
  BY CacheAssumption DEF Shared, IInv, TypeOK, TripBreaker, Tick, files
<1> QED
  BY <1>4, <1>5, Parts

LEMMA EmptyKept == Empty \in CacheObject /\ Keeps(Empty, Empty) /\ Cardinality({}) <= Cap
<1>1. Cardinality({}) <= Cap
  BY FS_EmptySet, CacheAssumption
<1> QED
  BY <1>1, CacheAssumption DEF Empty, CacheObject, Keeps

LEMMA GoneKeeps ==
    ASSUME IInv, NEW p \in Procs, Exit(p) \/ Crash(p)
    PROVE  IInv'
<1>1. Gone(p) /\ deaths' \in 0 .. MaxDeaths
  BY CacheAssumption DEF Exit, Crash, IInv, TypeOK
<1>2. Kept'
  BY <1>1, EmptyKept, OneProcess DEF Gone
<1>3. out' \in [Procs -> SUBSET Entries] /\ \A q \in Procs : Cardinality(out'[q]) <= Cap
  BY <1>1, EmptyKept DEF Gone, IInv, TypeOK
<1>4. Shared'
  BY <1>1, <1>3 DEF Shared, IInv, TypeOK, Gone, Goto, Phases, Sync, files
<1> QED
  BY <1>2, <1>4, Parts

-----------------------------------------------------------------------------
LEMMA InitHolds == Init => IInv
<1> SUFFICES ASSUME Init PROVE IInv
  OBVIOUS
<1>1. globalf \in CacheObject /\ Cardinality(globalf.errors) <= Cap
  <2>1. CASE globalf = Empty
    BY <2>1, EmptyKept DEF Empty
  <2>2. CASE globalf = [errors |-> {1}, blocks |-> {}, scan |-> 1, breaker |-> TRUE]
    <3>1. Cardinality({1}) = 1
      BY FS_Singleton
    <3> QED
      BY <2>2, <3>1, CacheAssumption DEF CacheObject, Entries
  <2> QED
    BY <2>1, <2>2 DEF Init
<1>2. Kept
  BY EmptyKept DEF Init, Kept
<1>3. Shared
  BY <1>1, EmptyKept, CacheAssumption DEF Shared, Init, Phases, Sync
<1> QED
  BY <1>2, <1>3, Parts

LEMMA StepKeeps == IInv /\ [Next]_vars => IInv'
<1> SUFFICES ASSUME IInv, [Next]_vars PROVE IInv'
  OBVIOUS
<1>1. ASSUME NEW p \in Procs, Record(p) PROVE IInv'
  BY <1>1, RecordErrorKeeps, StoreScanKeeps, TripBreakerKeeps, RecordBlockKeeps, ClearBlockKeeps
     DEF Record
<1>2. ASSUME NEW p \in Procs, Step(p) PROVE IInv'
  BY <1>1, <1>2, BeginLoadKeeps, LoadProjectKeeps, SaveBegins, SaveStepKeeps,
     SaveFailsKeeps, GoneKeeps DEF Step
<1>3. CASE UNCHANGED vars
  BY <1>3 DEF vars, IInv, TypeOK, Keeps
<1> QED
  BY <1>2, <1>3 DEF Next

(* What a live process recorded and has not taken back is in its memory,   *)
(* whatever files of other processes it has merged since, and the error    *)
(* list fits everywhere: loadCache and saveCache in every interleaving,    *)
(* with crashes and failed writes.                                         *)
THEOREM RecordsAreKept == Spec => []OwnKept
<1>1. IInv => OwnKept
  BY DEF IInv, OwnKept, Keeps
<1> QED
  BY <1>1, InitHolds, StepKeeps, PTL DEF Spec

(* An open breaker is in the memory of the process that tripped it only:   *)
(* readFromDisk drops the key and the save strips it.                      *)
THEOREM BreakerNeverSpreads == Spec => []BreakerVolatile
<1>1. IInv => BreakerVolatile
  BY DEF IInv, BreakerVolatile, Keeps
<1> QED
  BY <1>1, InitHolds, StepKeeps, PTL DEF Spec

-----------------------------------------------------------------------------
(* The classifier.  Results and runs are free but for what the two         *)
(* properties tell apart; the answer cache holds answers without a context *)
(* only, and each prompt once.                                             *)
Plain == [cat : Categories \cup {"continue", "hint"}, of : {None}]
CacheEntries == [prompt : Prompts \cup {None}, answer : Plain, old : BOOLEAN]
Once(list) == \A i, j \in 1 .. Len(list) : list[i].prompt = list[j].prompt => i = j
CacheOK(list) == list \in Seq(CacheEntries) /\ Len(list) <= CacheSize /\ Once(list)

\* A run is a record, and asks about a prompt.
RunOK(run) ==
    /\ run = [at |-> run.at, prompt |-> run.prompt, prev |-> run.prev, alone |-> run.alone,
              wedged |-> run.wedged, left |-> run.left]
    /\ run.prompt \in Prompts \cup {None}
RunsOK == call = [id \in Runs |-> call[id]] /\ \A id \in Runs : RunOK(call[id])
ResultsOK == last = [c \in Calls |-> last[c]] /\ \A c \in Calls : last[c].of \in {None, c}

ClassifierInv == cfg \in Configs /\ RunsOK /\ ResultsOK /\ CacheOK(cache)

-----------------------------------------------------------------------------
(* Lists of entries.                                                       *)
LEMMA RemovedAt ==
    ASSUME NEW S, NEW s \in Seq(S), NEW k \in 1 .. Len(s)
    PROVE  LET w == RemoveAt(s, k) IN
           /\ w \in Seq(S) /\ Len(w) = Len(s) - 1
           /\ \A i \in 1 .. Len(s) - 1 : w[i] = IF i < k THEN s[i] ELSE s[i + 1]
<1> DEFINE n == Len(s)
           a == SubSeq(s, 1, k - 1)
           b == SubSeq(s, k + 1, n)
           w == RemoveAt(s, k)
<1>1. n \in Nat /\ k \in 1 .. n /\ \A i \in 1 .. n : s[i] \in S
  BY LenProperties, ElementOfSeq
<1>2. w = a \o b
  BY DEF RemoveAt
<1> HIDE DEF w, n
<1>3. /\ a \in Seq(S) /\ Len(a) = k - 1
      /\ \A i \in 1 .. k - 1 : a[i] = s[i]
  <2>1. 1 \in Int /\ k - 1 \in Int /\ \A i \in 1 .. k - 1 : i \in 1 .. n
    BY <1>1
  <2>2. /\ a \in Seq(S) /\ Len(a) = IF 1 <= k - 1 THEN k - 1 - 1 + 1 ELSE 0
        /\ \A i \in 1 .. k - 1 - 1 + 1 : a[i] = s[1 + i - 1]
    BY <1>1, <2>1, SubSeqProperties DEF n
  <2>3. k - 1 - 1 + 1 = k - 1 /\ (~(1 <= k - 1) => k - 1 = 0)
    BY <1>1
  <2>4. \A i \in 1 .. k - 1 : 1 + i - 1 = i
    BY <2>1
  <2> HIDE DEF a
  <2> QED
    BY <2>2, <2>3, <2>4
<1>4. /\ b \in Seq(S) /\ Len(b) = n - k
      /\ \A i \in 1 .. n - k : b[i] = s[k + i]
  <2>1. k + 1 \in Int /\ n \in Int /\ \A i \in k + 1 .. n : i \in 1 .. n
    BY <1>1
  <2>2. /\ b \in Seq(S) /\ Len(b) = IF k + 1 <= n THEN n - (k + 1) + 1 ELSE 0
        /\ \A i \in 1 .. n - (k + 1) + 1 : b[i] = s[k + 1 + i - 1]
    BY <1>1, <2>1, SubSeqProperties DEF n
  <2>3. n - (k + 1) + 1 = n - k /\ (~(k + 1 <= n) => n - k = 0)
    BY <1>1
  <2>4. \A i \in 1 .. n - k : k + 1 + i - 1 = k + i
    BY <1>1
  <2> HIDE DEF b
  <2> QED
    BY <2>2, <2>3, <2>4
<1> HIDE DEF a, b
<1>5. /\ w \in Seq(S) /\ Len(w) = (k - 1) + (n - k)
      /\ \A i \in 1 .. (k - 1) + (n - k) : w[i] = IF i <= k - 1 THEN a[i] ELSE b[i - (k - 1)]
  BY <1>2, <1>3, <1>4, ConcatProperties
<1>6. (k - 1) + (n - k) = n - 1
  BY <1>1
<1>7. ASSUME NEW i \in 1 .. n - 1 PROVE w[i] = IF i < k THEN s[i] ELSE s[i + 1]
  <2>1. CASE i < k
    <3>1. i \in 1 .. k - 1 /\ i <= k - 1
      BY <1>1, <2>1
    <3> QED
      BY <1>3, <1>5, <1>6, <2>1, <3>1
  <2>2. CASE ~(i < k)
    <3>1. i - (k - 1) \in 1 .. n - k /\ ~(i <= k - 1) /\ k + (i - (k - 1)) = i + 1
      BY <1>1, <2>2
    <3> QED
      BY <1>4, <1>5, <1>6, <2>2, <3>1
  <2> QED
    BY <2>1, <2>2
<1> QED
  BY <1>5, <1>6, <1>7 DEF n, w

LEMMA ListFacts ==
    ASSUME NEW list \in Seq(CacheEntries)
    PROVE  /\ Len(list) \in Nat /\ DOMAIN list = 1 .. Len(list)
           /\ \A i \in 1 .. Len(list) : list[i] \in CacheEntries
BY LenProperties, ElementOfSeq

(* Nothing is in new that old did not hold.                                *)
SameIn(e, old) ==
    \E j \in 1 .. Len(old) : old[j].prompt = e.prompt /\ old[j].answer = e.answer
Among(new, old) == \A i \in 1 .. Len(new) : SameIn(new[i], old)

(* A list less one of its members, or with the first one gone.             *)
LEMMA RemovalKeeps ==
    ASSUME NEW list, CacheOK(list), NEW k \in 1 .. Len(list)
    PROVE  /\ CacheOK(RemoveAt(list, k)) /\ Len(RemoveAt(list, k)) = Len(list) - 1
           /\ \A i \in 1 .. Len(list) - 1 : \E j \in 1 .. Len(list) :
                 j # k /\ RemoveAt(list, k)[i] = list[j]
<1> DEFINE n == Len(list)
           w == RemoveAt(list, k)
<1>1. n \in Nat /\ list \in Seq(CacheEntries) /\ n <= CacheSize /\ CacheSize \in Nat
  BY ClassifierAssumption, ListFacts DEF CacheOK
<1>2. /\ w \in Seq(CacheEntries) /\ Len(w) = n - 1
      /\ \A i \in 1 .. n - 1 : w[i] = IF i < k THEN list[i] ELSE list[i + 1]
  BY <1>1, RemovedAt
<1> HIDE DEF w
<1>3. \A i \in 1 .. n - 1 : IF i < k THEN i \in 1 .. n /\ i # k ELSE i + 1 \in 1 .. n /\ i + 1 # k
  BY <1>1
<1>4. Once(w)
  <2> SUFFICES ASSUME NEW i \in 1 .. n - 1, NEW j \in 1 .. n - 1, w[i].prompt = w[j].prompt
               PROVE  i = j
    BY <1>2 DEF Once
  <2>1. PICK x \in 1 .. n : w[i] = list[x] /\ x = IF i < k THEN i ELSE i + 1
    BY <1>2, <1>3
  <2>2. PICK y \in 1 .. n : w[j] = list[y] /\ y = IF j < k THEN j ELSE j + 1
    BY <1>2, <1>3
  <2>3. x = y
    BY <2>1, <2>2 DEF CacheOK, Once
  <2> QED
    BY <1>1, <2>1, <2>2, <2>3
<1>5. ASSUME NEW i \in 1 .. n - 1 PROVE \E j \in 1 .. n : j # k /\ w[i] = list[j]
  BY <1>2, <1>3
<1> QED
  BY <1>1, <1>2, <1>4, <1>5 DEF CacheOK, w

LEMMA TailKeeps ==
    ASSUME NEW list, CacheOK(list), list # << >>
    PROVE  CacheOK(Tail(list)) /\ Len(Tail(list)) = Len(list) - 1 /\ Among(Tail(list), list)
<1> DEFINE n == Len(list)
           w == Tail(list)
<1>1. n \in Nat /\ list \in Seq(CacheEntries) /\ n <= CacheSize /\ CacheSize \in Nat
  BY ClassifierAssumption, ListFacts DEF CacheOK
<1>2. w \in Seq(CacheEntries) /\ Len(w) = n - 1 /\ \A i \in 1 .. n - 1 : w[i] = list[i + 1]
  BY <1>1, HeadTailProperties
<1> HIDE DEF w
<1>3. \A i \in 1 .. n - 1 : i + 1 \in 1 .. n
  BY <1>1
<1>4. Once(w)
  <2> SUFFICES ASSUME NEW i \in 1 .. n - 1, NEW j \in 1 .. n - 1, w[i].prompt = w[j].prompt
               PROVE  i = j
    BY <1>2 DEF Once
  <2>1. i + 1 = j + 1
    BY <1>2, <1>3 DEF CacheOK, Once
  <2> QED
    BY <1>1, <2>1
<1>5. Among(w, list)
  BY <1>2, <1>3 DEF Among, SameIn
<1> QED
  BY <1>1, <1>2, <1>4, <1>5 DEF CacheOK, w

LEMMA AppendKeeps ==
    ASSUME NEW list, CacheOK(list), NEW e \in CacheEntries, Len(list) < CacheSize,
           \A i \in 1 .. Len(list) : list[i].prompt # e.prompt
    PROVE  /\ CacheOK(Append(list, e)) /\ Len(Append(list, e)) = Len(list) + 1
           /\ \A i \in 1 .. Len(list) : Append(list, e)[i] = list[i]
           /\ Append(list, e)[Len(list) + 1] = e
<1> DEFINE n == Len(list)
           w == Append(list, e)
<1>1. n \in Nat /\ list \in Seq(CacheEntries) /\ n < CacheSize /\ CacheSize \in Nat
  BY ClassifierAssumption, ListFacts DEF CacheOK
<1>2. /\ w \in Seq(CacheEntries) /\ Len(w) = n + 1
      /\ \A i \in 1 .. n : w[i] = list[i]
      /\ w[n + 1] = e
  BY <1>1, AppendProperties
<1> HIDE DEF w
<1>3. \A i \in 1 .. n + 1 : i \in 1 .. n \/ i = n + 1
  BY <1>1
<1>4. Once(w)
  <2> SUFFICES ASSUME NEW i \in 1 .. n + 1, NEW j \in 1 .. n + 1, w[i].prompt = w[j].prompt
               PROVE  i = j
    BY <1>2 DEF Once
  <2> QED
    BY <1>2, <1>3 DEF CacheOK, Once
<1> QED
  BY <1>1, <1>2, <1>4 DEF CacheOK, w

(* A look moves the entry to the end, or drops it when it is old.          *)
LEMMA LookKeeps ==
    ASSUME CacheOK(cache), NEW p
    PROVE  /\ CacheOK(Looked(p)) /\ Among(Looked(p), cache)
           /\ Where(p) # {} => Entry(p) \in CacheEntries
<1> DEFINE n == Len(cache)
<1>0. n \in Nat
  BY ListFacts DEF CacheOK
<1>1. /\ n \in Nat /\ DOMAIN cache = 1 .. n /\ n <= CacheSize /\ CacheSize \in Nat
      /\ \A i \in 1 .. n : cache[i] \in CacheEntries
  BY ClassifierAssumption, ListFacts DEF CacheOK
<1>2. CASE Where(p) = {}
  <2>1. Looked(p) = cache
    BY <1>2 DEF Looked, Cached, Without
  <2> QED
    BY <1>1, <1>2, <2>1 DEF Among, SameIn
<1>3. CASE Where(p) # {}
  <2> DEFINE k == CHOOSE i \in Where(p) : TRUE
             w == RemoveAt(cache, k)
  <2>1. k \in Where(p)
    BY <1>3
  <2>2. k \in 1 .. n /\ cache[k].prompt = p /\ Entry(p) = cache[k]
    BY <1>1, <2>1 DEF Where, Entry
  <2>3. Looked(p) = IF Cached(p) THEN Append(w, cache[k]) ELSE w
    BY <1>3, <2>2 DEF Looked, Without
  <2> HIDE DEF k
  <2>4. /\ CacheOK(w) /\ Len(w) = n - 1
        /\ \A i \in 1 .. n - 1 : \E j \in 1 .. n : j # k /\ w[i] = cache[j]
    <3>1. k \in 1 .. Len(cache) /\ CacheOK(cache)
      BY <2>2
    <3> HIDE DEF n
    <3>2. /\ CacheOK(RemoveAt(cache, k)) /\ Len(RemoveAt(cache, k)) = Len(cache) - 1
          /\ \A i \in 1 .. Len(cache) - 1 : \E j \in 1 .. Len(cache) :
                j # k /\ RemoveAt(cache, k)[i] = cache[j]
      BY <3>1, RemovalKeeps
    <3> QED
      BY <3>2 DEF n
  <2> HIDE DEF w
  <2>5. Among(w, cache)
    BY <2>4 DEF Among, SameIn
  <2>6. /\ CacheOK(Append(w, cache[k])) /\ Len(Append(w, cache[k])) = n
        /\ \A i \in 1 .. n - 1 : Append(w, cache[k])[i] = w[i]
        /\ Append(w, cache[k])[n] = cache[k]
    <3>1. ASSUME NEW i \in 1 .. n - 1 PROVE w[i].prompt # cache[k].prompt
      <4>1. PICK j \in 1 .. n : j # k /\ w[i] = cache[j]
        BY <2>4
      <4> QED
        BY <2>2, <4>1 DEF CacheOK, Once
    <3>2. cache[k] \in CacheEntries /\ Len(w) < CacheSize /\ n - 1 + 1 = n
      BY <1>1, <2>2, <2>4
    <3> QED
      BY <2>4, <3>1, <3>2, AppendKeeps
  <2>7. Among(Append(w, cache[k]), cache)
    <3> SUFFICES ASSUME NEW i \in 1 .. n PROVE SameIn(Append(w, cache[k])[i], cache)
      BY <2>6 DEF Among
    <3>1. CASE i = n
      BY <2>2, <2>6, <3>1 DEF SameIn
    <3>2. CASE i # n
      <4>1. i \in 1 .. n - 1
        BY <1>0, <3>2
      <4> QED
        BY <2>4, <2>5, <2>6, <4>1 DEF Among
    <3> QED
      BY <3>1, <3>2
  <2> QED
    BY <1>1, <2>2, <2>3, <2>4, <2>5, <2>6, <2>7
<1> QED
  BY <1>2, <1>3

(* What a run stores: an answer of a routed run that no context had a part *)
(* in, beside what is left of the entries there were.                      *)
LEMMA StoreKeeps ==
    ASSUME CacheOK(cache), RunsOK, NEW id \in Runs, NEW answer,
           answer.of = None => answer \in Plain
    PROVE  /\ CacheOK(Stored(id, answer))
           /\ \A i \in 1 .. Len(Stored(id, answer)) :
                 \/ SameIn(Stored(id, answer)[i], cache)
                 \/ /\ Routes(id) /\ Stored(id, answer)[i].prompt = call[id].prompt
                    /\ Stored(id, answer)[i].answer = answer
<1> DEFINE n == Len(cache)
           s == Stored(id, answer)
           e == New(id, answer)
           kept == Evicted
<1>1. /\ n \in Nat /\ DOMAIN cache = 1 .. n /\ n <= CacheSize /\ CacheSize \in Nat \ {0}
      /\ \A i \in 1 .. n : cache[i] \in CacheEntries
  BY ClassifierAssumption, ListFacts DEF CacheOK
<1>2. CASE s = cache
  BY <1>1, <1>2 DEF SameIn
<1>3. CASE s # cache
  <2>1. answer.of = None /\ Routes(id) /\ s = Put(kept, e)
    BY <1>3 DEF Stored
  <2>2. e \in CacheEntries /\ e.prompt = call[id].prompt /\ e.answer = answer
    BY <2>1 DEF New, RunsOK, RunOK, CacheEntries
  <2>3. CacheOK(kept) /\ Len(kept) < CacheSize /\ Among(kept, cache)
    <3>1. CASE n >= CacheSize
      <4>1. cache # << >>
        BY <1>1, <3>1, EmptySeq
      <4>2. kept = Tail(cache)
        BY <3>1 DEF Evicted
      <4> QED
        BY <1>1, <4>1, <4>2, TailKeeps
    <3>2. CASE ~(n >= CacheSize)
      BY <1>1, <3>2 DEF Evicted, Among, SameIn
    <3> QED
      BY <3>1, <3>2
  <2> HIDE DEF kept, e, s
  <2>4. Len(kept) \in Nat /\ DOMAIN kept = 1 .. Len(kept) /\ kept \in Seq(CacheEntries)
        /\ \A i \in 1 .. Len(kept) : kept[i] \in CacheEntries
    BY <2>3, ListFacts DEF CacheOK
  <2>5. CASE \E i \in DOMAIN kept : kept[i].prompt = e.prompt
    <3>1. s = [i \in 1 .. Len(kept) |-> IF kept[i].prompt = e.prompt THEN e ELSE kept[i]]
      BY <2>1, <2>4, <2>5 DEF Put
    <3>2. s \in Seq(CacheEntries) /\ Len(s) = Len(kept)
      <4>1. s \in [1 .. Len(kept) -> CacheEntries]
        BY <2>2, <2>4, <3>1
      <4>2. s \in Seq(CacheEntries)
        BY <2>4, <4>1, SeqDef
      <4> QED
        BY <2>4, <3>1, <4>2, LenProperties
    <3>3. \A i \in 1 .. Len(kept) : s[i].prompt = kept[i].prompt
      BY <3>1
    <3>4. Once(s)
      BY <2>3, <3>2, <3>3 DEF CacheOK, Once
    <3>5. \A i \in 1 .. Len(kept) : s[i] = e \/ SameIn(s[i], cache)
      BY <2>3, <3>1 DEF Among
    <3> QED
      BY <2>1, <2>2, <2>3, <3>2, <3>4, <3>5 DEF CacheOK, s
  <2>6. CASE ~ \E i \in DOMAIN kept : kept[i].prompt = e.prompt
    <3>1. s = Append(kept, e)
      BY <2>1, <2>6 DEF Put
    <3>2. /\ CacheOK(s) /\ Len(s) = Len(kept) + 1
          /\ \A i \in 1 .. Len(kept) : s[i] = kept[i]
          /\ s[Len(kept) + 1] = e
      BY <2>2, <2>3, <2>4, <2>6, <3>1, AppendKeeps
    <3>3. \A i \in 1 .. Len(s) : s[i] = e \/ SameIn(s[i], cache)
      <4> SUFFICES ASSUME NEW i \in 1 .. Len(kept) + 1 PROVE s[i] = e \/ SameIn(s[i], cache)
        BY <3>2
      <4>1. i \in 1 .. Len(kept) \/ i = Len(kept) + 1
        BY <2>4
      <4> QED
        BY <2>3, <3>2, <4>1 DEF Among
    <3> QED
      BY <2>1, <2>2, <3>2, <3>3 DEF s
  <2> QED
    BY <2>5, <2>6
<1> QED
  BY <1>2, <1>3

-----------------------------------------------------------------------------
(* Turns and runs.                                                         *)
LEMMA InheritsOwn ==
    ASSUME NEW c \in Calls, NEW prev, NEW answer, answer.of \in {None, c}
    PROVE  Inherit(c, prev, answer).of \in {None, c} /\ Inherited(prev, c).of \in {None, c}
BY DEF Inherit, Inherited

LEMMA ReplyShapes ==
    ASSUME NEW id \in Runs, NEW hints, NEW answer \in Replies(id, hints)
    PROVE  answer.of \in {None, id[1]} /\ (answer.of = None => answer \in Plain) /\ id[1] \in Calls
<1>1. id[1] \in Calls /\ id[1] # None
  BY ClassifierAssumption DEF Runs
<1>2. CASE answer = Doubtful(id)
  BY <1>1, <1>2 DEF Doubtful, Inherited
<1>3. CASE answer \in {Said(cat) : cat \in Categories \cup {"continue", "hint"}}
  BY <1>1, <1>3 DEF Said, Plain
<1> QED
  BY <1>2, <1>3 DEF Replies

(* What enters the cache has just decided a turn with that prompt.         *)
Enters ==
    \A i \in DOMAIN cache' :
       (\A j \in DOMAIN cache : cache[j].prompt # cache'[i].prompt
                                \/ cache[j].answer # cache'[i].answer)
       => \E c \in Calls : /\ call[Route(c)].prompt = cache'[i].prompt
                           /\ call'[Route(c)].at = "idle"
                           /\ last'[c] = Inherit(c, call[Route(c)].prev, cache'[i].answer)

LEMMA NothingEnters ==
    ASSUME CacheOK(cache), CacheOK(cache'), Among(cache', cache)
    PROVE  Enters
<1>1. DOMAIN cache = 1 .. Len(cache) /\ DOMAIN cache' = 1 .. Len(cache')
  BY ListFacts DEF CacheOK
<1> QED
  BY <1>1 DEF Enters, Among, SameIn

LEMMA UnchangedCache ==
    ASSUME CacheOK(cache), cache' = cache
    PROVE  CacheOK(cache') /\ Enters
<1>1. Among(cache', cache)
  BY DEF Among, SameIn
<1> QED
  BY <1>1, NothingEnters

LEMMA DecisionEnters ==
    ASSUME CacheOK(cache), RunsOK, NEW id \in Runs,
           NEW answer, answer.of = None => answer \in Plain,
           cache' = Stored(id, answer), call'[id].at = "idle",
           Routes(id) => last'[id[1]] = Inherit(id[1], call[id].prev, answer)
    PROVE  CacheOK(cache') /\ Enters
<1>1. CacheOK(cache') /\ \A i \in 1 .. Len(cache') :
         \/ SameIn(cache'[i], cache)
         \/ /\ Routes(id) /\ cache'[i].prompt = call[id].prompt /\ cache'[i].answer = answer
  BY StoreKeeps
<1>2. DOMAIN cache = 1 .. Len(cache) /\ DOMAIN cache' = 1 .. Len(cache')
  BY <1>1, ListFacts DEF CacheOK
<1>3. id[1] \in Calls /\ (Routes(id) => id = Route(id[1]))
  BY DEF Runs, Routes, Route
<1> QED
  BY <1>1, <1>2, <1>3 DEF Enters, SameIn

LEMMA RunAt ==
    ASSUME NEW run, RunOK(run), NEW a
    PROVE  RunOK([run EXCEPT !.at = a])
<1> DEFINE new == [at |-> a, prompt |-> run.prompt, prev |-> run.prev, alone |-> run.alone,
                   wedged |-> run.wedged, left |-> run.left]
<1>1. [run EXCEPT !.at = a] = new
  BY DEF RunOK
<1>2. RunOK(new)
  BY DEF RunOK
<1> QED
  BY <1>1, <1>2

LEMMA RunLeft ==
    ASSUME NEW run, RunOK(run), NEW l
    PROVE  RunOK([run EXCEPT !.left = l])
<1> DEFINE new == [at |-> run.at, prompt |-> run.prompt, prev |-> run.prev, alone |-> run.alone,
                   wedged |-> run.wedged, left |-> l]
<1>1. [run EXCEPT !.left = l] = new
  BY DEF RunOK
<1>2. RunOK(new)
  BY DEF RunOK
<1> QED
  BY <1>1, <1>2

LEMMA RunAtLeft ==
    ASSUME NEW run, RunOK(run), NEW a, NEW l
    PROVE  RunOK([run EXCEPT !.at = a, !.left = l])
<1>1. [run EXCEPT !.at = a, !.left = l] = [[run EXCEPT !.at = a] EXCEPT !.left = l]
  OBVIOUS
<1> QED
  BY <1>1, RunAt, RunLeft

LEMMA RunEdits ==
    ASSUME NEW run, RunOK(run)
    PROVE  RunOK(InChain(run)) /\ RunOK(Behind(run))
BY RunAt, RunAtLeft DEF InChain, Behind

LEMMA NewRuns ==
    ASSUME NEW p \in Prompts, NEW prev, NEW alone
    PROVE  RunOK(Begun(p, prev, alone)) /\ RunOK(Idle)
<1> DEFINE run == [at |-> "laya", prompt |-> p, prev |-> prev, alone |-> alone,
                   wedged |-> ollama.wedged, left |-> << >>]
<1>1. RunOK(run) /\ RunOK(Idle)
  BY DEF RunOK, Idle
<1>2. RunOK(InChain(run))
  BY <1>1, RunEdits
<1> QED
  BY <1>1, <1>2 DEF Begun

LEMMA RunChanges ==
    ASSUME RunsOK, NEW id \in Runs, NEW run, RunOK(run), call' = [call EXCEPT ![id] = run]
    PROVE  RunsOK'
BY DEF RunsOK

LEMMA ReturnsSound ==
    ASSUME RunsOK, ResultsOK, NEW id \in Runs, NEW answer, answer.of \in {None, id[1]},
           Returns(id, answer)
    PROVE  /\ RunsOK' /\ ResultsOK' /\ call'[id].at = "idle"
           /\ Routes(id) => last'[id[1]] = Inherit(id[1], call[id].prev, answer)
<1>1. id[1] \in Calls
  BY DEF Runs
<1>2. RunOK(Idle)
  BY DEF RunOK, Idle
<1>3. RunsOK' /\ call'[id].at = "idle"
  <2>1. call' = [call EXCEPT ![id] = Idle]
    BY DEF Returns
  <2>2. call'[id] = Idle
    BY <2>1 DEF RunsOK
  <2>3. Idle.at = "idle"
    BY DEF Idle
  <2> QED
    BY <1>2, <2>1, <2>2, <2>3, RunChanges
<1>4. CASE Routes(id)
  <2>1. last' = [last EXCEPT ![id[1]] = Inherit(id[1], call[id].prev, answer)]
    BY <1>4 DEF Returns
  <2>2. Inherit(id[1], call[id].prev, answer).of \in {None, id[1]}
    BY <1>1, InheritsOwn
  <2>3. ResultsOK'
    BY <1>1, <2>1, <2>2 DEF ResultsOK
  <2>4. last'[id[1]] = Inherit(id[1], call[id].prev, answer)
    BY <1>1, <2>1 DEF ResultsOK
  <2> QED
    BY <1>3, <2>3, <2>4
<1>5. CASE ~Routes(id)
  BY <1>3, <1>5 DEF Returns, ResultsOK
<1> QED
  BY <1>4, <1>5

-----------------------------------------------------------------------------
(* One lemma for each way a step treats the cache: a prompt begins, a run  *)
(* goes on and leaves the cache alone, a run decides.                      *)
Sound == ClassifierInv' /\ Enters

LEMMA StartSound ==
    ASSUME ClassifierInv, NEW c \in cfg.calls, Start(c)
    PROVE  Sound
<1>1. c \in Calls /\ cfg' = cfg /\ cfg \in Configs /\ cfg.says \subseteq Prompts
  BY ClassifierAssumption DEF ClassifierInv, Start
<1>2. RunsOK /\ ResultsOK /\ CacheOK(cache)
  BY DEF ClassifierInv
<1>3. Route(c) \in Runs /\ Shadow(c) \in Runs
  BY <1>1 DEF Route, Shadow, Runs
<1>4. CASE Deterministic(c)
  <2>1. PICK cat \in {"hint", "code_complex"} : last' = [last EXCEPT ![c] = Said(cat)]
    BY <1>4 DEF Deterministic
  <2>2. ResultsOK'
    BY <1>1, <1>2, <2>1 DEF ResultsOK, Said
  <2>3. RunsOK' /\ CacheOK(cache') /\ Enters
    BY <1>2, <1>4, UnchangedCache DEF Deterministic, RunsOK
  <2> QED
    BY <1>1, <2>2, <2>3 DEF Sound, ClassifierInv
<1>5. ASSUME NEW p \in cfg.says, NEW prev \in Categories \cup {"continue", None},
             NEW alone \in BOOLEAN, Momentum(c, p, prev, alone)
      PROVE  Sound
  <2>1. p \in Prompts /\ RunOK(Begun(p, prev, alone))
    BY <1>1, NewRuns
  <2>2. ResultsOK'
    BY <1>1, <1>2, <1>5 DEF ResultsOK, Momentum, Inherited
  <2>3. cache' \in {cache, Looked(p)}
    BY <1>5 DEF Momentum
  <2>4. CacheOK(cache') /\ Enters
    BY <1>2, <2>3, UnchangedCache, LookKeeps, NothingEnters
  <2>5. call' = call \/ call' = [call EXCEPT ![Shadow(c)] = Begun(p, prev, alone)]
    BY <1>5 DEF Momentum
  <2>6. RunsOK'
    <3>1. CASE call' = call
      BY <1>2, <3>1 DEF RunsOK
    <3>2. CASE call' = [call EXCEPT ![Shadow(c)] = Begun(p, prev, alone)]
      BY <1>2, <1>3, <2>1, <3>2, RunChanges
    <3> QED
      BY <2>5, <3>1, <3>2
  <2> QED
    BY <1>1, <2>2, <2>4, <2>6 DEF Sound, ClassifierInv
<1>6. ASSUME NEW p \in cfg.says, NEW prev \in Categories \cup {"continue", None},
             NEW alone \in BOOLEAN, Classify(c, p, prev, alone)
      PROVE  Sound
  <2>1. p \in Prompts /\ RunOK(Begun(p, prev, alone))
    BY <1>1, NewRuns
  <2>2. cache' \in {cache, Looked(p)}
    BY <1>6 DEF Classify
  <2>3. CacheOK(cache') /\ Enters
    BY <1>2, <2>2, UnchangedCache, LookKeeps, NothingEnters
  <2>4. CASE alone /\ Cached(p)
    <3>1. last' = [last EXCEPT ![c] = Inherit(c, prev, Entry(p).answer)] /\ call' = call
      BY <1>6, <2>4 DEF Classify
    <3>2. Entry(p).answer.of = None
      BY <1>2, <2>4, LookKeeps DEF Cached, CacheEntries, Plain
    <3>3. Inherit(c, prev, Entry(p).answer).of \in {None, c}
      BY <1>1, <3>2, InheritsOwn
    <3>4. ResultsOK'
      BY <1>1, <1>2, <3>1, <3>3 DEF ResultsOK
    <3>5. RunsOK'
      BY <1>2, <3>1 DEF RunsOK
    <3> QED
      BY <1>1, <2>3, <3>4, <3>5 DEF Sound, ClassifierInv
  <2>5. CASE ~(alone /\ Cached(p))
    <3>1. call' = [call EXCEPT ![Route(c)] = Begun(p, prev, alone)] /\ last' = last
      BY <1>6, <2>5 DEF Classify
    <3>2. RunsOK'
      BY <1>2, <1>3, <2>1, <3>1, RunChanges
    <3>3. ResultsOK'
      BY <1>2, <3>1 DEF ResultsOK
    <3> QED
      BY <1>1, <2>3, <3>2, <3>3 DEF Sound, ClassifierInv
  <2> QED
    BY <2>4, <2>5
<1> QED
  BY <1>4, <1>5, <1>6 DEF Start

(* A run that goes on: its record changes, results and cache do not.       *)
LEMMA GoesOnSound ==
    ASSUME ClassifierInv, NEW id \in Runs, NEW run, RunOK(run),
           call' = call \/ call' = [call EXCEPT ![id] = run], UNCHANGED <<cfg, last, cache>>
    PROVE  Sound
<1>1. RunsOK'
  <2>1. CASE call' = call
    BY <2>1 DEF ClassifierInv, RunsOK
  <2>2. CASE call' = [call EXCEPT ![id] = run]
    BY <2>2, RunChanges DEF ClassifierInv
  <2> QED
    BY <2>1, <2>2
<1>2. ResultsOK' /\ CacheOK(cache') /\ Enters
  BY UnchangedCache DEF ClassifierInv, ResultsOK
<1> QED
  BY <1>1, <1>2 DEF Sound, ClassifierInv

LEMMA WaitingSound ==
    ASSUME ClassifierInv, NEW id \in Runs,
           LayaChecks(id) \/ LayaFallsThrough(id) \/ LayaFails(id)
    PROVE  Sound
<1>1. RunOK(call[id]) /\ call = [i \in Runs |-> call[i]]
  BY DEF ClassifierInv, RunsOK
<1>2. RunOK(InChain(call[id])) /\ \A a : RunOK([call[id] EXCEPT !.at = a])
  BY <1>1, RunEdits, RunAt
<1>3. UNCHANGED <<cfg, last, cache>>
  BY DEF LayaChecks, LayaFallsThrough, LayaFails
<1>4. \E run : RunOK(run) /\ call' = [call EXCEPT ![id] = run]
  <2>1. \/ call' = [call EXCEPT ![id] = InChain(call[id])]
        \/ \E a : call' = [call EXCEPT ![id].at = a]
    BY DEF LayaChecks, LayaFallsThrough, LayaFails
  <2>2. \A a : [call EXCEPT ![id].at = a] = [call EXCEPT ![id] = [call[id] EXCEPT !.at = a]]
    BY <1>1
  <2> QED
    BY <1>2, <2>1, <2>2
<1> QED
  BY <1>3, <1>4, GoesOnSound

LEMMA FallsBackSound ==
    ASSUME ClassifierInv, NEW id \in Runs,
           \/ CloudFails(id) \/ LocalBegins(id) \/ DaemonAnswers(id)
           \/ LocalFails(id) \/ RejectsSchema(id)
    PROVE  Sound
<1> DEFINE run == call[id]
<1>1. RunOK(run) /\ call = [i \in Runs |-> call[i]]
  BY DEF ClassifierInv, RunsOK
<1>2. /\ RunOK(Behind(run)) /\ \A a : RunOK([run EXCEPT !.at = a])
      /\ \A l : RunOK([run EXCEPT !.left = l])
      /\ \A a, l : RunOK([run EXCEPT !.at = a, !.left = l])
  BY <1>1, RunEdits, RunAt, RunLeft, RunAtLeft
<1>3. UNCHANGED <<cfg, last, cache>>
  BY DEF CloudFails, LocalBegins, DaemonAnswers, LocalFails, RejectsSchema
<1>4. \E new : RunOK(new) /\ call' = [call EXCEPT ![id] = new]
  <2>1. CASE CloudFails(id)
    <3>1. call' = [call EXCEPT ![id] = [run EXCEPT !.left = Tail(run.left)]]
      BY <1>1, <2>1 DEF CloudFails
    <3> QED
      BY <1>2, <3>1
  <2>2. CASE LocalBegins(id)
    <3>1. \/ call' = [call EXCEPT ![id] = [run EXCEPT !.at = "static"]]
          \/ call' = [call EXCEPT ![id] = [run EXCEPT !.at = "daemon", !.left = Chain]]
      BY <1>1, <2>2 DEF LocalBegins
    <3> QED
      BY <1>2, <3>1
  <2>3. CASE DaemonAnswers(id)
    <3>1. \/ call' = [call EXCEPT ![id] = Behind(run)]
          \/ \E a : call' = [call EXCEPT ![id] = [run EXCEPT !.at = a]]
      BY <1>1, <2>3 DEF DaemonAnswers
    <3> QED
      BY <1>2, <3>1
  <2>4. CASE LocalFails(id) \/ RejectsSchema(id)
    <3>1. call' = [call EXCEPT ![id] = Behind(run)]
      BY <1>1, <2>4 DEF LocalFails, RejectsSchema
    <3> QED
      BY <1>2, <3>1
  <2> QED
    BY <2>1, <2>2, <2>3, <2>4
<1> QED
  BY <1>3, <1>4, GoesOnSound

LEMMA LayaProbedSound ==
    ASSUME ClassifierInv, LayaProbed
    PROVE  Sound
<1>1. UNCHANGED <<cfg, last, cache>>
  BY DEF LayaProbed
<1>2. RunsOK'
  <2>1. PICK ok \in BOOLEAN :
          call' = [id \in Runs |->
                     IF call[id].at # "layaWait" THEN call[id]
                     ELSE IF ok THEN [call[id] EXCEPT !.at = "layaAsk"] ELSE InChain(call[id])]
    BY DEF LayaProbed
  <2>2. ASSUME NEW id \in Runs PROVE RunOK(call'[id])
    <3>1. /\ RunOK(call[id]) /\ RunOK([call[id] EXCEPT !.at = "layaAsk"])
          /\ RunOK(InChain(call[id]))
      BY RunAt, RunEdits DEF ClassifierInv, RunsOK
    <3>2. call'[id] \in {call[id], [call[id] EXCEPT !.at = "layaAsk"], InChain(call[id])}
      BY <2>1
    <3> QED
      BY <3>1, <3>2
  <2> QED
    BY <2>1, <2>2 DEF RunsOK
<1>3. ResultsOK' /\ CacheOK(cache') /\ Enters
  BY <1>1, UnchangedCache DEF ClassifierInv, ResultsOK
<1> QED
  BY <1>1, <1>2, <1>3 DEF Sound, ClassifierInv

LEMMA AnswersSound ==
    ASSUME ClassifierInv, NEW id \in Runs, CloudAnswers(id) \/ LocalAnswers(id)
    PROVE  Sound
<1>1. RunsOK /\ ResultsOK /\ CacheOK(cache) /\ cfg' = cfg /\ cfg \in Configs
  BY DEF ClassifierInv, CloudAnswers, LocalAnswers
<1>2. PICK hints : \E answer \in Replies(id, hints) :
        Returns(id, answer) /\ cache' = Stored(id, answer)
  BY DEF CloudAnswers, LocalAnswers
<1>3. PICK answer \in Replies(id, hints) : Returns(id, answer) /\ cache' = Stored(id, answer)
  BY <1>2
<1>4. answer.of \in {None, id[1]} /\ (answer.of = None => answer \in Plain)
  BY <1>3, ReplyShapes
<1>5. /\ RunsOK' /\ ResultsOK' /\ call'[id].at = "idle"
      /\ Routes(id) => last'[id[1]] = Inherit(id[1], call[id].prev, answer)
  BY <1>1, <1>3, <1>4, ReturnsSound
<1>6. CacheOK(cache') /\ Enters
  BY <1>1, <1>3, <1>4, <1>5, DecisionEnters
<1> QED
  BY <1>1, <1>5, <1>6 DEF Sound, ClassifierInv

LEMMA StaticFallbackSound ==
    ASSUME ClassifierInv, NEW id \in Runs, StaticFallback(id)
    PROVE  Sound
<1>1. RunsOK /\ ResultsOK /\ CacheOK(cache) /\ cfg' = cfg /\ cfg \in Configs /\ cache' = cache
  BY DEF ClassifierInv, StaticFallback
<1>2. PICK cat : Returns(id, Said(cat))
  BY DEF StaticFallback
<1>3. Said(cat).of \in {None, id[1]}
  BY DEF Said
<1>4. RunsOK' /\ ResultsOK'
  BY <1>1, <1>2, <1>3, ReturnsSound
<1>5. CacheOK(cache') /\ Enters
  BY <1>1, UnchangedCache
<1> QED
  BY <1>1, <1>4, <1>5 DEF Sound, ClassifierInv

LEMMA LayaDecidesSound ==
    ASSUME ClassifierInv, NEW id \in Runs, LayaDecides(id)
    PROVE  Sound
<1>1. RunsOK /\ ResultsOK /\ CacheOK(cache) /\ cfg' = cfg /\ cfg \in Configs
  BY DEF ClassifierInv, LayaDecides
<1>2. PICK cat \in Categories \cup {"continue"} :
        /\ cache' = Stored(id, Said(cat))
        /\ last' = IF Routes(id)
                   THEN [last EXCEPT ![id[1]] = Inherit(id[1], call[id].prev, Said(cat))] ELSE last
  BY DEF LayaDecides
<1>3. Said(cat).of = None /\ Said(cat) \in Plain
  BY DEF Said, Plain
<1>4. id[1] \in Calls /\ Shadow(id[1]) \in Runs /\ (Routes(id) => Shadow(id[1]) # id)
  BY DEF Runs, Routes, Shadow
<1>5. Inherit(id[1], call[id].prev, Said(cat)).of \in {None, id[1]}
  BY <1>3, <1>4, InheritsOwn
<1>6. ResultsOK' /\ (Routes(id) => last'[id[1]] = Inherit(id[1], call[id].prev, Said(cat)))
  <2>1. CASE Routes(id)
    BY <1>1, <1>2, <1>4, <1>5, <2>1 DEF ResultsOK
  <2>2. CASE ~Routes(id)
    BY <1>1, <1>2, <2>2 DEF ResultsOK
  <2> QED
    BY <2>1, <2>2
<1>7. RunsOK' /\ (Routes(id) => call'[id].at = "idle")
  <2>1. RunOK(Idle) /\ Idle.at = "idle" /\ RunOK(InChain(call[id]))
    BY <1>1, RunEdits DEF RunOK, Idle, RunsOK
  <2>2. \/ call' = [call EXCEPT ![id] = Idle]
        \/ call' = [call EXCEPT ![id] = Idle, ![Shadow(id[1])] = InChain(call[id])]
    BY DEF LayaDecides
  <2>3. /\ call' = [i \in Runs |-> call'[i]]
        /\ \A i \in Runs : call'[i] \in {call[i], Idle, InChain(call[id])}
        /\ Routes(id) => call'[id] = Idle
    BY <1>1, <1>4, <2>2 DEF RunsOK
  <2>4. \A i \in Runs : RunOK(call'[i])
    BY <1>1, <2>1, <2>3 DEF RunsOK
  <2> QED
    BY <2>1, <2>3, <2>4 DEF RunsOK
<1>8. CacheOK(cache') /\ Enters
  <2>1. CASE Routes(id)
    BY <1>1, <1>2, <1>3, <1>6, <1>7, <2>1, DecisionEnters
  <2>2. CASE ~Routes(id)
    BY <1>1, <1>2, <2>2, UnchangedCache DEF Stored
  <2> QED
    BY <2>1, <2>2
<1> QED
  BY <1>1, <1>6, <1>7, <1>8 DEF Sound, ClassifierInv

(* Time: entries grow old where they are.                                  *)
LEMMA PassSound ==
    ASSUME ClassifierInv, Pass
    PROVE  Sound
<1>1. CacheOK(cache) /\ UNCHANGED <<cfg, call, last>>
  BY DEF ClassifierInv, Pass
<1> DEFINE n == Len(cache)
           aged == [i \in DOMAIN cache |-> [cache[i] EXCEPT !.old = TRUE]]
<1>2. cache' = cache \/ cache' = aged
  BY DEF Pass
<1>3. CASE cache' = cache
  BY <1>1, <1>3, UnchangedCache DEF ClassifierInv, Sound, RunsOK, ResultsOK
<1>4. CASE cache' = aged
  <2>1. /\ n \in Nat /\ DOMAIN cache = 1 .. n
        /\ \A i \in 1 .. n : cache[i] \in CacheEntries
    BY <1>1, ListFacts DEF CacheOK
  <2>2. aged \in [1 .. n -> CacheEntries] /\ \A i \in 1 .. n :
           aged[i].prompt = cache[i].prompt /\ aged[i].answer = cache[i].answer
    BY <2>1 DEF CacheEntries
  <2>3. aged \in Seq(CacheEntries)
    BY <2>1, <2>2, SeqDef
  <2>4. Len(aged) = n
    BY <2>1, <2>3, LenProperties
  <2> HIDE DEF aged
  <2>5. CacheOK(aged) /\ Among(aged, cache)
    BY <1>1, <2>2, <2>3, <2>4 DEF CacheOK, Once, Among, SameIn
  <2>6. CacheOK(cache') /\ Enters
    BY <1>1, <1>4, <2>5, NothingEnters
  <2> QED
    BY <1>1, <2>6 DEF ClassifierInv, Sound, RunsOK, ResultsOK
<1> QED
  BY <1>2, <1>3, <1>4

LEMMA ClassifierInitHolds == ProbedInit => ClassifierInv
<1> SUFFICES ASSUME ProbedInit PROVE ClassifierInv
  OBVIOUS
<1>1. ClassifierInit
  BY DEF ProbedInit
<1>2. RunsOK
  BY <1>1 DEF ClassifierInit, RunsOK, RunOK, Idle
<1>3. ResultsOK
  BY <1>1 DEF ClassifierInit, ResultsOK, Said
<1>4. CacheOK(cache)
  <2>1. cache = << >> /\ << >> \in Seq(CacheEntries) /\ Len(<< >>) = 0
    BY <1>1, EmptySeq DEF ClassifierInit
  <2> QED
    BY <2>1, ClassifierAssumption DEF CacheOK, Once
<1> QED
  BY <1>1, <1>2, <1>3, <1>4 DEF ClassifierInit, ClassifierInv

LEMMA ClassifierSteps == ClassifierInv /\ [ProbedNext]_probeVars => Sound
<1> SUFFICES ASSUME ClassifierInv, [ProbedNext]_probeVars PROVE Sound
  OBVIOUS
<1>1. ASSUME NEW id \in Runs, Advance(id) PROVE Sound
  BY <1>1, WaitingSound, LayaDecidesSound, AnswersSound, FallsBackSound, StaticFallbackSound
     DEF Advance
<1>2. CASE ClassifierNext
  BY <1>1, <1>2, StartSound, LayaProbedSound, PassSound DEF ClassifierNext
<1>3. CASE UNCHANGED <<cfg, call, last, cache>>
  <2>1. CacheOK(cache') /\ Enters
    BY <1>3, UnchangedCache DEF ClassifierInv
  <2> QED
    BY <1>3, <2>1 DEF ClassifierInv, Sound, RunsOK, ResultsOK
<1>4. ClassifierNext \/ UNCHANGED <<cfg, call, last, cache>>
  BY DEF ProbedNext, ScanBegins, Scanning, CloudCandidate, CloudProbed, LocalBegin, LocalCandidate,
         LocalProbed, Ages, classifier, probeVars, classifierVars
<1> QED
  BY <1>2, <1>3, <1>4

(* No turn is decided by the context of another session, and the answer    *)
(* cache holds a prompt once and never outgrows its size                   *)
(* (classifyCacheGet, classifyCacheSet, inheritPreviousCategory).          *)
THEOREM ContextsStayApart == ProbedSpec => []OwnContext
<1>1. ClassifierInv => OwnContext
  BY ListFacts DEF ClassifierInv, ResultsOK, CacheOK, Once, OwnContext
<1>2. ClassifierInv /\ [ProbedNext]_probeVars => ClassifierInv'
  BY ClassifierSteps DEF Sound
<1> QED
  BY <1>1, <1>2, ClassifierInitHolds, PTL DEF ProbedSpec

(* What enters the answer cache has just decided a turn with that prompt:  *)
(* the detached runs leave no answer behind (spawnMomentumObservation,     *)
(* spawnBackgroundComparator).                                             *)
THEOREM OnlyRoutesAreCached == ProbedSpec => CacheRouted
<1>1. ClassifierInv /\ [ProbedNext]_probeVars => [Enters]_classifierVars
  BY ClassifierSteps DEF Sound
<1>2. ClassifierInv /\ [ProbedNext]_probeVars => ClassifierInv'
  BY ClassifierSteps DEF Sound
<1> QED
  BY <1>1, <1>2, ClassifierInitHolds, PTL DEF ProbedSpec, CacheRouted, Enters

-----------------------------------------------------------------------------
(***************************************************************************)
(* The probes.  The local candidates stand in one order, whatever is       *)
(* marked; so if all that the next scan will see was asked, what it sees   *)
(* is what was asked without the marked ones, in the same order.           *)
(***************************************************************************)
Inventory(found) == found \in Seq(ToSet(found)) /\ IsInjective(found)
Fitting(found, marked) ==
    {m \in ToSet(found) \cap DOMAIN Local : Local[m].chats # FALSE /\ m \notin marked \cup cfg.excluded}

(* Sizes sort, and an unknown one comes last.                              *)
Locals == DOMAIN Local
BySize == {e \in Locals \X Locals : Smaller(e[1], e[2])}
LEMMA SizesSort == StrictWeak(BySize, Locals)
<1> DEFINE size == [m \in Locals |-> IF Local[m].size = None THEN 0 ELSE Local[m].size]
           Sized == {m \in Locals : Local[m].size # None}
           Lower == {e \in Locals \X Locals : size[e[1]] < size[e[2]]}
<1>1. \A m \in Locals : size[m] \in Int
  BY ProbesAssumption DEF ProbesAssumption, Locals
<1>2. \A m \in Sized : size[m] = Local[m].size
  OBVIOUS
<1>3. \A a, b \in Locals : <<a, b>> \in Lower <=> size[a] < size[b]
  OBVIOUS
<1>4. \A a, b \in Locals : <<a, b>> \in BySize <=> Smaller(a, b)
  BY DEF BySize
<1>5. \A m \in Locals : m \in Sized <=> Local[m].size # None
  OBVIOUS
<1>6. Sized \subseteq Locals
  OBVIOUS
<1> HIDE DEF size, Sized
<1>7. StrictWeak(Lower, Locals)
  BY <1>1, KeysSort
<1>8. StrictWeak({}, Locals)
  BY DEF StrictWeak
<1> HIDE DEF Lower
<1>9. \A a, b \in Sized : <<a, b>> \in BySize <=> <<a, b>> \in Lower
  BY <1>2, <1>3, <1>4, <1>5, <1>6 DEF Smaller
<1>10. \A a, b \in Locals : a \notin Sized /\ b \notin Sized => <<a, b>> \notin BySize
  BY <1>4, <1>5 DEF Smaller
<1>11. \A a, b \in Locals : a \in Sized /\ b \notin Sized => <<a, b>> \in BySize /\ <<b, a>> \notin BySize
  BY <1>4, <1>5 DEF Smaller
<1>12. InGroups(BySize, Locals, Sized, Lower, {})
  BY <1>9, <1>10, <1>11 DEF InGroups
<1> QED
  BY <1>7, <1>8, <1>12, GroupsSort

(* Of two candidates the smaller one, else the one found first.            *)
LocalOrder(found) ==
    {e \in ToSet(found) \X ToSet(found) :
       <<e[1], e[2]>> \in BySize
       \/ (<<e[2], e[1]>> \notin BySize /\ Place(found, e[1]) < Place(found, e[2]))}
LEMMA CandidatesOrdered ==
    ASSUME NEW found, Inventory(found), NEW marked
    PROVE  LET refs == LocalCandidates(found, marked) IN
           /\ refs \in Seq(ToSet(found)) /\ IsInjective(refs)
           /\ ToSet(refs) = Fitting(found, marked)
           /\ OrderedBy(refs, LocalOrder(found))
           /\ \A a, b \in ToSet(refs) : ~(<<a, b>> \in LocalOrder(found) /\ <<b, a>> \in LocalOrder(found))
<1> DEFINE R == ToSet(found)
           F == {m \in DOMAIN Local : Local[m].chats # FALSE /\ m \notin marked \cup cfg.excluded}
           o == Only(found, F)
           refs == LocalCandidates(found, marked)
<1>1. found \in Seq(R) /\ IsInjective(found)
  BY DEF Inventory
<1> HIDE DEF R
<1>2. o \in Seq(R) /\ IsInjective(o) /\ Follows(o, found) /\ ToSet(o) = ToSet(found) \cap F
  <2> HIDE DEF F
  <2> QED
    BY <1>1, OnlyLists
<1>3. StrictWeak(BySize, ToSet(o))
  <2>1. ToSet(o) \in SUBSET Locals
    BY <1>2 DEF Locals
  <2> HIDE DEF o
  <2> QED
    BY <2>1, SizesSort, SmallerWeak
<1>4. refs = SortedBy(o, BySize)
  <2>1. \A i \in DOMAIN o : o[i] \in Locals
    BY <1>2 DEF ToSet, Locals
  <2>2. refs = Sorted(o, Smaller)
    BY DEF LocalCandidates
  <2> HIDE DEF o, refs
  <2>3. \A i, j \in DOMAIN o : <<o[i], o[j]>> \in BySize <=> Smaller(o[i], o[j])
    <3>1. \A a, b \in Locals : <<a, b>> \in BySize <=> Smaller(a, b)
      BY DEF BySize
    <3> QED
      BY <2>1, <3>1
  <2>4. \A i \in DOMAIN o :
           {j \in DOMAIN o : Smaller(o[j], o[i]) \/ (j < i /\ ~Smaller(o[i], o[j]))}
           = {j \in DOMAIN o : <<o[j], o[i]>> \in BySize \/ (j < i /\ <<o[i], o[j]>> \notin BySize)}
    BY <2>3
  <2>5. [i \in DOMAIN o |-> Cardinality({j \in DOMAIN o : Smaller(o[j], o[i]) \/ (j < i /\ ~Smaller(o[i], o[j]))})]
        = [i \in DOMAIN o |-> Cardinality({j \in DOMAIN o :
              <<o[j], o[i]>> \in BySize \/ (j < i /\ <<o[i], o[j]>> \notin BySize)})]
    BY <2>4
  <2> QED
    BY <2>2, <2>5 DEF Sorted, SortedBy
<1> HIDE DEF refs, o
<1>5. refs \in Seq(R) /\ Permutes(refs, o) /\ StablyBy(refs, o, BySize)
  BY <1>2, <1>3, <1>4, SortedLists
<1>6. IsInjective(refs) /\ ToSet(refs) = ToSet(found) \cap F
  BY <1>2, <1>5 DEF Permutes
<1>7. ToSet(refs) = Fitting(found, marked)
  BY <1>6 DEF Fitting
<1>8. ASSUME NEW k \in DOMAIN refs, NEW l \in DOMAIN refs, k < l
      PROVE  <<refs[k], refs[l]>> \in LocalOrder(found)
  <2>1. refs[k] \in ToSet(found) /\ refs[l] \in ToSet(found)
    BY <1>6 DEF ToSet
  <2>2. <<refs[l], refs[k]>> \notin BySize
    BY <1>5, <1>8 DEF StablyBy
  <2>3. CASE <<refs[k], refs[l]>> \in BySize
    BY <2>1, <2>3 DEF LocalOrder
  <2>4. CASE <<refs[k], refs[l]>> \notin BySize
    <3>1. PICK i, j \in DOMAIN o : i < j /\ refs[k] = o[i] /\ refs[l] = o[j]
      BY <1>5, <1>8, <2>4 DEF StablyBy
    <3>2. PICK x, y \in DOMAIN found : x < y /\ refs[k] = found[x] /\ refs[l] = found[y]
      BY <1>2, <3>1 DEF Follows
    <3>3. x = Place(found, refs[k]) /\ y = Place(found, refs[l])
      BY <1>1, <2>1, <3>2, PlaceIn
    <3> QED
      BY <2>1, <2>2, <3>2, <3>3 DEF LocalOrder
  <2> QED
    BY <2>3, <2>4
<1>9. ASSUME NEW a \in ToSet(refs), NEW b \in ToSet(refs),
             <<a, b>> \in LocalOrder(found), <<b, a>> \in LocalOrder(found)
      PROVE  FALSE
  <2>1. a \in Locals /\ b \in Locals /\ a \in ToSet(found) /\ b \in ToSet(found)
    BY <1>6 DEF Locals
  <2>2. ~(<<a, b>> \in BySize /\ <<b, a>> \in BySize)
    BY <2>1, SizesSort DEF StrictWeak
  <2>3. Place(found, a) \in Nat /\ Place(found, b) \in Nat
    BY <1>1, <2>1, PlaceIn, PlacesOf
  <2> QED
    BY <1>9, <2>2, <2>3 DEF LocalOrder
<1> QED
  BY <1>5, <1>6, <1>7, <1>8, <1>9 DEF R, refs, OrderedBy

(* What was asked without the marked ones is what the next scan will see,  *)
(* if all of that was asked: were there a candidate asked, not marked and  *)
(* not seen next, the next list would be full, of none but the asked ones. *)
LEMMA KeptForNext ==
    ASSUME NEW found, Inventory(found), NEW M, NEW N, NEW asked, NEW next,
           asked = Cut(LocalCandidates(found, M), MaxLocal),
           next = Cut(LocalCandidates(found, N), MaxLocal),
           ToSet(next) \subseteq ToSet(asked)
    PROVE  Only(asked, ToSet(asked) \ N) = next
<1> DEFINE R == ToSet(found)
           C == LocalOrder(found)
           a == LocalCandidates(found, M)
           b == LocalCandidates(found, N)
           seen == Only(asked, ToSet(asked) \ N)
<1>1. MaxLocal \in Nat
  BY ProbesAssumption DEF ProbesAssumption
<1>2. /\ a \in Seq(R) /\ IsInjective(a) /\ ToSet(a) = Fitting(found, M) /\ OrderedBy(a, C)
      /\ \A x, y \in ToSet(a) : ~(<<x, y>> \in C /\ <<y, x>> \in C)
  BY CandidatesOrdered
<1>3. b \in Seq(R) /\ IsInjective(b) /\ ToSet(b) = Fitting(found, N) /\ OrderedBy(b, C)
  BY CandidatesOrdered
<1>4. asked = Cut(a, MaxLocal) /\ next = Cut(b, MaxLocal)
  OBVIOUS
<1> HIDE DEF R, C, a, b
<1>5. /\ asked \in Seq(R) /\ IsInjective(asked) /\ OrderedBy(asked, C)
      /\ ToSet(asked) \subseteq ToSet(a) /\ Len(asked) <= MaxLocal
  BY <1>1, <1>2, <1>4, CutLists, CutLength, OrderStays
<1>6. /\ next \in Seq(R) /\ IsInjective(next) /\ OrderedBy(next, C)
      /\ ToSet(next) \subseteq ToSet(b) /\ (next = b \/ Len(next) = MaxLocal)
  <2>1. next \in Seq(R) /\ IsInjective(next) /\ ToSet(next) \subseteq ToSet(b)
    BY <1>1, <1>3, <1>4, CutLists
  <2>2. OrderedBy(next, C)
    BY <1>1, <1>3, <1>4, OrderStays
  <2>3. next = b \/ Len(next) = MaxLocal
    BY <1>1, <1>3, <1>4, CutLength
  <2> QED
    BY <2>1, <2>2, <2>3
<1>7. /\ seen \in Seq(R) /\ IsInjective(seen) /\ OrderedBy(seen, C)
      /\ ToSet(seen) = ToSet(asked) \ N
  BY <1>5, OnlyLists, OrderStays
<1> HIDE DEF seen
<1>8. ASSUME NEW m \in ToSet(asked), m \notin N PROVE m \in ToSet(next)
  <2>1. m \in ToSet(b)
    BY <1>2, <1>3, <1>5, <1>8 DEF Fitting
  <2>2. CASE next = b
    BY <2>1, <2>2
  <2>3. CASE Len(next) = MaxLocal
    <3>1. /\ Cardinality(ToSet(next)) = Len(next) /\ Cardinality(ToSet(asked)) = Len(asked)
          /\ IsFiniteSet(ToSet(asked)) /\ Len(asked) \in Nat
      BY <1>5, <1>6, LengthOf, FiniteEntries, PlacesOf
    <3>2. Cardinality(ToSet(next)) <= Cardinality(ToSet(asked))
      BY <3>1, FS_Subset
    <3>3. Cardinality(ToSet(asked)) = Cardinality(ToSet(next))
      BY <1>1, <1>5, <2>3, <3>1, <3>2
    <3>4. ToSet(asked) = ToSet(next)
      BY <3>1, <3>3, FS_Subset
    <3> QED
      BY <3>4
  <2> QED
    BY <1>6, <2>2, <2>3
<1>9. ToSet(next) \cap N = {}
  BY <1>3, <1>6 DEF Fitting
<1>10. ToSet(seen) = ToSet(next)
  BY <1>7, <1>8, <1>9
<1>11. \A x, y \in ToSet(seen) : ~(<<x, y>> \in C /\ <<y, x>> \in C)
  BY <1>2, <1>5, <1>7
<1>12. seen = next
  BY <1>6, <1>7, <1>10, <1>11, SameLists
<1> QED
  BY <1>12 DEF seen

(***************************************************************************)
(* The cloud candidates, by their places 1 .. n with the providers prov.   *)
(* The round of a place counts the earlier ones of its provider; the list  *)
(* takes them round by round.                                              *)
(***************************************************************************)
Rounds(prov, n) == [x \in 1 .. n |-> Cardinality({j \in 1 .. n : prov[j] = prov[x] /\ j < x})]
TakesTurns(order, prov, n) ==
    /\ order \in [1 .. n -> 1 .. n]
    /\ \A k, l \in 1 .. n : order[k] = order[l] => k = l
    /\ \A x \in 1 .. n : \E k \in 1 .. n : order[k] = x
    /\ \A k, l \in 1 .. n : k < l => ~(Rounds(prov, n)[order[l]] < Rounds(prov, n)[order[k]])

LEMMA RoundsCount ==
    ASSUME NEW n \in Nat, NEW prov
    PROVE  /\ \A x \in 1 .. n : Rounds(prov, n)[x] \in Nat
           /\ \A S \in SUBSET (1 .. n) : IsFiniteSet(S) /\ Cardinality(S) \in Nat
           /\ \A x, y \in 1 .. n : prov[x] = prov[y] /\ x < y => Rounds(prov, n)[x] < Rounds(prov, n)[y]
<1> DEFINE Earlier(x) == {j \in 1 .. n : prov[j] = prov[x] /\ j < x}
<1>1. IsFiniteSet(1 .. n)
  BY FS_Interval
<1>2. \A S \in SUBSET (1 .. n) : IsFiniteSet(S) /\ Cardinality(S) \in Nat
  BY <1>1, FS_Subset, FS_CardinalityType
<1>3. \A x \in 1 .. n : Rounds(prov, n)[x] = Cardinality(Earlier(x)) /\ Earlier(x) \in SUBSET (1 .. n)
  BY DEF Rounds
<1>4. ASSUME NEW x \in 1 .. n, NEW y \in 1 .. n, prov[x] = prov[y], x < y
      PROVE  Rounds(prov, n)[x] < Rounds(prov, n)[y]
  <2>1. Earlier(x) \in SUBSET Earlier(y) /\ x \in Earlier(y) /\ x \notin Earlier(x)
    BY <1>4
  <2> HIDE DEF Earlier
  <2>2. IsFiniteSet(Earlier(y)) /\ Cardinality(Earlier(y)) \in Nat /\ Cardinality(Earlier(x)) \in Nat
    BY <1>2, <1>3
  <2>3. Cardinality(Earlier(x)) <= Cardinality(Earlier(y)) /\ Cardinality(Earlier(y)) # Cardinality(Earlier(x))
    BY <2>1, <2>2, FS_Subset
  <2> QED
    BY <1>3, <2>2, <2>3
<1> HIDE DEF Earlier
<1>5. \A x \in 1 .. n : Rounds(prov, n)[x] \in Nat
  BY <1>2, <1>3
<1> QED
  BY <1>2, <1>4, <1>5

(* How many of its provider are taken up to a candidate: its round at most. *)
Taken(order, prov, k, p) == {j \in 1 .. k : prov[order[j]] = p}
LEMMA RankBounded ==
    ASSUME NEW n \in Nat, NEW prov, NEW order, TakesTurns(order, prov, n), NEW i \in 1 .. n
    PROVE  Cardinality(Taken(order, prov, i, prov[order[i]])) <= Rounds(prov, n)[order[i]] + 1
<1> DEFINE x == order[i]
           A == Taken(order, prov, i, prov[x])
           E == {j \in 1 .. n : prov[j] = prov[x] /\ j < x}
           f == [j \in A |-> order[j]]
<1>1. x \in 1 .. n /\ A \in SUBSET (1 .. n) /\ E \in SUBSET (1 .. n) /\ x \notin E
  BY DEF TakesTurns, Taken
<1>2. IsFiniteSet(E) /\ Cardinality(E) \in Nat /\ Rounds(prov, n)[x] = Cardinality(E)
  BY <1>1, RoundsCount DEF Rounds
<1>3. \A j \in A : order[j] \in E \cup {x}
  <2> SUFFICES ASSUME NEW j \in A, order[j] # x PROVE order[j] \in E
    OBVIOUS
  <2>1. j \in 1 .. n /\ order[j] \in 1 .. n /\ prov[order[j]] = prov[x] /\ (j < i \/ j = i)
    BY <1>1 DEF Taken, TakesTurns
  <2>2. j < i
    BY <2>1
  <2>3. ~(Rounds(prov, n)[x] < Rounds(prov, n)[order[j]])
    BY <2>1, <2>2 DEF TakesTurns
  <2>4. ~(x < order[j])
    BY <1>1, <2>1, <2>3, RoundsCount
  <2> QED
    BY <1>1, <2>1, <2>4
<1>4. IsFiniteSet(E \cup {x}) /\ Cardinality(E \cup {x}) = Cardinality(E) + 1
  <2> HIDE DEF E, x
  <2> QED
    BY <1>1, <1>2, FS_AddElement
<1>5. f \in Injection(A, E \cup {x})
  <2>1. \A k, l \in A : order[k] = order[l] => k = l
    BY <1>1 DEF TakesTurns
  <2> HIDE DEF A, E, x
  <2>2. f \in [A -> E \cup {x}]
    BY <1>3
  <2>3. \A k, l \in A : f[k] = f[l] => k = l
    BY <2>1
  <2> HIDE DEF f
  <2> QED
    BY <2>2, <2>3 DEF Injection, IsInjective
<1> HIDE DEF A, E, f
<1>6. Cardinality(A) <= Cardinality(E) + 1
  BY <1>4, <1>5, FS_Injection
<1> QED
  BY <1>2, <1>6 DEF A, x

(* Whoever waits is in a round that is not over: no candidate is taken     *)
(* from a later one.                                                       *)
LEMMA SharesFairly ==
    ASSUME NEW n \in Nat, NEW prov, NEW order, TakesTurns(order, prov, n),
           NEW c \in 0 .. n, NEW p, NEW i \in 1 .. c,
           Cardinality(Taken(order, prov, i, prov[order[i]])) > Cardinality(Taken(order, prov, c, p)) + 1
    PROVE  Cardinality(Taken(order, prov, c, p)) = Cardinality({y \in 1 .. n : prov[y] = p})
<1> DEFINE H == Taken(order, prov, c, p)
           O == {y \in 1 .. n : prov[y] = p}
           G == {y \in O : \E k \in 1 .. c : order[k] = y}
           g == [j \in H |-> order[j]]
           rank == Cardinality(Taken(order, prov, i, prov[order[i]]))
           Round(x) == Rounds(prov, n)[x]
<1>1. /\ i \in 1 .. n /\ H \in SUBSET (1 .. n) /\ O \in SUBSET (1 .. n) /\ G \in SUBSET O
      /\ \A k \in 1 .. c : k \in 1 .. n /\ order[k] \in 1 .. n
  BY DEF Taken, TakesTurns
<1>2. \A j \in H : j \in 1 .. c /\ order[j] \in G
  BY <1>1 DEF Taken
<1>3. \A y \in G : \E j \in H : order[j] = y
  BY DEF Taken
<1>4. \A k, l \in H : order[k] = order[l] => k = l
  BY <1>1 DEF TakesTurns
<1>5. Cardinality(G) = Cardinality(H) /\ IsFiniteSet(G) /\ Cardinality(H) \in Nat
  <2>0. IsFiniteSet(H) /\ Cardinality(H) \in Nat
    BY <1>1, RoundsCount
  <2> HIDE DEF G, H
  <2>1. g \in [H -> G]
    BY <1>2
  <2>2. \A k, l \in H : g[k] = g[l] => k = l
    BY <1>4
  <2>3. \A y \in G : \E j \in H : g[j] = y
    BY <1>3
  <2> HIDE DEF g
  <2>4. g \in Surjection(H, G) /\ g \in Injection(H, G)
    BY <2>1, <2>2, <2>3 DEF Surjection, Injection, IsInjective
  <2> QED
    BY <2>0, <2>4, FS_Surjection
<1>6. ASSUME NEW z \in O, z \notin G PROVE FALSE
  <2> DEFINE U == O \ G
  <2>1. U \in SUBSET (0 .. n) /\ U # {}
    BY <1>6
  <2> HIDE DEF U
  <2>2. PICK y \in U : \A x \in U : y <= x
    BY <2>1, SmallestOf
  <2>3. y \in 1 .. n /\ prov[y] = p /\ y \notin G
    BY <2>2 DEF U
  <2> DEFINE E == {j \in 1 .. n : prov[j] = prov[y] /\ j < y}
  <2>4. E \in SUBSET G
    BY <2>2, <2>3 DEF U
  <2>5. Round(y) = Cardinality(E) /\ Round(y) \in Nat
    BY <2>3, RoundsCount DEF Rounds
  <2> HIDE DEF E, G
  <2>6. Round(y) <= Cardinality(G)
    BY <1>5, <2>4, <2>5, FS_Subset
  <2>7. PICK l \in 1 .. n : order[l] = y
    BY <2>3 DEF TakesTurns
  <2>8. l \notin 1 .. c
    BY <2>3, <2>7 DEF G
  <2>9. i < l
    BY <2>7, <2>8
  <2>10. ~(Round(y) < Round(order[i])) /\ Round(order[i]) \in Nat
    BY <1>1, <2>7, <2>9, RoundsCount DEF TakesTurns
  <2>11. rank <= Round(order[i]) + 1
    BY <1>1, RankBounded
  <2>12. rank \in Nat
    <3>1. Taken(order, prov, i, prov[order[i]]) \in SUBSET (1 .. n)
      BY <1>1 DEF Taken
    <3> QED
      BY <3>1, RoundsCount
  <2>13. rank > Cardinality(H) + 1
    OBVIOUS
  <2> HIDE DEF H, Round, rank
  <2> QED
    BY <1>5, <2>5, <2>6, <2>10, <2>11, <2>12, <2>13
<1>7. G = O
  BY <1>1, <1>6
<1> QED
  BY <1>5, <1>7

(* The list in turns is the sorted one, with the candidates at the places. *)
LEMMA InTurnTakes ==
    ASSUME NEW R, NEW refs \in Seq(R), NEW n, n = Len(refs),
           NEW prov, prov = [x \in 1 .. n |-> Cloud[refs[x]].provider]
    PROVE  \E order : TakesTurns(order, prov, n) /\ InTurn(refs) = [i \in 1 .. n |-> refs[order[i]]]
<1> DEFINE Of(p) == {i \in DOMAIN refs : Cloud[refs[i]].provider = p}
           Round(i) == Cardinality({j \in Of(Cloud[refs[i]].provider) : j < i})
           Lead(i) == CHOOSE j \in Of(Cloud[refs[i]].provider) : \A k \in Of(Cloud[refs[i]].provider) : j <= k
           Sooner(i, j) == Round(i) < Round(j) \/ (Round(i) = Round(j) /\ Lead(i) < Lead(j))
           ids == [i \in DOMAIN refs |-> i]
           order == Sorted(ids, Sooner)
           round == Rounds(prov, n)
           lead == [x \in 1 .. n |-> Lead(x)]
           V == {e \in (1 .. n) \X (1 .. n) : round[e[1]] < round[e[2]]}
           L == {e \in (1 .. n) \X (1 .. n) : lead[e[1]] < lead[e[2]]}
           W == {e \in (1 .. n) \X (1 .. n) :
                   round[e[1]] < round[e[2]] \/ (round[e[1]] = round[e[2]] /\ lead[e[1]] < lead[e[2]])}
<1>1. n \in Nat /\ DOMAIN refs = 1 .. n
  BY PlacesOf
<1>2. InTurn(refs) = [i \in 1 .. n |-> refs[order[i]]]
  BY <1>1 DEF InTurn
<1>3. \A x \in 1 .. n : round[x] \in Nat /\ round[x] = Round(x)
  <2>1. \A x \in 1 .. n : {j \in Of(Cloud[refs[x]].provider) : j < x} = {j \in 1 .. n : prov[j] = prov[x] /\ j < x}
    BY <1>1
  <2>2. \A x \in 1 .. n : round[x] = Round(x)
    BY <2>1 DEF Rounds
  <2> HIDE DEF Round, round
  <2> QED
    BY <1>1, <2>2, RoundsCount DEF round
<1>4. \A x \in 1 .. n : lead[x] \in Nat /\ lead[x] = Lead(x)
  <2> SUFFICES ASSUME NEW x \in 1 .. n PROVE lead[x] \in Nat /\ lead[x] = Lead(x)
    OBVIOUS
  <2> DEFINE S == Of(Cloud[refs[x]].provider)
  <2>1. S \in SUBSET (0 .. n) /\ x \in S
    BY <1>1
  <2>2. lead[x] = (CHOOSE j \in S : \A k \in S : j <= k)
    OBVIOUS
  <2>3. lead[x] = Lead(x)
    OBVIOUS
  <2> HIDE DEF S, Lead, lead
  <2>4. \E j \in S : \A k \in S : j <= k
    BY <1>1, <2>1, SmallestOf
  <2>5. lead[x] \in S
    BY <2>2, <2>4
  <2>6. lead[x] \in Nat
    <3>1. \A z \in 0 .. n : z \in Nat
      BY <1>1
    <3> QED
      BY <2>1, <2>5, <3>1
  <2> QED
    BY <2>3, <2>6
<1> HIDE DEF Round, Lead, round, lead
<1>5. \A a, b \in 1 .. n : <<a, b>> \in W <=> Sooner(a, b)
  BY <1>3, <1>4
<1>6. StrictWeak(W, 1 .. n)
  <2>1. StrictWeak(V, 1 .. n)
    <3>1. \A x \in 1 .. n : round[x] \in Int
      BY <1>3
    <3> QED
      BY <3>1, KeysSort
  <2>2. StrictWeak(L, 1 .. n)
    <3>1. \A x \in 1 .. n : lead[x] \in Int
      BY <1>4
    <3> QED
      BY <3>1, KeysSort
  <2>3. \A a, b \in 1 .. n : <<a, b>> \in W <=>
           \/ <<a, b>> \in V
           \/ <<a, b>> \notin V /\ <<b, a>> \notin V /\ <<a, b>> \in L
    BY <1>3
  <2> HIDE DEF W, V, L
  <2> QED
    BY <2>1, <2>2, <2>3, ThenSorts
<1>7. ids \in Seq(1 .. n) /\ DOMAIN ids = 1 .. n /\ ToSet(ids) = 1 .. n /\ Len(ids) = n /\ IsInjective(ids)
  <2>1. ids \in [1 .. n -> 1 .. n] /\ \A i \in 1 .. n : ids[i] = i
    BY <1>1
  <2> HIDE DEF ids
  <2>2. ids \in Seq(1 .. n) /\ DOMAIN ids = 1 .. n /\ Len(ids) = n
    BY <1>1, <2>1
  <2> QED
    BY <2>1, <2>2 DEF ToSet, IsInjective
<1>8. \A i \in 1 .. n : ids[i] = i
  BY <1>1
<1> HIDE DEF W, Sooner, ids
<1>9. order = SortedBy(ids, W)
  <2>1. \A i \in DOMAIN ids :
           {j \in DOMAIN ids : Sooner(ids[j], ids[i]) \/ (j < i /\ ~Sooner(ids[i], ids[j]))}
           = {j \in DOMAIN ids : <<ids[j], ids[i]>> \in W \/ (j < i /\ <<ids[i], ids[j]>> \notin W)}
    BY <1>5, <1>7, <1>8
  <2>2. [i \in DOMAIN ids |-> Cardinality({j \in DOMAIN ids : Sooner(ids[j], ids[i]) \/ (j < i /\ ~Sooner(ids[i], ids[j]))})]
        = [i \in DOMAIN ids |-> Cardinality({j \in DOMAIN ids :
              <<ids[j], ids[i]>> \in W \/ (j < i /\ <<ids[i], ids[j]>> \notin W)})]
    BY <2>1
  <2> QED
    BY <2>2 DEF Sorted, SortedBy
<1> HIDE DEF order
<1>10. order \in Seq(1 .. n) /\ Permutes(order, ids) /\ StablyBy(order, ids, W)
  BY <1>6, <1>7, <1>9, SortedLists
<1>11. DOMAIN order = 1 .. n /\ ToSet(order) = 1 .. n /\ IsInjective(order)
  BY <1>1, <1>7, <1>10, PlacesOf DEF Permutes
<1>12. order \in [1 .. n -> 1 .. n]
  BY <1>10, <1>11
<1>13. ASSUME NEW k \in 1 .. n, NEW l \in 1 .. n, k < l
       PROVE  ~(round[order[l]] < round[order[k]])
  <2>1. <<order[l], order[k]>> \notin W
    BY <1>10, <1>11, <1>13 DEF StablyBy
  <2> QED
    BY <1>12, <2>1 DEF W
<1>14. TakesTurns(order, prov, n)
  <2>1. \A k, l \in 1 .. n : order[k] = order[l] => k = l
    BY <1>11 DEF IsInjective
  <2>2. \A x \in 1 .. n : \E k \in 1 .. n : order[k] = x
    BY <1>11 DEF ToSet
  <2> QED
    BY <1>12, <1>13, <2>1, <2>2 DEF TakesTurns, round
<1> QED
  BY <1>2, <1>14

(* A list in turns, cut to any length, is fair to all that were in it.     *)
LEMMA TurnsAreFair ==
    ASSUME NEW R, NEW refs \in Seq(R), NEW max \in Nat
    PROVE  FairShare(Cut(InTurn(refs), max), refs)
<1> DEFINE n == Len(refs)
           prov == [x \in 1 .. n |-> Cloud[refs[x]].provider]
           turns == InTurn(refs)
           asked == Cut(turns, max)
           c == Len(asked)
<1>1. n \in Nat /\ DOMAIN refs = 1 .. n /\ \A x \in 1 .. n : refs[x] \in R
  BY PlacesOf
<1>2. PICK order : TakesTurns(order, prov, n) /\ turns = [i \in 1 .. n |-> refs[order[i]]]
  BY InTurnTakes
<1> HIDE DEF n, turns
<1>3. turns \in Seq(R) /\ Len(turns) = n
  <2>1. \A i \in 1 .. n : refs[order[i]] \in R
    BY <1>1, <1>2 DEF TakesTurns
  <2>2. turns \in [1 .. n -> R]
    BY <1>2, <2>1
  <2> QED
    BY <1>1, <2>2
<1>4. /\ c \in 0 .. n /\ DOMAIN asked = 1 .. c
      /\ \A i \in 1 .. c : asked[i] = refs[order[i]] /\ order[i] \in 1 .. n
  <2>1. c = (IF max < n THEN max ELSE n) /\ DOMAIN asked = 1 .. c
    BY <1>3, CutLength
  <2>2. \A i \in DOMAIN asked : asked[i] = turns[i]
    BY <1>3, CutLists
  <2>3. c \in 0 .. n
    BY <1>1, <2>1
  <2> HIDE DEF c, asked
  <2>4. \A i \in 1 .. c : i \in 1 .. n
    BY <1>1, <2>3
  <2> QED
    BY <1>2, <2>1, <2>2, <2>3, <2>4 DEF TakesTurns
<1>5. \A i \in 1 .. c : Cloud[asked[i]].provider = prov[order[i]]
  BY <1>4
<1> HIDE DEF asked, c
<1> DEFINE Rank(i) == Cardinality({j \in 1 .. i : Cloud[asked[j]].provider = Cloud[asked[i]].provider})
           Had(p) == Cardinality({j \in DOMAIN asked : Cloud[asked[j]].provider = p})
           Has(p) == Cardinality({j \in DOMAIN refs : Cloud[refs[j]].provider = p})
<1>6. \A i \in 1 .. c : Rank(i) = Cardinality(Taken(order, prov, i, prov[order[i]]))
  <2>1. \A i \in 1 .. c : {j \in 1 .. i : Cloud[asked[j]].provider = Cloud[asked[i]].provider}
                          = Taken(order, prov, i, prov[order[i]])
    BY <1>4, <1>5 DEF Taken
  <2> QED
    BY <2>1
<1>7. \A p : Had(p) = Cardinality(Taken(order, prov, c, p))
  <2>1. \A p : {j \in DOMAIN asked : Cloud[asked[j]].provider = p} = Taken(order, prov, c, p)
    BY <1>4, <1>5 DEF Taken
  <2> QED
    BY <2>1
<1>8. \A p : Has(p) = Cardinality({y \in 1 .. n : prov[y] = p})
  <2>1. \A p : {j \in DOMAIN refs : Cloud[refs[j]].provider = p} = {y \in 1 .. n : prov[y] = p}
    BY <1>1
  <2> QED
    BY <2>1
<1> HIDE DEF Rank, Had, Has, prov
<1>9. ASSUME NEW i \in 1 .. c, NEW p, Rank(i) > Had(p) + 1 PROVE Had(p) = Has(p)
  <2>1. Cardinality(Taken(order, prov, i, prov[order[i]])) > Cardinality(Taken(order, prov, c, p)) + 1
    BY <1>6, <1>7, <1>9
  <2>2. Cardinality(Taken(order, prov, c, p)) = Cardinality({y \in 1 .. n : prov[y] = p})
    BY <1>1, <1>2, <1>4, <2>1, SharesFairly
  <2> QED
    BY <1>7, <1>8, <2>2
<1>10. \A i \in DOMAIN asked : \A m \in ToSet(refs) :
         Rank(i) > Had(Cloud[m].provider) + 1 => Had(Cloud[m].provider) = Has(Cloud[m].provider)
  BY <1>4, <1>9
<1> QED
  BY <1>10 DEF FairShare, Rank, Had, Has, asked, turns

(* The tiers make a list, whatever the prices say of the order in a tier.  *)
LEMMA InOrderList ==
    ASSUME NEW R, NEW refs \in Seq(R), NEW ahead, NEW T,
           \A k \in 1 .. Len(refs) : InOrder(refs, DOMAIN refs, ahead)[k] \in T
    PROVE  InOrder(refs, DOMAIN refs, ahead) \in Seq(T)
<1> DEFINE s == InOrder(refs, DOMAIN refs, ahead)
<1>1. Len(refs) \in Nat /\ Cardinality(DOMAIN refs) = Len(refs)
  BY PlacesOf
<1>2. s = [k \in 1 .. Len(refs) |-> s[k]]
  BY <1>1 DEF InOrder
<1> HIDE DEF s
<1>3. s \in [1 .. Len(refs) -> T]
  BY <1>2 DEF s
<1> QED
  BY <1>1, <1>3 DEF s

LEMMA TieredLists ==
    ASSUME NEW found, Inventory(found), NEW sick
    PROVE  \E R : Tiered(found, sick) \in Seq(R)
<1> DEFINE fit == {m \in DOMAIN Cloud : m \notin sick \cup cfg.excluded}
           simple == {m \in fit : Cheap(m) /\ Simple(m)}
           other == {m \in fit : Cheap(m) /\ ~Simple(m)}
           unpriced == {m \in fit : Cloud[m].price = None /\ Cloud[m].zero}
           Before(a, b) == \/ Cloud[a].price < Cloud[b].price
                           \/ Cloud[a].price = Cloud[b].price /\ Simple(a) /\ Cloud[a].gdp < Cloud[b].gdp
           Ahead1(o) == [i \in DOMAIN o |-> Cardinality({j \in DOMAIN o :
                           Before(o[j], o[i]) \/ (j < i /\ ~Before(o[i], o[j]))})]
           o == Only(found, simple)
           u == Only(found, other)
           a == InOrder(o, DOMAIN o, Ahead1(o))
           b == InOrder(u, DOMAIN u, Ahead1(u))
           c == Only(found, unpriced)
           R == ToSet(found) \cup {a[k] : k \in 1 .. Len(o)} \cup {b[k] : k \in 1 .. Len(u)}
<1>1. Tiered(found, sick) = a \o b \o c
  BY DEF Tiered, Sorted
<1> HIDE DEF simple, other, unpriced, Ahead1
<1>2. o \in Seq(ToSet(found)) /\ u \in Seq(ToSet(found)) /\ c \in Seq(ToSet(found))
  BY OnlyLists DEF Inventory
<1> HIDE DEF o, u, c
<1>3. a \in Seq(R)
  <2>1. \A k \in 1 .. Len(o) : InOrder(o, DOMAIN o, Ahead1(o))[k] \in R
    OBVIOUS
  <2> HIDE DEF R
  <2> QED
    BY <1>2, <2>1, InOrderList
<1>4. b \in Seq(R)
  <2>1. \A k \in 1 .. Len(u) : InOrder(u, DOMAIN u, Ahead1(u))[k] \in R
    OBVIOUS
  <2> HIDE DEF R
  <2> QED
    BY <1>2, <2>1, InOrderList
<1>5. c \in Seq(R)
  <2>1. ToSet(found) \subseteq R
    OBVIOUS
  <2>2. Len(c) \in Nat /\ DOMAIN c = 1 .. Len(c) /\ \A i \in DOMAIN c : c[i] \in ToSet(found)
    BY <1>2, PlacesOf
  <2> HIDE DEF R
  <2>3. c \in [1 .. Len(c) -> R]
    BY <1>2, <2>1, <2>2
  <2> QED
    BY <2>2, <2>3
<1> HIDE DEF a, b, R
<1>6. a \o b \o c \in Seq(R)
  BY <1>3, <1>4, <1>5
<1> QED
  BY <1>1, <1>6

-----------------------------------------------------------------------------
(* What a local probe asks was chosen before some of the marks.            *)
KnownFields == {"found", "sick", "cloud", "local", "seen", "fresh"}
ProbeFields == {"at", "force", "asked", "left", "working"}
ProbeInv ==
    /\ cfg \in Configs
    /\ DOMAIN known = KnownFields /\ Inventory(known.found)
    /\ DOMAIN probe = ProbeFields
    /\ probe.at = "local" => \E marked : probe.asked = LocalAsked(marked)

LEMMA ProbeInitHolds == ProbedInit => ProbeInv
<1> SUFFICES ASSUME ProbedInit PROVE ProbeInv
  OBVIOUS
<1>1. /\ cfg \in Configs /\ probe = NoProbe
      /\ known = [found |-> cfg.found, sick |-> {}, cloud |-> cfg.probed, local |-> cfg.chain,
                  seen |-> None, fresh |-> FALSE]
  BY DEF ProbedInit, ClassifierInit
<1>2. Inventory(cfg.found)
  BY <1>1, ProbesAssumption DEF ProbesAssumption, Inventory
<1>3. DOMAIN known = KnownFields /\ known.found = cfg.found
  BY <1>1 DEF KnownFields
<1>4. DOMAIN probe = ProbeFields /\ probe.at = "idle"
  BY <1>1 DEF NoProbe, ProbeFields
<1> QED
  BY <1>1, <1>2, <1>3, <1>4 DEF ProbeInv

(* The prompts leave the lists alone.                                      *)
LEMMA PromptsLeave == ClassifierNext => UNCHANGED <<cfg, known>>
BY DEF ClassifierNext, Start, Advance, LayaProbed, Pass, LayaChecks, LayaDecides, LayaFallsThrough,
       LayaFails, CloudAnswers, CloudFails, LocalBegins, DaemonAnswers, LocalAnswers, LocalFails,
       RejectsSchema, StaticFallback

LEMMA SameAsked ==
    ASSUME ProbeInv, cfg' = cfg, DOMAIN known' = KnownFields, known'.found = known.found,
           DOMAIN probe' = ProbeFields,
           probe'.at = "local" => \E marked : probe'.asked = LocalAsked(marked)
    PROVE  ProbeInv'
<1>1. \A marked : LocalAsked(marked)' = LocalAsked(marked)
  BY DEF LocalAsked, LocalCandidates
<1> QED
  BY <1>1 DEF ProbeInv, Inventory

(* The part of ProbesServe that is about one step.                         *)
Serves ==
    /\ probe'.at = "cloud" /\ probe.at = "idle"
         => FairShare(probe'.asked, Tiered(known'.found, known.sick))
    /\ probe.at = "local" /\ probe'.at = "idle"
         => LET next == Cut(LocalCandidates(known'.found, noSchema'), MaxLocal)
            IN ToSet(next) \subseteq ToSet(probe.asked) => known'.seen = next

LEMMA ScanBeginsServes == ProbeInv /\ ScanBegins => ProbeInv' /\ Serves
<1> SUFFICES ASSUME ProbeInv, ScanBegins PROVE ProbeInv' /\ Serves
  OBVIOUS
<1>1. PICK found \in cfg.inventories : known' = [known EXCEPT !.found = found]
  BY DEF ScanBegins, Finds
<1>2. PICK force \in BOOLEAN, registry \in BOOLEAN :
        probe' = [Asks(IF registry THEN "cloud" ELSE "generating",
                       Candidates(known'.found, known.sick)) EXCEPT !.force = force]
  BY DEF ScanBegins
<1>3. cfg' = cfg /\ probe.at = "idle"
  BY DEF ScanBegins, classifier
<1>4. Inventory(found)
  BY <1>1, ProbesAssumption DEF ProbesAssumption, Inventory, ProbeInv
<1>5. DOMAIN known' = KnownFields /\ known'.found = found
  BY <1>1 DEF ProbeInv, KnownFields
<1>6. /\ DOMAIN probe' = ProbeFields /\ probe'.at \in {"cloud", "generating"}
      /\ probe'.asked = Candidates(known'.found, known.sick)
  BY <1>2 DEF Asks, ProbeInv, ProbeFields
<1>7. ProbeInv'
  BY <1>3, <1>4, <1>5, <1>6 DEF ProbeInv, Inventory
<1>8. FairShare(probe'.asked, Tiered(known'.found, known.sick))
  <2>1. PICK R : Tiered(found, known.sick) \in Seq(R)
    BY <1>4, TieredLists
  <2>2. MaxCandidates \in Nat
    BY ProbesAssumption DEF ProbesAssumption
  <2>3. FairShare(Cut(InTurn(Tiered(found, known.sick)), MaxCandidates), Tiered(found, known.sick))
    BY <2>1, <2>2, TurnsAreFair
  <2> QED
    BY <1>5, <1>6, <2>3 DEF Candidates
<1> QED
  BY <1>3, <1>7, <1>8 DEF Serves

LEMMA LocalProbedServes == ProbeInv /\ LocalProbed => ProbeInv' /\ Serves
<1> SUFFICES ASSUME ProbeInv, LocalProbed PROVE ProbeInv' /\ Serves
  OBVIOUS
<1>1. /\ probe.at = "local" /\ probe' = NoProbe /\ cfg' = cfg /\ noSchema' = noSchema
      /\ known' = [known EXCEPT !.local = probe.working, !.seen = SeenNext(probe.asked), !.fresh = TRUE]
  BY DEF LocalProbed, classifier
<1>2. /\ DOMAIN known' = KnownFields /\ known'.found = known.found
      /\ known'.seen = SeenNext(probe.asked)
  BY <1>1 DEF ProbeInv, KnownFields
<1>3. DOMAIN probe' = ProbeFields /\ probe'.at = "idle"
  BY <1>1 DEF NoProbe, ProbeFields
<1>4. ProbeInv'
  BY <1>1, <1>2, <1>3, SameAsked
<1>5. PICK marked : probe.asked = Cut(LocalCandidates(known.found, marked), MaxLocal)
  BY <1>1 DEF ProbeInv, LocalAsked
<1>6. ASSUME NEW next, next = Cut(LocalCandidates(known.found, noSchema), MaxLocal),
             ToSet(next) \subseteq ToSet(probe.asked)
      PROVE  known'.seen = next
  <2>1. Inventory(known.found)
    BY DEF ProbeInv
  <2>2. Only(probe.asked, ToSet(probe.asked) \ noSchema) = next
    BY <1>5, <1>6, <2>1, KeptForNext
  <2> QED
    BY <1>2, <2>2 DEF SeenNext
<1> QED
  BY <1>1, <1>2, <1>3, <1>4, <1>6 DEF Serves

(* Every other step keeps the inventory and what is asked.                 *)
LEMMA ProbeStepServes == ProbeInv /\ [ProbedNext]_probeVars => ProbeInv' /\ [Serves]_probeVars
<1> SUFFICES ASSUME ProbeInv, [ProbedNext]_probeVars PROVE ProbeInv' /\ [Serves]_probeVars
  OBVIOUS
<1>1. CASE UNCHANGED <<cfg, known, probe>>
  <2>1. ProbeInv'
    BY <1>1, SameAsked DEF ProbeInv
  <2>2. Serves
    BY <1>1 DEF Serves
  <2> QED
    BY <2>1, <2>2
<1>2. CASE CloudCandidate
  <2>1. /\ cfg' = cfg /\ probe.at = "cloud" /\ probe' \in {Passed(Head(probe.left)), Dropped}
        /\ known' \in {known, [known EXCEPT !.sick = @ \cup {Head(probe.left)}]}
    BY <1>2 DEF CloudCandidate, classifier
  <2>2. DOMAIN known' = KnownFields /\ known'.found = known.found
    BY <2>1 DEF ProbeInv, KnownFields
  <2>3. DOMAIN probe' = ProbeFields /\ probe'.at = "cloud"
    BY <2>1 DEF ProbeInv, ProbeFields, Passed, Dropped
  <2>4. ProbeInv'
    BY <2>1, <2>2, <2>3, SameAsked
  <2> QED
    BY <2>1, <2>3, <2>4 DEF Serves
<1>3. CASE CloudProbed
  <2>1. /\ cfg' = cfg /\ probe.at = "cloud" /\ probe' = [probe EXCEPT !.at = "generating"]
        /\ known' = [known EXCEPT !.cloud = probe.working]
    BY <1>3 DEF CloudProbed, classifier
  <2>2. DOMAIN known' = KnownFields /\ known'.found = known.found
    BY <2>1 DEF ProbeInv, KnownFields
  <2>3. DOMAIN probe' = ProbeFields /\ probe'.at = "generating"
    BY <2>1 DEF ProbeInv, ProbeFields
  <2>4. ProbeInv'
    BY <2>1, <2>2, <2>3, SameAsked
  <2> QED
    BY <2>1, <2>3, <2>4 DEF Serves
<1>4. CASE LocalBegin
  <2>1. /\ cfg' = cfg /\ probe.at = "generating"
        /\ known' \in {known, [known EXCEPT !.local = << >>]}
        /\ probe' = NoProbe \/ probe' = Asks("local", LocalAsked(noSchema))
    BY <1>4 DEF LocalBegin, classifier
  <2>2. DOMAIN known' = KnownFields /\ known'.found = known.found
    BY <2>1 DEF ProbeInv, KnownFields
  <2>3. ASSUME probe' = NoProbe PROVE DOMAIN probe' = ProbeFields /\ probe'.at = "idle"
    BY <2>3 DEF NoProbe, ProbeFields
  <2>4. ASSUME probe' = Asks("local", LocalAsked(noSchema))
        PROVE  DOMAIN probe' = ProbeFields /\ probe'.at = "local" /\ probe'.asked = LocalAsked(noSchema)
    BY <2>4 DEF Asks, ProbeInv, ProbeFields
  <2>5. /\ DOMAIN probe' = ProbeFields
        /\ probe'.at = "local" => \E marked : probe'.asked = LocalAsked(marked)
    BY <2>1, <2>3, <2>4
  <2>6. ProbeInv'
    BY <2>1, <2>2, <2>5, SameAsked
  <2> QED
    BY <2>1, <2>6 DEF Serves
<1>5. CASE LocalCandidate
  <2>1. /\ cfg' = cfg /\ known' = known /\ probe.at = "local"
        /\ probe' \in {Passed(Head(probe.left)), Dropped}
    BY <1>5 DEF LocalCandidate, classifier
  <2>2. DOMAIN probe' = ProbeFields /\ probe'.at = "local" /\ probe'.asked = probe.asked
    BY <2>1 DEF ProbeInv, ProbeFields, Passed, Dropped
  <2>3. ProbeInv'
    BY <2>1, <2>2, SameAsked DEF ProbeInv
  <2> QED
    BY <2>1, <2>2, <2>3 DEF Serves
<1>6. CASE Ages
  <2>1. /\ cfg' = cfg /\ probe' = probe
        /\ known' \in {[known EXCEPT !.sick = {}], [known EXCEPT !.fresh = FALSE]}
    BY <1>6 DEF Ages, classifier
  <2>2. DOMAIN known' = KnownFields /\ known'.found = known.found
    BY <2>1 DEF ProbeInv, KnownFields
  <2>3. ProbeInv'
    BY <2>1, <2>2, SameAsked DEF ProbeInv
  <2> QED
    BY <2>1, <2>3 DEF Serves
<1>7. CASE ClassifierNext /\ UNCHANGED <<probe, scans>>
  BY <1>1, <1>7, PromptsLeave
<1>8. CASE UNCHANGED probeVars
  BY <1>1, <1>8 DEF probeVars, classifierVars
<1> QED
  BY <1>2, <1>3, <1>4, <1>5, <1>6, <1>7, <1>8, ScanBeginsServes, LocalProbedServes
     DEF ProbedNext, Scanning

(* The cloud candidates give every provider its turn, and the list of a    *)
(* local probe is kept for what the next scan will see, unless there is a  *)
(* candidate it has not asked (selectClassifierCandidates,                 *)
(* probeLocalClassifierCandidates).                                        *)
THEOREM ProbesAlwaysServe == ProbedSpec => ProbesServe
BY ProbeInitHolds, ProbeStepServes, PTL DEF ProbedSpec, ProbesServe, Serves
=============================================================================
