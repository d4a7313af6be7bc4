---------------------------- MODULE Registration -----------------------------
(***************************************************************************)
(* What the router registers with pi when a session starts: the models of   *)
(* the local daemon that a scan has found, and one provider for every group *)
(* (src/group-registration.ts).  Whatever is registered under a provider's  *)
(* name replaces all that pi knew under it.                                 *)
(*                                                                          *)
(* pi has the Ollama models of models.json until somebody registers a list  *)
(* of its own.  The fields of a model, the label and the window of a group  *)
(* are left out.                                                            *)
(***************************************************************************)
EXTENDS Metrics

CONSTANTS Plain,    \* [ids of Ollama models -> the id without ":latest"]
          Names,    \* names groups and providers may have
          PiOwn     \* PI_BUILTIN_PROVIDER_IDS

VARIABLES models,   \* the ids in models.json
          overlay,  \* the list registered for Ollama, or None
          owner,    \* whose provider a name stands for: "pi", "other", "router" or None
          ours      \* registeredGroupProviderNames

regVars == <<models, overlay, owner, ours>>
allVars == <<metricsVars, regVars>>

Entries(ids, from) == {[id |-> i, from |-> from] : i \in ids}
Known == IF overlay = None THEN Entries(models, "user") ELSE overlay

\* Extension load: the configuration's groups, whoever has their names.
Boots(groups) ==
    /\ ours = groups \ PiOwn
    /\ owner = [n \in Names |-> IF n \in groups \ PiOwn THEN "router"
                                ELSE IF n \in PiOwn THEN "pi" ELSE None]
RegInit ==
    /\ MetricsInit
    /\ models \in scene.models /\ overlay = None
    /\ Boots(cfg.groups)

-----------------------------------------------------------------------------
\* The daemon names every model once, with its tag; OpenRouter has none of them.
IsLocal(r) == Kind[r] = "local"
EntryOf == [id : DOMAIN Plain, from : {"user", "router"}]
Spelled(s) == {r \in s.ghosts \cup UNION s.tags : IsLocal(r)}
ASSUME DaemonAssumption ==
    /\ \A entries \in SUBSET EntryOf : None # entries
    /\ None \notin {"pi", "other", "router"}
    /\ \A s \in Scenes :
          /\ Spelled(s) \subseteq DOMAIN Plain /\ UNION s.models \subseteq DOMAIN Plain
          /\ \A a, b \in Spelled(s) : Plain[a] = Plain[b] => a = b
          /\ \A c \in s.catalogs : \A r \in Refs : c[r] = "zero" => ~IsLocal(r)

\* registerGroupModels: pi's own entries stay as they are, and the scanned
\* models pi has under no spelling are added.  A host that cannot list its
\* models is asked for the scanned ones, by either spelling.
Scanned == {r \in found : IsLocal(r)}
Asked(r) == IF \E e \in Known : e.id = r THEN r ELSE Plain[r]
Seen == IF scene.lists THEN Known ELSE {e \in Known : \E r \in Scanned : e.id = Asked(r)}

\* Mutant: spellings are compared as they are.
UnseenExactly(r) == \A e \in Seen : e.id # r
Unseen(r) == \A e \in Seen : Plain[e.id] # Plain[r]

RegisterGroupModels ==
    LET new == {r \in Scanned : Unseen(r)}
    IN overlay' = IF new = {} THEN overlay ELSE Seen \cup Entries(new, "router")

\* registerGroupProviders: not under a builtin name, nor under one that is
\* taken and was never the router's.
RegisterGroupProviders(groups) ==
    LET mine == {g \in groups \ PiOwn : g \in ours \/ owner[g] = None} IN
    /\ owner' = [n \in Names |-> IF n \in mine THEN "router" ELSE owner[n]]
    /\ ours' = ours \cup mine

StartsSession(fits) ==
    /\ SessionStart(fits)
    /\ RegisterGroupModels
    /\ RegisterGroupProviders(file.groups)
    /\ UNCHANGED models

-----------------------------------------------------------------------------
\* The user edits models.json, another extension registers a provider.
EditsModels ==
    /\ models' \in scene.models
    /\ UNCHANGED <<metricsVars, overlay, owner, ours>>
OtherRegisters(n) ==
    /\ n \notin PiOwn
    /\ owner' = [owner EXCEPT ![n] = "other"]
    /\ UNCHANGED <<metricsVars, models, overlay, ours>>

RegNext ==
    \/ \E fits \in BOOLEAN : StartsSession(fits)
    \/ Step /\ UNCHANGED regVars
    \/ EditsModels
    \/ \E n \in scene.others : OtherRegisters(n)
RegSpec == RegInit /\ [][RegNext]_allVars

-----------------------------------------------------------------------------
\* "re-registration WIPED the user's models.json registration every session":
\* what pi knows of the daemon stays, entry for entry, however often scans find
\* other models and sessions start; no model is there twice because of the
\* router; a provider of pi is never replaced, and one of another extension
\* only under a name that has been a group's before (registerGroupModels,
\* registerGroupProviders).
PiKeeps ==
    [][/\ overlay' # overlay /\ scene.lists => Known \subseteq Known'
       /\ \A e \in Known' : \A f \in Known' \ Known :
             overlay' # overlay /\ e # f => Plain[e.id] # Plain[f.id]
       /\ \A n \in Names :
             /\ owner[n] = "pi" => owner'[n] = "pi"
             /\ owner[n] = "other" /\ owner'[n] = "router" => n \in ours]_allVars
=============================================================================
