-------------------------------- MODULE Probes --------------------------------
(***************************************************************************)
(* What a scan does for the classifier (src/scan-runner.ts): it finds       *)
(* models, probes the cloud candidates (src/classifier-fallback-probe.ts)   *)
(* and, after the generation, the local ones                                *)
(* (src/classifier-local-probe.ts), while prompts are being classified.     *)
(* One scan runs at a time.  A candidate has to classify every case of the  *)
(* probe; one step of the model asks it all of them.                        *)
(***************************************************************************)
EXTENDS Classifier

CONSTANTS MaxLocal,     \* MAX_LOCAL_PROBE_CANDIDATES
          MaxWorking,   \* MAX_WORKING_MODELS
          MaxLocalWorking  \* MAX_LOCAL_WORKING_MODELS

\* An inventory names a model once: a scan replaces all that a provider had.
ASSUME ProbesAssumption ==
    /\ MaxCandidates \in Nat /\ MaxLocal \in Nat
    /\ \A m \in DOMAIN Local : Local[m].size = None \/ Local[m].size \in Nat
    /\ \A k \in Configs : \A f \in k.inventories \cup {k.found} : f \in Seq(ToSet(f)) /\ IsInjective(f)

VARIABLES probe,  \* the scan: where it is, the candidates, those left, those that work
          scans   \* scans so far

classifier == <<cfg, call, last, cache, laya, count>>
probeVars == <<classifierVars, probe, scans>>

NoProbe == [at |-> "idle", force |-> FALSE, asked |-> << >>, left |-> << >>, working |-> << >>]
ProbedInit == ClassifierInit /\ probe = NoProbe /\ scans = 0

\* The models of a provider that failed or answered with nothing stay listed.
Finds == \E found \in cfg.inventories : known' = [known EXCEPT !.found = found]
Asks(stage, refs) == [probe EXCEPT !.at = stage, !.asked = refs, !.left = refs, !.working = << >>]

\* scan, as far as the cloud probe; without pi's registry there is none.
ScanBegins ==
    /\ probe.at = "idle" /\ scans < cfg.scans
    /\ scans' = scans + 1
    /\ Finds
    /\ \E force \in BOOLEAN, registry \in BOOLEAN :
          probe' = [Asks(IF registry THEN "cloud" ELSE "generating",
                         Candidates(known'.found, known.sick)) EXCEPT !.force = force]
    /\ UNCHANGED <<classifier, ollama, noSchema>>

\* Whether the probe goes on with a next candidate.
More(max) == probe.left # << >> /\ Len(probe.working) < max
Passed(m) == [probe EXCEPT !.left = Tail(@), !.working = Append(@, m)]
Dropped == [probe EXCEPT !.left = Tail(@)]

\* probeAndCache: the next candidate answers every case, answers one wrongly or
\* not at all, which its health and the blocklist remember, or is none pi can use.
CloudCandidate ==
    /\ probe.at = "cloud" /\ More(MaxWorking)
    /\ LET m == Head(probe.left) IN
       \/ probe' = Passed(m) /\ UNCHANGED known
       \/ probe' = Dropped /\ known' \in {known, [known EXCEPT !.sick = @ \cup {m}]}
    /\ UNCHANGED <<classifier, ollama, noSchema, scans>>
CloudProbed ==
    /\ probe.at = "cloud" /\ ~More(MaxWorking)
    /\ probe' = [probe EXCEPT !.at = "generating"]
    /\ known' = [known EXCEPT !.cloud = probe.working]
    /\ UNCHANGED <<classifier, ollama, noSchema, scans>>

\* What a local probe would ask.
LocalAsked(marked) == Cut(LocalCandidates(known.found, marked), MaxLocal)

\* A verified list of the same candidates is kept for a day.
Reusable(refs) == ~probe.force /\ known.local # None /\ known.fresh /\ known.seen = refs

\* probeLocalClassifierCandidates, up to its first request: an outage keeps the
\* list that is there.
LocalBegin ==
    /\ probe.at = "generating"
    /\ \E refs \in {LocalAsked(noSchema)} :
       CASE Reusable(refs) -> probe' = NoProbe /\ UNCHANGED <<known, ollama>>
         [] ~Reusable(refs) /\ refs = << >>
              -> probe' = NoProbe /\ known' = [known EXCEPT !.local = << >>] /\ UNCHANGED ollama
         [] OTHER -> /\ UNCHANGED known
                     /\ \/ /\ ~ollama.wedged /\ ~ollama.down
                           /\ probe' = Asks("local", refs)
                           /\ UNCHANGED ollama
                        \/ /\ probe' = NoProbe
                           /\ ollama' = IF ollama.wedged THEN ollama ELSE [ollama EXCEPT !.down = TRUE]
    /\ UNCHANGED <<classifier, noSchema, scans>>

\* A candidate answers, which ends an old mark; rejects structured output; or
\* fails, whereof the watchdog hears nothing.
LocalCandidate ==
    /\ probe.at = "local" /\ More(MaxLocalWorking)
    /\ LET m == Head(probe.left) IN
       \/ probe' = Passed(m) /\ noSchema' = noSchema \ {m}
       \/ probe' = Dropped /\ noSchema' \in {noSchema, noSchema \cup {m}}
    /\ UNCHANGED <<classifier, known, ollama, scans>>

\* Mutant: the list is kept for the candidates that were asked.
SeenAsked(refs) == refs
\* The candidates the next scan will see.
SeenNext(refs) == Only(refs, ToSet(refs) \ noSchema)
LocalProbed ==
    /\ probe.at = "local" /\ ~More(MaxLocalWorking)
    /\ probe' = NoProbe
    /\ known' = [known EXCEPT !.local = probe.working, !.seen = SeenNext(probe.asked), !.fresh = TRUE]
    /\ UNCHANGED <<classifier, ollama, noSchema, scans>>

\* A quarter of an hour, a week, a day.
Ages ==
    /\ known' \in {[known EXCEPT !.sick = {}], [known EXCEPT !.fresh = FALSE]} /\ known' # known
    /\ UNCHANGED <<classifier, ollama, noSchema, probe, scans>>

Scanning == CloudCandidate \/ CloudProbed \/ LocalBegin \/ LocalCandidate \/ LocalProbed
ProbedNext ==
    \/ ClassifierNext /\ UNCHANGED <<probe, scans>>
    \/ ScanBegins \/ Scanning \/ Ages

\* Every request, of a prompt or of a probe, has its own time limit and ends by it.
ProbedSpec == /\ ProbedInit /\ [][ProbedNext]_probeVars
              /\ WF_probeVars(Scanning) /\ WF_probeVars(LayaProbed /\ UNCHANGED <<probe, scans>>)
              /\ \A id \in Runs : WF_probeVars(Advance(id) /\ UNCHANGED <<probe, scans>>)

-----------------------------------------------------------------------------
\* No provider is asked again while another one waits to be asked at all: when
\* all models of one fail, those of the others are still reached.
FairShare(refs, all) ==
    LET Rank(i) == Cardinality({j \in 1..i : Cloud[refs[j]].provider = Cloud[refs[i]].provider})
        Had(p) == Cardinality({j \in DOMAIN refs : Cloud[refs[j]].provider = p})
        Has(p) == Cardinality({j \in DOMAIN all : Cloud[all[j]].provider = p})
    IN \A i \in DOMAIN refs : \A m \in ToSet(all) :
          Rank(i) > Had(Cloud[m].provider) + 1 => Had(Cloud[m].provider) = Has(Cloud[m].provider)

\* The probes neither starve nor repeat: the cloud candidates give every
\* provider its turn, and the list of a local probe that has ended is kept for
\* just the candidates the next scan will see, unless one of them was not asked,
\* whatever was marked meanwhile; a probe costs minutes of the GPU
\* (selectClassifierCandidates, probeLocalClassifierCandidates).
ProbesServe ==
    [][/\ probe'.at = "cloud" /\ probe.at = "idle"
            => FairShare(probe'.asked, Tiered(known'.found, known.sick))
       /\ probe.at = "local" /\ probe'.at = "idle"
            => LET next == Cut(LocalCandidates(known'.found, noSchema'), MaxLocal)
               IN ToSet(next) \subseteq ToSet(probe.asked) => known'.seen = next]_probeVars

\* Every classification, every detached run and every scan ends, whichever
\* models hang.
EveryoneReturns == CallsReturn /\ (probe.at # "idle" ~> probe.at = "idle")
=============================================================================
