------------------------------ MODULE Classifier ------------------------------
(***************************************************************************)
(* The classification of prompts (src/content-classifier.ts): the answer    *)
(* cache, the Laya stage (src/laya-classifier.ts), the chain of cloud       *)
(* models, the local leg (src/classifier-local-probe.ts,                    *)
(* src/ollama-utils.ts) and the detached runs that only log.                *)
(*                                                                          *)
(* Calls of several sessions overlap in one process.  A run <<c, "route">>  *)
(* decides where a turn goes; <<c, "shadow">> is the one it detaches: the   *)
(* observation of a momentum turn, or the chain that a Laya answer          *)
(* replaced.  A prompt is what the deterministic stages see in it; an       *)
(* answer is a category and the session whose earlier turn it came from.    *)
(* The lists of models are written by the scans, in module Probes.  The     *)
(* trace, the counters and the name of the backend are left out.            *)
(***************************************************************************)
EXTENDS Lists, SequencesExt

CONSTANTS Calls,          \* sessions that classify
          Prompts,        \* prompts without a HINT at their start
          Short,          \* those of at most CONTINUATION_MAX_WORDS words
          Marked,         \* those with a HINT somewhere inside
          Words,          \* the lists of keywords each prompt has a word of
          Categories,     \* categories without "continue"
          Configs,        \* the configurations a process may run with
          Cloud,          \* [cloud refs -> provider, price, GDPval; zero: a placeholder price]
          Local,          \* [local models -> size; chats: TRUE, FALSE or unknown]
          MaxPrice,       \* MAX_OUTPUT_PRICE_PER_M
          MaxGdpval,      \* MAX_GDPVAL_LOW_TIER
          MaxCandidates,  \* MAX_PROBE_CANDIDATES
          CacheSize,      \* MAX_CLASSIFY_CACHE
          None

ASSUME ClassifierAssumption ==
    /\ CacheSize \in Nat \ {0} /\ None \notin Calls
    /\ \A k \in Configs : k.calls \subseteq Calls /\ k.says \subseteq Prompts

VARIABLES
    cfg,       \* the configuration; bounds: sessions, prompts, turns, scans,
               \* one detached run per session
    known,     \* what the scans found and verified
    call,      \* where each run is, with its prompt and its context
    last,      \* the result of the latest finished call of each session
    cache,     \* classifyCache, least recently used first
    laya,      \* the availability of the Laya stage and the probe under way
    ollama,    \* what the process believes of the local daemon
    noSchema,  \* local models marked as rejecting structured output
    count      \* prompts so far

classifierVars == <<cfg, known, call, last, cache, laya, ollama, noSchema, count>>

Route(c) == <<c, "route">>
Shadow(c) == <<c, "shadow">>
Runs == Calls \X {"route", "shadow"}
Routes(id) == id[2] = "route"

Answer == [cat : Categories \cup {"continue", "hint"}, of : Calls \cup {None}]
Said(cat) == [cat |-> cat, of |-> None]
Inherited(cat, c) == [cat |-> cat, of |-> c]

Idle == [at |-> "idle", prompt |-> None, prev |-> None, alone |-> FALSE, wedged |-> FALSE,
         left |-> << >>]

ClassifierInit ==
    /\ cfg \in Configs
    /\ known = [found |-> cfg.found, sick |-> {}, cloud |-> cfg.probed, local |-> cfg.chain,
                seen |-> None, fresh |-> FALSE]
    /\ call = [id \in Runs |-> Idle]
    /\ last = [c \in Calls |-> Said("continue")]
    /\ cache = << >>
    /\ laya = [known |-> "unknown", probing |-> FALSE]
    /\ ollama = [down |-> FALSE, wedged |-> FALSE]
    /\ noSchema = {} /\ count = 0

-----------------------------------------------------------------------------
\* The answer cache: a list of entries, each prompt at most once.
Where(p) == {i \in DOMAIN cache : cache[i].prompt = p}
Entry(p) == cache[CHOOSE i \in Where(p) : TRUE]
Without(p) == IF Where(p) = {} THEN cache ELSE RemoveAt(cache, CHOOSE i \in Where(p) : TRUE)
Cached(p) == Where(p) # {} /\ ~Entry(p).old

\* classifyCacheGet: a hit becomes the most recently used, an old entry goes.
Looked(p) == IF Cached(p) THEN Append(Without(p), Entry(p)) ELSE Without(p)

New(id, answer) == [prompt |-> call[id].prompt, answer |-> answer, old |-> FALSE]
Evicted == IF Len(cache) >= CacheSize THEN Tail(cache) ELSE cache
\* A prompt that is in the cache keeps its place.
Put(kept, e) ==
    IF \E i \in DOMAIN kept : kept[i].prompt = e.prompt
    THEN [i \in DOMAIN kept |-> IF kept[i].prompt = e.prompt THEN e ELSE kept[i]]
    ELSE Append(kept, e)

\* Mutant: what came from the caller's context is stored as well.
StoredWhole(id, answer) ==
    IF ~Routes(id) \/ ~call[id].alone THEN cache ELSE Put(Evicted, New(id, answer))
\* Mutant: the detached runs store their answers as well.
StoredByAll(id, answer) ==
    IF answer.of # None \/ ~call[id].alone THEN cache ELSE Put(Evicted, New(id, answer))

\* classifyCacheSet: a full cache loses its oldest entry whatever comes.
Stored(id, answer) ==
    IF answer.of # None \/ ~Routes(id) \/ ~call[id].alone THEN cache
    ELSE Put(Evicted, New(id, answer))

-----------------------------------------------------------------------------
\* inheritPreviousCategory, at the single exit of classifyPrompt.
Inherit(c, prev, answer) ==
    IF answer.cat = "continue" /\ prev \notin {None, "continue"} THEN Inherited(prev, c) ELSE answer

\* applyConfidenceGate for an answer below MIN_CONFIDENCE.
Doubtful(id) == Inherited(IF call[id].prev # None THEN call[id].prev ELSE "continue", id[1])

\* selectClassifierCandidates: cheap and simple models, then cheap ones, then
\* those without a price, one of every provider in turn.
Cheap(m) == Cloud[m].price # None /\ Cloud[m].price <= MaxPrice
Simple(m) == Cloud[m].gdp # None /\ Cloud[m].gdp <= MaxGdpval
Tiered(found, sick) ==
    LET fit == {m \in DOMAIN Cloud : m \notin sick \cup cfg.excluded}
        simple == {m \in fit : Cheap(m) /\ Simple(m)}
        other == {m \in fit : Cheap(m) /\ ~Simple(m)}
        unpriced == {m \in fit : Cloud[m].price = None /\ Cloud[m].zero}
        Before(a, b) == \/ Cloud[a].price < Cloud[b].price
                        \/ Cloud[a].price = Cloud[b].price /\ Simple(a) /\ Cloud[a].gdp < Cloud[b].gdp
    IN Sorted(Only(found, simple), Before) \o Sorted(Only(found, other), Before) \o Only(found, unpriced)
InTurn(refs) ==
    LET Of(p) == {i \in DOMAIN refs : Cloud[refs[i]].provider = p}
        Round(i) == Cardinality({j \in Of(Cloud[refs[i]].provider) : j < i})
        Lead(i) == CHOOSE j \in Of(Cloud[refs[i]].provider) : \A k \in Of(Cloud[refs[i]].provider) : j <= k
        Sooner(i, j) == Round(i) < Round(j) \/ (Round(i) = Round(j) /\ Lead(i) < Lead(j))
        order == Sorted([i \in DOMAIN refs |-> i], Sooner)
    IN [i \in DOMAIN refs |-> refs[order[i]]]
Candidates(found, sick) == Cut(InTurn(Tiered(found, sick)), MaxCandidates)

\* The cloud models of a run: the list the scan verified, else the discovered
\* ones, else the free ones of the configuration; a pin first, exclusions out.
CloudChain ==
    LET selected == Candidates(known.found, known.sick)
        found == IF known.cloud \notin {None, << >>} THEN known.cloud
                 ELSE IF selected # << >> THEN selected ELSE cfg.free
        pinned == IF cfg.pin = None THEN found
                  ELSE <<cfg.pin>> \o SelectSeq(found, LAMBDA m : m # cfg.pin)
    IN IF cfg.cloud THEN SelectSeq(pinned, LAMBDA m : m \notin cfg.excluded) ELSE << >>

\* classifyViaLlmChain: the cloud models first.
InChain(run) == [run EXCEPT !.at = "cloud", !.left = CloudChain]

\* Behind the deterministic stages and the cache; the watchdog is asked here.
Begun(p, prev, alone) ==
    LET run == [at |-> "laya", prompt |-> p, prev |-> prev, alone |-> alone,
                wedged |-> ollama.wedged, left |-> << >>]
    IN IF cfg.laya = "off" THEN InChain(run) ELSE run

\* A HINT at the start of the prompt, or a compaction turn.
Deterministic(c) ==
    /\ \E cat \in {"hint", "code_complex"} : last' = [last EXCEPT ![c] = Said(cat)]
    /\ UNCHANGED <<call, cache>>

\* A short prompt after a classified turn inherits its category; a detached
\* run may observe what the models would have said.
Observes == cfg.laya # "off" /\ cfg.observe
Momentum(c, p, prev, alone) ==
    /\ p \in Short /\ prev # None
    /\ last' = [last EXCEPT ![c] = Inherited(prev, c)]
    /\ IF Observes
       THEN /\ call[Shadow(c)].at = "idle"
            /\ cache' = IF alone THEN Looked(p) ELSE cache
            /\ call' = IF alone /\ Cached(p) THEN call
                       ELSE [call EXCEPT ![Shadow(c)] = Begun(p, prev, alone)]
       ELSE UNCHANGED <<call, cache>>

\* A prompt for the models: a cached answer is taken when there is no context.
Classify(c, p, prev, alone) ==
    /\ p \notin Short \/ prev = None
    /\ cache' = IF alone THEN Looked(p) ELSE cache
    /\ IF alone /\ Cached(p)
       THEN /\ last' = [last EXCEPT ![c] = Inherit(c, prev, Entry(p).answer)]
            /\ UNCHANGED call
       ELSE /\ call' = [call EXCEPT ![Route(c)] = Begun(p, prev, alone)]
            /\ UNCHANGED last

\* classifyPrompt, up to its first await.
Start(c) ==
    /\ call[Route(c)].at = "idle" /\ count < cfg.turns
    /\ count' = count + 1
    /\ \/ Deterministic(c)
       \/ \E p \in cfg.says, prev \in Categories \cup {"continue", None}, alone \in BOOLEAN :
             Momentum(c, p, prev, alone) \/ Classify(c, p, prev, alone)
    /\ UNCHANGED <<cfg, known, laya, ollama, noSchema>>

\* The end of a run: only a routed one has a result.
Returns(id, answer) ==
    /\ call' = [call EXCEPT ![id] = Idle]
    /\ last' = IF Routes(id) THEN [last EXCEPT ![id[1]] = Inherit(id[1], call[id].prev, answer)]
               ELSE last

-----------------------------------------------------------------------------
\* ensureLayaAvailable: what is known is trusted, else one probe for all.
LayaChecks(id) ==
    /\ call[id].at = "laya"
    /\ CASE laya.known = "ok" -> call' = [call EXCEPT ![id].at = "layaAsk"] /\ UNCHANGED laya
         [] laya.known = "down" -> call' = [call EXCEPT ![id] = InChain(@)] /\ UNCHANGED laya
         [] OTHER -> /\ call' = [call EXCEPT ![id].at = "layaWait"]
                     /\ laya' = [laya EXCEPT !.probing = TRUE]
    /\ UNCHANGED <<cfg, known, last, cache, ollama, noSchema, count>>

\* probeLaya settles: everyone who waits for it goes on.
LayaProbed ==
    /\ laya.probing
    /\ \E ok \in BOOLEAN :
          /\ laya' = [known |-> IF ok THEN "ok" ELSE "down", probing |-> FALSE]
          /\ call' = [id \in Runs |->
                        IF call[id].at # "layaWait" THEN call[id]
                        ELSE IF ok THEN [call[id] EXCEPT !.at = "layaAsk"] ELSE InChain(call[id])]
    /\ UNCHANGED <<cfg, known, last, cache, ollama, noSchema, count>>

\* A confident answer decides in active mode; the chain it replaces may run
\* detached.  The observation of a momentum turn never decides.
LayaDecides(id) ==
    /\ call[id].at = "layaAsk" /\ cfg.laya = "active"
    /\ \E cat \in Categories \cup {"continue"} :
          /\ cache' = Stored(id, Said(cat))
          /\ last' = IF Routes(id)
                     THEN [last EXCEPT ![id[1]] = Inherit(id[1], call[id].prev, Said(cat))] ELSE last
    /\ IF cfg.compare
       THEN /\ Routes(id) => call[Shadow(id[1])].at = "idle"
            /\ call' = [call EXCEPT ![id] = Idle, ![Shadow(id[1])] = InChain(call[id])]
       ELSE call' = [call EXCEPT ![id] = Idle]
    /\ UNCHANGED <<cfg, known, laya, ollama, noSchema, count>>

\* The answer is vetoed, or only logged.
LayaFallsThrough(id) ==
    /\ call[id].at = "layaAsk"
    /\ call' = [call EXCEPT ![id] = InChain(@)]
    /\ UNCHANGED <<cfg, known, last, cache, laya, ollama, noSchema, count>>

LayaFails(id) ==
    /\ call[id].at = "layaAsk"
    /\ call' = [call EXCEPT ![id] = InChain(@)]
    /\ laya' = [laya EXCEPT !.known = "down"]
    /\ UNCHANGED <<cfg, known, last, cache, ollama, noSchema, count>>

-----------------------------------------------------------------------------
\* What a model can answer: a category, one it doubts, or a HINT.
Replies(id, hints) ==
    {Said(cat) : cat \in Categories \cup {"continue"}} \cup {Doubtful(id)}
        \cup (IF hints THEN {Said("hint")} ELSE {})

\* A cloud model answers; a HINT counts only when the prompt has one.
CloudAnswers(id) ==
    /\ call[id].at = "cloud" /\ call[id].left # << >>
    /\ \E answer \in Replies(id, call[id].prompt \in Marked) :
          Returns(id, answer) /\ cache' = Stored(id, answer)
    /\ UNCHANGED <<cfg, known, laya, ollama, noSchema, count>>

\* Mutant: the chain stays with a model that fails.
CloudFailsAgain(id) ==
    /\ call[id].at = "cloud" /\ call[id].left # << >>
    /\ call' = [call EXCEPT ![id].left = Tail(@) \o <<Head(@)>>]
    /\ UNCHANGED <<cfg, known, last, cache, laya, ollama, noSchema, count>>

\* A candidate is skipped, fails, times out or answers with nothing usable.
CloudFails(id) ==
    /\ call[id].at = "cloud" /\ call[id].left # << >>
    /\ call' = [call EXCEPT ![id].left = Tail(@)]
    /\ UNCHANGED <<cfg, known, last, cache, laya, ollama, noSchema, count>>

\* selectLocalClassifierCandidates: the smallest first, unknown sizes last.
Smaller(a, b) == Local[a].size # None /\ (Local[b].size = None \/ Local[a].size < Local[b].size)
LocalCandidates(found, marked) ==
    Sorted(Only(found, {m \in DOMAIN Local : Local[m].chats # FALSE /\ m \notin marked \cup cfg.excluded}),
           Smaller)

\* resolveLocalClassifierChain: the pins, then the verified list, or before any
\* probe the candidates that are known to chat.
Chain ==
    LET pool == IF known.local # None THEN SelectSeq(known.local, LAMBDA m : m \notin noSchema)
                ELSE SelectSeq(LocalCandidates(known.found, noSchema), LAMBDA m : Local[m].chats = TRUE)
        Rest(m) == SelectSeq(pool, LAMBDA x : x # m)
        primary == IF cfg.first # None THEN <<cfg.first>> ELSE Cut(Rest(cfg.second), 1)
        second == IF cfg.second # None THEN <<cfg.second>> ELSE Rest(Head(primary))
    IN IF primary = << >> THEN << >> ELSE primary \o SelectSeq(Cut(second, 1), LAMBDA m : m # Head(primary))

\* The local leg: no model, a wedge known when the call began, or a daemon
\* found down shortly before skip it; else the daemon is asked.
LocalBegins(id) ==
    /\ call[id].at = "cloud" /\ call[id].left = << >>
    /\ \E chain \in {IF call[id].wedged \/ ollama.down THEN << >> ELSE Chain} :
          call' = IF chain = << >> THEN [call EXCEPT ![id].at = "static"]
                  ELSE [call EXCEPT ![id].at = "daemon", ![id].left = chain]
    /\ UNCHANGED <<cfg, known, last, cache, laya, ollama, noSchema, count>>

\* The next local model of a run, if there is one.
Behind(run) ==
    IF run.at # "retry" /\ Len(run.left) > 1
    THEN [run EXCEPT !.at = "retry", !.left = Tail(@)] ELSE [run EXCEPT !.at = "static"]

\* isOllamaAvailable; a primary marked meanwhile is skipped.
DaemonAnswers(id) ==
    /\ call[id].at = "daemon"
    /\ \/ /\ call' = [call EXCEPT ![id] = IF Head(@.left) \in noSchema THEN Behind(@)
                                          ELSE [@ EXCEPT !.at = "primary"]]
          /\ UNCHANGED ollama
       \/ /\ call' = [call EXCEPT ![id].at = "static"]
          /\ ollama' = [ollama EXCEPT !.down = TRUE]
    /\ UNCHANGED <<cfg, known, last, cache, laya, noSchema, count>>

\* A local model answers.  A HINT counts whatever the prompt has in it; an
\* unknown category or an unusable HINT is "continue".
LocalAnswers(id) ==
    /\ call[id].at \in {"primary", "retry"}
    /\ \E answer \in Replies(id, TRUE) : Returns(id, answer) /\ cache' = Stored(id, answer)
    /\ ollama' = [ollama EXCEPT !.wedged = FALSE]
    /\ UNCHANGED <<cfg, known, laya, noSchema, count>>

\* It answers nonsense, times out, which may open the breaker, or fails.
LocalFails(id) ==
    /\ call[id].at \in {"primary", "retry"}
    /\ call' = [call EXCEPT ![id] = Behind(@)]
    /\ ollama' \in {ollama, [ollama EXCEPT !.wedged = FALSE], [ollama EXCEPT !.wedged = TRUE]}
    /\ UNCHANGED <<cfg, known, last, cache, laya, noSchema, count>>

\* The primary rejects structured output: it is marked for a day.
RejectsSchema(id) ==
    /\ call[id].at = "primary"
    /\ noSchema' = noSchema \cup {Head(call[id].left)}
    /\ call' = [call EXCEPT ![id] = Behind(@)]
    /\ UNCHANGED <<cfg, known, last, cache, laya, ollama, count>>

\* classifyStatically: the first rule that finds all its words in the prompt.
\* A word may be in several lists, as "architecture" is.
ClassifyStatically(p) ==
    LET rules == << [needs |-> {"lookup", "content"}, cat |-> "simple"],
                    [needs |-> {"question"}, cat |-> "simple"],
                    [needs |-> {"edit", "code"}, cat |-> "code_simple"],
                    [needs |-> {"comparison"}, cat |-> "standard"],
                    [needs |-> {"complex"}, cat |-> "code_complex"],
                    [needs |-> {"architecture"}, cat |-> "design"],
                    [needs |-> {"plan"}, cat |-> "planning"],
                    [needs |-> {"exploration"}, cat |-> "standard"] >>
        hits == SelectSeq(rules, LAMBDA rule : rule.needs \subseteq Words[p])
    IN IF hits = << >> THEN "continue" ELSE Head(hits).cat

\* Nobody answered: the keyword table, or "continue".  Not cached.
StaticFallback(id) ==
    /\ call[id].at = "static"
    /\ Returns(id, Said(IF cfg.static THEN ClassifyStatically(call[id].prompt) ELSE "continue"))
    /\ UNCHANGED <<cfg, known, cache, laya, ollama, noSchema, count>>

-----------------------------------------------------------------------------
\* Fifteen seconds, some minutes, or a day pass.
Pass ==
    /\ ollama' \in {[ollama EXCEPT !.down = FALSE], [down |-> FALSE, wedged |-> FALSE]}
    /\ \/ UNCHANGED <<cache, laya, noSchema>>
       \/ /\ ollama' = [down |-> FALSE, wedged |-> FALSE]
          /\ cache' = [i \in DOMAIN cache |-> [cache[i] EXCEPT !.old = TRUE]]
          /\ laya' = [laya EXCEPT !.known = "unknown"]
          /\ noSchema' \in {noSchema, {}}
    /\ UNCHANGED <<cfg, known, call, last, count>>

Advance(id) ==
    \/ LayaChecks(id) \/ LayaDecides(id) \/ LayaFallsThrough(id) \/ LayaFails(id)
    \/ CloudAnswers(id) \/ CloudFails(id)
    \/ LocalBegins(id) \/ DaemonAnswers(id) \/ LocalAnswers(id) \/ LocalFails(id)
    \/ RejectsSchema(id) \/ StaticFallback(id)
ClassifierNext ==
    (\E c \in cfg.calls : Start(c)) \/ (\E id \in Runs : Advance(id)) \/ LayaProbed \/ Pass

-----------------------------------------------------------------------------
\* A turn is decided by its own prompt and its own session's earlier turn,
\* never by the earlier turn of a session that sent the same words; the answer
\* cache holds a prompt once and never outgrows its size.
OwnContext ==
    /\ \A c \in Calls : last[c].of \in {None, c}
    /\ Len(cache) <= CacheSize
    /\ \A i, j \in DOMAIN cache : cache[i].prompt = cache[j].prompt => i = j

\* What enters the answer cache has just decided a turn with that prompt: the
\* detached runs, which ask the same models about the same prompt, leave no
\* answer behind.
CacheRouted ==
    [][\A i \in DOMAIN cache' :
         (\A j \in DOMAIN cache : cache[j].prompt # cache'[i].prompt
                                  \/ cache[j].answer # cache'[i].answer)
         => \E c \in Calls : /\ call[Route(c)].prompt = cache'[i].prompt
                             /\ call'[Route(c)].at = "idle"
                             /\ last'[c] = Inherit(c, call[Route(c)].prev, cache'[i].answer)]_classifierVars

\* Every classification ends with an answer, whichever models hang, and every
\* detached run ends.
CallsReturn == \A id \in Runs : call[id].at # "idle" ~> call[id].at = "idle"
=============================================================================
