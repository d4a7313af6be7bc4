------------------------------ MODULE MCRouting -------------------------------
(***************************************************************************)
(* Six refs: one model at two providers, an alias of it, a local model, and *)
(* two free ones at different providers that nothing matched or scored and  *)
(* whose names have the same tokens; four groups that fall back on each     *)
(* other, one per way of making a list, one that leaves its fallback groups *)
(* to the generation, and the dynamic one.  In the first scene models only  *)
(* fail and budgets move, in two others some give texts a block can be      *)
(* learned from, then the registry and the lists change, and in the last    *)
(* two providers have no key and the session is limited to some models.     *)
(***************************************************************************)
EXTENDS Routing
CONSTANTS sub, payg, alias, local, free, twin

Known(provider, slug, variant, gdp, cost, gratis) ==
    [provider |-> provider, slug |-> slug, signature |-> "nova", variant |-> variant, gdp |-> gdp, cost |-> cost,
     input |-> cost, free |-> gratis, window |-> 200, agent |-> TRUE, column |-> gdp,
     latency |-> IF provider = "ollama" THEN 400 ELSE 1000, throughput |-> variant]
MCModel == [r \in {sub, payg, alias, local, free, twin} |->
    CASE r = sub -> Known("claude", "glm", 4, 900, 2, FALSE)
      [] r = payg -> Known("zai", "glm", 4, 900, 3, FALSE)
      [] r = alias -> Known("zai", "glm", 1, 900, 1, FALSE)
      [] r = local -> Known("ollama", "qwen", 4, 300, 0, TRUE)
      [] r = twin -> [Known("zai", None, 0, None, None, TRUE) EXCEPT !.window = None]
      [] OTHER -> [Known("openrouter", None, 0, None, None, TRUE) EXCEPT !.window = None]]
MCBilling == [p \in {"claude", "zai", "ollama", "openrouter"} |->
    IF p \in {"claude", "ollama"} THEN "subscription" ELSE "pay_per_token"]
MCRegistry == <<alias, payg, local, sub>>
MCFreeModels == <<free, twin>>
MCScanned == <<payg, sub>>
MCCatalog == <<sub, payg, alias, local, free, twin>>
MCHints == {[names |-> {sub, payg}, spelled |-> {sub, payg}, exact |-> payg],
            [names |-> {free}, spelled |-> {free}, exact |-> None],
            [names |-> {}, spelled |-> {sub, payg}, exact |-> None]}
MCRules == [providers |-> {}, models |-> {}, paidFrom |-> {"openrouter"}]

Plain == [method |-> "best", models |-> {}, excludeProviders |-> {}, excludeModels |-> {},
          minGdpval |-> None, minPct |-> None, maxGdpval |-> None, scoreBy |-> None,
          requireColumn |-> FALSE, minScore |-> None, maxCost |-> None, maxCostPerM |-> None,
          minContext |-> None, preference |-> "default", pipeline |-> << >>, topK |-> None,
          fallbacks |-> << >>]
MCSteps == [i \in 1 .. 4 |-> [method |-> <<"max_throughput", "billing_preference", "min_latency", "max_gdpval">>[i],
                               topK |-> IF i = 4 THEN 1 ELSE None]]
MCOrder == <<"planning", "code", "bulk", "quick", "simple", "dynamic">>
MCGroup == [n \in {MCOrder[i] : i \in DOMAIN MCOrder} |->
    CASE n = "planning" -> [Plain EXCEPT !.minGdpval = 500, !.fallbacks = <<"code", "simple">>]
      [] n = "code" -> [Plain EXCEPT !.method = "pipeline", !.minContext = 100, !.maxCostPerM = 2,
                          !.pipeline = MCSteps,
                          !.fallbacks = <<"bulk", "planning">>]
      [] n = "bulk" -> [Plain EXCEPT !.method = "roundrobin", !.maxGdpval = 900, !.minPct = 90,
                          !.excludeProviders = {"ollama"}, !.fallbacks = <<"simple">>]
      [] n = "quick" -> [Plain EXCEPT !.method = "min_cost_if_all_priced", !.models = {free, local},
                           !.maxCostPerM = 2, !.excludeProviders = {"claude"},
                           !.fallbacks = None]
      [] n = "simple" -> [Plain EXCEPT !.method = "tiered", !.preference = "strict_local",
                            !.maxCost = 0, !.fallbacks = <<"planning">>]
      [] OTHER -> [Plain EXCEPT !.method = "dynamic"]]

Calm == [failing |-> Refs \ {alias, twin}, texts |-> [r \in Refs |-> {}], pressure |-> [r \in Refs |-> 0],
         budgeted |-> {"claude"}, metered |-> {"claude"}, registries |-> {MCRegistry}, generates |-> FALSE,
         keyless |-> {}, scoped |-> {}, cooling |-> {{payg, local}}]
Poor == [Calm EXCEPT !.failing = {sub}, !.texts[sub] = {"odd", "other"}, !.budgeted = {}]
MCScenes == {Calm, Poor, [Calm EXCEPT !.failing = {payg, local}, !.texts[payg] = {"gone"},
                            !.texts[local] = {"odd"}, !.budgeted = {}, !.metered = {}],
             [Calm EXCEPT !.failing = {local}, !.budgeted = {}, !.generates = TRUE,
                            !.registries = {MCRegistry, <<alias, sub>>, <<local, payg>>}],
             [Calm EXCEPT !.failing = {sub}, !.keyless = {"claude", "openrouter"}, !.budgeted = {},
                            !.scoped = Refs \ {payg},
                            !.cooling = {{sub}, {alias, local}}]}
=============================================================================
