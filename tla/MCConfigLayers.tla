---------------------------- MODULE MCConfigLayers ----------------------------
(* One provider, one model and one score that the files may name, a removed   *)
(* group and a category sent to it, a sidecar without a checkpoint.           *)
EXTENDS ConfigLayers, TLC
Symmetry == Permutations(Procs)
bridge == "bridge"
MCPaths == {<<"providers", bridge, "billing">>, <<"providers", bridge, "free_models">>,
    <<"model_metrics", "m", "gdpval">>, <<"model_metrics", "m", "tps">>,
    <<"gdpval_builtin", "s", "score">>,
    <<"model_groups", "planning", "min_gdpval">>, <<"model_groups", "planning", "fallback_groups">>,
    <<"model_groups", "strategic", "min_gdpval">>,
    <<"category_groups", "ask">>, <<"category_groups", "plan">>,
    <<"delegation", "expensive_groups">>, <<"context_budget", "enabled">>,
    <<"classifier_laya", "enabled">>, <<"classifier_laya", "checkpoint">>,
    <<"classifier_laya", "endpoint">>, <<"classifier_laya", "mode">>,
    <<"provider_breaker", "enabled">>}
File(rules, pairs) ==
    [exclude |-> rules,
     at |-> [p \in MCPaths |-> IF \E x \in pairs : x[1] = p
                               THEN (CHOOSE x \in pairs : x[1] = p)[2] ELSE None]]
Base == {<< <<"model_groups", "planning", "min_gdpval">>, 1630>>,
         << <<"model_groups", "planning", "fallback_groups">>, {"simple"}>>,
         << <<"delegation", "expensive_groups">>, {"planning"}>>,
         << <<"context_budget", "enabled">>, FALSE>>}
MCShipped == {File({}, Base),
    File({"gpt*"}, Base \cup {<< <<"providers", bridge, "billing">>, "pay_per_token">>,
                              << <<"providers", bridge, "free_models">>, {"x"}>>,
                              << <<"gdpval_builtin", "s", "score">>, 900>>})}
MCUser == {None, Corrupt,
    File({}, {<< <<"providers", bridge, "billing">>, "subscription">>,
              << <<"model_metrics", "m", "tps">>, 7>>,
              << <<"delegation", "expensive_groups">>, {"strategic"}>>,
              << <<"model_groups", "strategic", "min_gdpval">>, 1>>,
              << <<"category_groups", "ask">>, "strategic">>,
              << <<"category_groups", "plan">>, "planning">>,
              << <<"classifier_laya", "enabled">>, TRUE>>,
              << <<"provider_breaker", "enabled">>, FALSE>>})}
MCProject == {None,
    File({}, {<< <<"model_groups", "planning", "fallback_groups">>, {"strategic", "simple"}>>,
              << <<"classifier_laya", "checkpoint">>, "pinned">>,
              << <<"classifier_laya", "mode">>, "wrong">>,
              << <<"gdpval_builtin", "s", "score">>, 800>>})}
MCReports == {<< <<"model_metrics", "m", "gdpval">>, 500>>}
=============================================================================
