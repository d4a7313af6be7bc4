------------------------------- MODULE MCMetrics -------------------------------
(***************************************************************************)
(* Six slugs: one curated that the pages score too, with two variants of    *)
(* its family, one only curated, one that only the older page has, one of   *)
(* the daemon.  The older page has the model before its variants, the       *)
(* newer one only variants, one of them without a name of its own.  Four    *)
(* cloud models: a subscription, one paid per token, the same one under an  *)
(* alias provider, one OpenRouter sometimes gives away; two of the daemon,  *)
(* one of which models.json may have under its shorter spelling.  The first *)
(* scene is about scores, the second about prices, the others about what a  *)
(* session start registers, with and without a list of what pi has.         *)
(***************************************************************************)
EXTENDS Registration
CONSTANTS both, low, high, curated, dropped, estimated, claude, zai, ghost, gift,
          gemma, latest_gemma, nemo
MCSlugs == {both, low, high, curated, dropped, estimated}
MCKey == [l \in {"Both", "Both (low)", "Both (high)", "Both (new)", "Dropped", "Dropped (low)"} |->
    IF l \in {"Dropped", "Dropped (low)"} THEN dropped ELSE both]
MCRefs == {claude, zai, ghost, gift, latest_gemma, nemo}
MCPlain == [i \in {gemma, latest_gemma, nemo} |-> IF i = nemo THEN nemo ELSE gemma]
MCKind == [r \in MCRefs |-> IF r = claude THEN "subscription"
                            ELSE IF r \in {latest_gemma, nemo} THEN "local" ELSE "pay_per_token"]
MCTwin == [r \in MCRefs |-> IF r = ghost THEN zai ELSE None]
MCProvider == [r \in MCRefs |-> IF r \in {latest_gemma, nemo} THEN "ollama" ELSE r]
MCSame == [r \in MCRefs |-> IF r = claude THEN gift ELSE None]
Content(builtin, cost, free, groups) ==
    [builtin |-> builtin, cost |-> [r \in MCRefs |-> IF r = zai THEN cost ELSE None],
     free |-> free, groups |-> groups]
MCConfigs == {Content({both, curated}, None, {}, {"coding"}),
              Content({curated}, "user", {gift}, {"coding"})}
MCGroups == {Content({}, None, {}, {"coding"}), Content({}, None, {}, {"coding", "planning", "zai"})}
Named(label, slug) == [label |-> label, slug |-> slug]
Rated(label, slug, score) == [label |-> label, slug |-> slug, score |-> score]
Ranked(label, score, coding) ==
    [label |-> label, score |-> score, columns |-> [Unmeasured EXCEPT !.coding = coding]]
Blank == [name |-> "blank", cards |-> << >>, names |-> << >>, board |-> << >>,
          records |-> <<[slug |-> both, columns |-> [c \in Columns |-> "blank"]]>>]
Page1 == [Blank EXCEPT !.name = "page1", !.records = << >>,
    !.cards = <<Rated("Dropped", dropped, "1 dropped"), Rated("Dropped (low)", low, "1 card")>>,
    !.names = <<Named("Both (low)", low), Named("Both", both), Named("Both (high)", high)>>,
    !.board = <<Ranked("Both", "1 both", None), Ranked("Both (low)", "1 low", "1 low"),
                Ranked("Both (high)", "1 high", None)>>]
Page2 == [Blank EXCEPT !.name = "page2",
    !.cards = <<Rated("Both (low)", low, "2 card")>>,
    !.names = <<Named("Both (low)", low), Named("Both (high)", high)>>,
    !.board = <<Ranked("Both (high)", "2 high", "zero"), Ranked("Both (low)", "2 low", "2 low"),
                Ranked("Both (new)", "2 new", None)>>]
Price(p) == [r \in MCRefs |-> IF r \in {zai, gift} THEN p ELSE None]
Catalog(p) == [r \in MCRefs |-> IF r = gift THEN p ELSE None]
Still == [configs |-> MCConfigs, disks |-> {NoScores}, prices |-> {Price(None)}, ghosts |-> {}, looked |-> {},
          pages |-> {[Blank EXCEPT !.records = << >>]}, catalogs |-> {Catalog(None)}, estimates |-> {},
          tags |-> {{}}, models |-> {{}}, lists |-> TRUE, others |-> {}]
MCScenes ==
    {[Still EXCEPT !.disks = {ExtractGdpvalScores(Page1), NoScores},
                   !.looked = {zai}, !.estimates = {estimated, dropped},
                   !.pages = {Page1, Page2, Blank}],
     [Still EXCEPT !.prices = {Price(None), Price("zero"), Price("registry")}, !.ghosts = {ghost},
                   !.looked = MCRefs \ {latest_gemma, nemo}, !.catalogs = {Catalog(p) : p \in {None, "zero", "or"}}]}
    \cup
    {[Still EXCEPT !.tags = {{latest_gemma}, {nemo}, {latest_gemma, nemo}}, !.configs = MCGroups,
                   !.models = {{}, {gemma}}, !.others = {"coding", "planning"}, !.lists = lists] :
        lists \in BOOLEAN}
=============================================================================
