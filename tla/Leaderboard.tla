----------------------------- MODULE Leaderboard -----------------------------
(***************************************************************************)
(* What a scan reads from the page of the leaderboard (extractGdpvalScores   *)
(* and extractCapabilityProfiles of src/scan-runner.ts).                     *)
(*                                                                          *)
(* A page has cards with a label, a slug and a score; a board, best model    *)
(* first, whose rows have a label but no slug; the names its models go by,   *)
(* with their slugs; and records of measured columns by slug.  The key of a  *)
(* label is the label without what stands in parentheses, spelled like a     *)
(* slug: "GPT (low)" has the key of the whole family, which may be the slug  *)
(* of another row.  A score is the name of the row it stands in.  The page   *)
(* as it was before 2025 and the vendor of a row, which only audits read,    *)
(* are left out.                                                             *)
(***************************************************************************)
EXTENDS Naturals, FiniteSets, SequencesExt

CONSTANTS Slugs, None,
          Key  \* [labels -> slugs]

Columns == {"briefcase", "coding", "reasoning"}
Unmeasured == [c \in Columns |-> None]
NoScores == [s \in Slugs |-> None]

\* What the expressions that search a page find: every label spells a slug, and
\* every row has a score.
IsPage(page) ==
    /\ \A part \in {page.cards, page.board, page.names} : part \in Seq(Range(part))
    /\ \A i \in DOMAIN page.names : page.names[i].slug \in Slugs
    /\ \A i \in DOMAIN page.cards :
          page.cards[i].slug \in Slugs /\ Key[page.cards[i].label] \in Slugs /\ page.cards[i].score # None
    /\ \A i \in DOMAIN page.board : Key[page.board[i].label] \in Slugs /\ page.board[i].score # None

-----------------------------------------------------------------------------
\* The slug of a label: by its own name, or else by the first name with its key.
\* The table of names keeps the last slug of a name, at the place of the first.
Naming(page, label) == {i \in DOMAIN page.names : page.names[i].label = label}
LastSlug(page, label) == page.names[Max(Naming(page, label))].slug
SlugOf(page, label) ==
    LET exact == Naming(page, label)
        alike == {i \in DOMAIN page.names : Key[page.names[i].label] = Key[label]}
    IN CASE exact # {} -> page.names[Max(exact)].slug
         [] exact = {} /\ alike # {} -> LastSlug(page, page.names[Min(alike)].label)
         [] OTHER -> None

\* Scores read so far, the slugs that rows own, the keys the board has claimed.
Unread == [scores |-> NoScores, own |-> {}, claimed |-> {}]
Owned(read, slug, score) ==
    [read EXCEPT !.scores[slug] = score, !.own = @ \cup {slug}]

\* A card writes its slug, and its key only when nothing is there.
Card(read, card) ==
    LET owned == Owned(read, card.slug, card.score)
        key == Key[card.label]
    IN IF key \in owned.own \/ owned.scores[key] # None THEN owned
       ELSE [owned EXCEPT !.scores[key] = card.score]

\* A row of the board writes its slug, and its key once, over a card's key but
\* never over the slug of another row.
Row(page, read, row) ==
    LET slug == SlugOf(page, row.label)
        owned == Owned(read, slug, row.score)
        key == Key[row.label]
    IN CASE slug = None -> read
         [] slug # None /\ key \in owned.own \cup owned.claimed -> owned
         [] OTHER -> [owned EXCEPT !.scores[key] = row.score, !.claimed = @ \cup {key}]

CardsRead(page) ==
    LET read[i \in 0 .. Len(page.cards)] ==
            IF i = 0 THEN Unread ELSE Card(read[i - 1], page.cards[i])
    IN read
BoardRead(page) ==
    LET read[i \in 0 .. Len(page.board)] ==
            IF i = 0 THEN CardsRead(page)[Len(page.cards)] ELSE Row(page, read[i - 1], page.board[i])
    IN read
ExtractGdpvalScores(page) == BoardRead(page)[Len(page.board)].scores

-----------------------------------------------------------------------------
\* What a row of the board measured.  Zero on the coding column is no result
\* there, while a record counts it.
OnBoard(row) ==
    [c \in Columns |-> IF c = "reasoning" \/ row.columns[c] = "zero" THEN None ELSE row.columns[c]]
Over(profile, columns) ==
    [c \in Columns |-> IF columns[c] # None THEN columns[c] ELSE profile[c]]

\* The rows of the board by the slug of their own name or their key, each for
\* the whole of its profile; then the records, column by column.
ExtractCapabilityProfiles(page) ==
    LET Slug(row) == IF Naming(page, row.label) # {} THEN LastSlug(page, row.label) ELSE Key[row.label]
        Legacy(profiles, row) ==
            IF OnBoard(row) = Unmeasured THEN profiles
            ELSE [profiles EXCEPT ![Slug(row)] = OnBoard(row)]
        Record(profiles, r) == [profiles EXCEPT ![r.slug] = Over(@, r.columns)]
    IN FoldLeft(Record, FoldLeft(Legacy, [s \in Slugs |-> Unmeasured], page.board), page.records)

-----------------------------------------------------------------------------
\* The reference: a slug has the score of its own row on the board, or of its
\* card; a family without a row of its own has the score of its best member.
RatedBy(page, s) ==
    LET rows == {i \in DOMAIN page.board : SlugOf(page, page.board[i].label) = s}
        cards == {i \in DOMAIN page.cards : page.cards[i].slug = s}
        kin == {i \in DOMAIN page.board :
                   Key[page.board[i].label] = s /\ SlugOf(page, page.board[i].label) # None}
        cousins == {i \in DOMAIN page.cards : Key[page.cards[i].label] = s}
    IN CASE rows # {} -> page.board[Max(rows)].score
         [] rows = {} /\ cards # {} -> page.cards[Max(cards)].score
         [] rows = {} /\ cards = {} /\ kin # {} -> page.board[Min(kin)].score
         [] rows \cup cards \cup kin = {} /\ cousins # {} -> page.cards[Min(cousins)].score
         [] OTHER -> None
=============================================================================
