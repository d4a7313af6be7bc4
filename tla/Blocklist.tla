------------------------------ MODULE Blocklist -------------------------------
(***************************************************************************)
(* The learned blocklist (src/model-blocklist.ts).  A model whose failures  *)
(* are a property of the model leaves every candidate list for a week: at   *)
(* once when the text is a known permanent one, after MinFailures failures  *)
(* with one and the same unknown text that lie an hour apart or more.       *)
(*                                                                         *)
(* A failure text is its signature.  Ages are what the code asks of them:   *)
(* a streak is "young", or an hour old or more ("long") and stale a week    *)
(* after its latest failure; a block is old a week after the latest.        *)
(***************************************************************************)
EXTENDS Naturals

CONSTANTS Refs,         \* model refs
          LocalRefs,    \* those of a local daemon
          Permanent,    \* texts classifyFailure knows as permanent
          Unknown,      \* texts it does not know
          Transient,    \* texts that heal or depend on the request
          MinFailures,  \* TIER2_MIN_FAILURES
          None

Texts == Permanent \cup Unknown \cup Transient

ASSUME BlocklistAssumption ==
    /\ MinFailures \in Nat \ {0} /\ None \notin Texts
    /\ Permanent \cap Unknown = {} /\ Permanent \cap Transient = {} /\ Unknown \cap Transient = {}

VARIABLES block,   \* model_blocklist
          streak,  \* model_failure_streaks; a count past MinFailures is not told apart
          seen     \* history: failures since the last answer or the user's clearing

blockVars == <<block, streak, seen>>

Blocks == [signature : Texts, old : BOOLEAN]
Streaks == [signature : Texts, count : 1..MinFailures, long : BOOLEAN, stale : BOOLEAN]

NoBlock == [signature |-> None, old |-> TRUE]
NoStreak == [signature |-> None, count |-> 0, long |-> FALSE, stale |-> FALSE]
Unseen == [t \in Texts |-> [n |-> 0, long |-> FALSE]]

BlocklistInit ==
    /\ block = [r \in Refs |-> NoBlock]
    /\ streak = [r \in Refs |-> NoStreak]
    /\ seen = [r \in Refs |-> Unseen]

IsBlocked(r) == ~block[r].old

-----------------------------------------------------------------------------
UpTo(n) == IF n < MinFailures THEN n ELSE MinFailures

Seen(r, t) == seen' = [seen EXCEPT ![r][t].n = UpTo(@ + 1)]

\* block(): the streak has done its work.
Block(r, t) ==
    /\ block' = [block EXCEPT ![r] = [signature |-> t, old |-> FALSE]]
    /\ streak' = [streak EXCEPT ![r] = NoStreak]

\* The streak with one more failure: another text or a stale one starts over.
Counted(r, t) ==
    IF streak[r].signature # t \/ streak[r].stale
    THEN [signature |-> t, count |-> 1, long |-> FALSE, stale |-> FALSE]
    ELSE [streak[r] EXCEPT !.count = UpTo(@ + 1)]

\* An unknown text of a cloud model: an expired block with the same signature is
\* renewed at once, else the streak decides.
Suspects(r, t) ==
    IF block[r].signature = t \/ (Counted(r, t).count >= MinFailures /\ Counted(r, t).long)
    THEN Block(r, t)
    ELSE streak' = [streak EXCEPT ![r] = Counted(r, t)] /\ UNCHANGED block

\* recordBlocklistFailure.
RecordBlocklistFailure(r, t) ==
    /\ Seen(r, t)
    /\ CASE t \in Permanent -> Block(r, t)
         [] t \in Unknown /\ r \notin LocalRefs -> Suspects(r, t)
         [] OTHER -> UNCHANGED <<block, streak>>

\* Mutant: an answer lifts the block and leaves the streak.
RecordBlocklistSuccessHalf(r) ==
    /\ block' = [block EXCEPT ![r] = NoBlock]
    /\ seen' = [seen EXCEPT ![r] = Unseen]
    /\ UNCHANGED streak

\* recordBlocklistSuccess, and clearBlocklist of one model.
RecordBlocklistSuccess(r) ==
    /\ block' = [block EXCEPT ![r] = NoBlock]
    /\ streak' = [streak EXCEPT ![r] = NoStreak]
    /\ seen' = [seen EXCEPT ![r] = Unseen]

\* clearBlocklist of all models.
ClearBlocklist ==
    /\ block' = [r \in Refs |-> NoBlock]
    /\ streak' = [r \in Refs |-> NoStreak]
    /\ seen' = [r \in Refs |-> Unseen]

\* An hour passes since every failure of r so far, or a week since the latest;
\* a streak is younger than the block it follows, and may outlive it.
Older(r) == seen' = [seen EXCEPT ![r] =
              [t \in Texts |-> [n |-> seen[r][t].n, long |-> seen[r][t].n > 0]]]
Aged(r, weeks) == IF streak[r] = NoStreak THEN NoStreak
                  ELSE [streak[r] EXCEPT !.long = TRUE, !.stale = @ \/ weeks]
Expired(r) == block' = [block EXCEPT ![r] = [signature |-> @.signature, old |-> TRUE]]
Hour(r) == Older(r) /\ streak' = [streak EXCEPT ![r] = Aged(r, FALSE)] /\ UNCHANGED block
Week(r) == Older(r) /\ streak' = [streak EXCEPT ![r] = Aged(r, TRUE)] /\ Expired(r)
Expire(r) == Expired(r) /\ UNCHANGED <<streak, seen>>

BlocklistNext ==
    \/ \E r \in Refs, t \in Texts : RecordBlocklistFailure(r, t)
    \/ \E r \in Refs : RecordBlocklistSuccess(r) \/ Hour(r) \/ Week(r) \/ Expire(r)
    \/ ClearBlocklist
BlocklistSpec == BlocklistInit /\ [][BlocklistNext]_blockVars

-----------------------------------------------------------------------------
BlocklistType ==
    /\ block \in [Refs -> Blocks \cup {NoBlock}]
    /\ streak \in [Refs -> Streaks \cup {NoStreak}]
    /\ seen \in [Refs -> [Texts -> [n : 0..MinFailures, long : BOOLEAN]]]

\* What the history holds against a model.
Convicted(r, t) ==
    \/ t \in Permanent /\ seen[r][t].n > 0
    \/ t \in Unknown /\ r \notin LocalRefs /\ seen[r][t].n >= MinFailures /\ seen[r][t].long

\* A model is blocked, or held in an expired block that its next failure would
\* renew, only for what it did since it last answered: a permanent failure, or
\* MinFailures failures with one text, more than an hour apart.  A local model
\* is never blocked for an unknown text, a streak of one text never counts for
\* another, and no sequence of answers, clearings and expiries leaves a remnant
\* that convicts later (recordBlocklistSuccess, block, clearBlocklist).
BlocksEarned ==
    /\ BlocklistType
    /\ \A r \in Refs : block[r] # NoBlock => Convicted(r, block[r].signature)
=============================================================================
