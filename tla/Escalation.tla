----------------------------- MODULE Escalation -----------------------------
(***************************************************************************)
(* Loop detection and group escalation (SessionEscalation in               *)
(* src/escalation.ts, called by session_start and turn_end of              *)
(* src/event-handlers.ts).                                                 *)
(*                                                                         *)
(* Two detectors raise one level: a count of consecutive user prompts with *)
(* a frustration signal, and a local model asked every third recorded      *)
(* half of a turn, whose answer arrives later -- after more turns, after a *)
(* raise, after a new session.  At most one such call is open.             *)
(*                                                                         *)
(* The turn counter is kept up to the cadence it drives: 0, 1, then 2 on   *)
(* every third half.  The counter of sessions is only compared for         *)
(* equality, so an open call records whether its session is still current. *)
(***************************************************************************)
EXTENDS Naturals

CONSTANTS Top,       \* index of the last of ESCALATION_GROUPS, the first is 0
          Threshold, \* STREAK_THRESHOLD
          Cadence,   \* a check every Cadence halves
          NoCall

VARIABLES
  level,     \* the level all new turns are routed with
  streak,    \* _frustrationStreak
  turnCount, \* _turnCount, reduced to its cadence
  pending,   \* _streakEscalatedPending
  call,      \* the open check, or NoCall (_llmInFlight)
  checks,    \* history: checks begun since the streak last raised, up to 2
  evidence   \* history: this session reached the threshold or began a check

escalationVars == <<level, streak, turnCount, pending, call, checks, evidence>>

Levels == 0..Top
Calls == [level : Levels, muted : BOOLEAN, current : BOOLEAN]

ASSUME EscalationAssumption ==
  /\ Top \in Nat /\ Threshold \in Nat \ {0} /\ Cadence \in Nat \ {0}
  /\ NoCall \notin Calls

NextLevel(l) == IF l < Top THEN l + 1 ELSE Top

EscalationInit ==
  /\ level = 0 /\ streak = 0 /\ turnCount = 0 /\ pending = FALSE /\ call = NoCall
  /\ checks = 2 /\ evidence = FALSE

\* reset: a new session.  The open call is not cancelled, it no longer counts.
Reset ==
  /\ level' = 0 /\ streak' = 0 /\ turnCount' = 0 /\ pending' = FALSE
  /\ call' = IF call = NoCall THEN NoCall ELSE [call EXCEPT !.current = FALSE]
  /\ checks' = 2 /\ evidence' = FALSE

\* The halves of an exchange: a prompt with or without a word of frustration or
\* failure, an answer.  The words of an answer are never looked at.
Prompts == {"signal", "clean"}
Halves == Prompts \cup {"answer"}

\* The streak after one more half, and whether it raises.
Raises(half) == half = "signal" /\ streak + 1 >= Threshold
StreakAfter(half) ==
  CASE half = "answer" -> streak
    [] half = "clean" \/ Raises(half) -> 0
    [] OTHER -> streak + 1

Counted(n) == IF n < Cadence + 1 THEN n + 1 ELSE 2
Due == turnCount' = 2

\* The checks begun since the streak's last raise, before the one due now.
ChecksBefore(raised) == IF raised THEN 0 ELSE checks

\* No check: the model is missing, one is open, or none is due.  The pending
\* flag stays for the next one that is begun.
NoCheck(raised) ==
  /\ pending' = (pending \/ raised)
  /\ checks' = ChecksBefore(raised)
  /\ evidence' = (evidence \/ raised)
  /\ UNCHANGED call

\* Mutant of Dispatches: the pending flag is spent by a check that is not begun.
DispatchesAndForgets(hasModel, raised) ==
  /\ pending' = FALSE
  /\ IF hasModel /\ call = NoCall
     THEN /\ call' = [level |-> level', muted |-> pending \/ raised, current |-> TRUE]
          /\ checks' = IF ChecksBefore(raised) = 0 THEN 1 ELSE 2
          /\ evidence' = TRUE
     ELSE /\ checks' = ChecksBefore(raised)
          /\ evidence' = (evidence \/ raised)
          /\ UNCHANGED call

\* _checkAndEscalate: a check is begun when none is open and there is a model to
\* ask; only then the pending flag is spent, muting the check's answer.
Dispatches(hasModel, raised) ==
  IF hasModel /\ call = NoCall
  THEN /\ call' = [level |-> level', muted |-> pending \/ raised, current |-> TRUE]
       /\ pending' = FALSE
       /\ checks' = IF ChecksBefore(raised) = 0 THEN 1 ELSE 2
       /\ evidence' = TRUE
  ELSE NoCheck(raised)

\* recordTurn, for one half of an exchange.
RecordTurn(half) ==
  LET raised == Raises(half) /\ level # Top IN
  /\ level' = IF raised THEN NextLevel(level) ELSE level
  /\ streak' = StreakAfter(half)
  /\ turnCount' = Counted(turnCount)
  /\ IF Due THEN \E hasModel \in BOOLEAN : Dispatches(hasModel, raised)
            ELSE NoCheck(raised)

\* What a check comes back with (detectLoopWithLLM): the daemon is down, the call
\* fails or times out, or an answer in JSON or in plain words.
Replies == {"down", "failed", "loop", "no loop", "escalate, in words", "other words"}
ShouldEscalate(reply) == reply = "loop" \/ reply = "escalate, in words"

\* Mutant of Answered: the answer counts whatever session asked for it.
AnsweredLate(loop) ==
  /\ call # NoCall
  /\ call' = NoCall
  /\ level' = IF loop /\ ~call.muted /\ level = call.level THEN NextLevel(level) ELSE level
  /\ UNCHANGED <<streak, turnCount, pending, checks, evidence>>

\* The check comes back; it raises its own session only, and only unmuted.
Answered(loop) ==
  /\ call # NoCall
  /\ call' = NoCall
  /\ level' = IF loop /\ ~call.muted /\ level = call.level /\ call.current
              THEN NextLevel(level) ELSE level
  /\ UNCHANGED <<streak, turnCount, pending, checks, evidence>>

EscalationNext ==
  \/ Reset
  \/ \E half \in Halves : RecordTurn(half)
  \/ \E reply \in Replies : Answered(ShouldEscalate(reply))

EscalationSpec == EscalationInit /\ [][EscalationNext]_escalationVars

----------------------------------------------------------------------------
EscalationType ==
  /\ level \in Levels /\ streak \in 0..(Threshold - 1) /\ turnCount \in 0..(Cadence + 1)
  /\ pending \in BOOLEAN /\ call \in Calls \cup {NoCall}
  /\ checks \in 0..2 /\ evidence \in BOOLEAN

\* The flag stands for "the streak raised the level and no check was begun since".
PendingMeaning == pending <=> checks = 0

\* An open check of this session saw a level at or below today's; while its
\* answer can still raise, the streak's last raise lies two checks back.
CallMeaning ==
  (call # NoCall /\ call.current) =>
     /\ call.level <= level
     /\ (~call.muted /\ call.level = level) => checks = 2
     /\ evidence

\* The state is well formed and the flags mean what recordTurn and
\* _checkAndEscalate use them for.
EscalationInv == EscalationType /\ PendingMeaning /\ CallMeaning

\* A level above the first was earned in this session: neither an answer to a
\* check of the previous session nor its streak survives reset() (_sessionId).
EarnedLevel == level > 0 => evidence

\* One incident raises once: the local model raises only when at least one whole
\* check was begun and judged since the streak last did
\* (_streakEscalatedPending, levelAtCallTime).
NoStackedRaise ==
  [][(\E loop \in BOOLEAN : Answered(loop)) /\ level' # level => checks = 2]_escalationVars
=============================================================================
