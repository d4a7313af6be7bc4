-------------------------- MODULE ConsumeDetection --------------------------
(***************************************************************************)
(* consumeWithDetection of src/src/stream-proxy.ts: one attempt's upstream *)
(* events are forwarded to the proxy the user reads, withheld, or turned   *)
(* into the verdict that sends the walk to its next attempt - on the SAME  *)
(* proxy.                                                                  *)
(*                                                                         *)
(* The race between the loop and the timer is lost by the loop without     *)
(* being cancelled: after a timeout the loop of the old attempt is still   *)
(* reading while the next attempt writes.  Event handlers and the code     *)
(* behind the race run without an await in between, so each action here    *)
(* is one event, with the verdict when it ends the loop.                   *)
(*                                                                         *)
(* Texts are abstract: an event says whether the held opening now reads as *)
(* tool markup, whether the hold window is full, and whether the text so   *)
(* far is an overflow rejection or a degenerate repetition.                *)
(***************************************************************************)
EXTENDS Integers, SequencesExt

CONSTANTS
    AttemptCount,   \* attempts of the walk
    Events          \* most events of one upstream

ASSUME ConsumeAssumption == AttemptCount \in Nat \ {0} /\ Events \in Nat

VARIABLES
    at,             \* the state of each attempt, see AttemptType
    proxy,          \* what the user's stream has received
    hasTools        \* the request offers tools

vars == <<at, proxy, hasTools>>

Attempts == 1 .. AttemptCount

\* Found: what the loop has seen; the verdicts in the order they are tested.
Order == <<"aborted", "context_overflow", "rate_limit_exceeded", "repetition_loop",
           "provider_error", "tool_markup_as_text", "truncated_length", "stream_threw",
           "empty_response">>

Verdicts == ToSet(Order) \cup {"none", "ok", "empty_timeout", "stall_timeout"}

Failed == Verdicts \ {"none", "ok", "aborted"}

\* Error events that are no abort, by what their text matches.
Complaints ==
    {{"rate_limit_exceeded"}, {"context_overflow"},
     {"rate_limit_exceeded", "context_overflow"}, {"provider_error"}}

\* drained: history, the upstream closed by itself.
Init ==
    /\ hasTools \in BOOLEAN
    /\ proxy = <<>>
    /\ at = [a \in Attempts |->
               [reading |-> a = 1, abandoned |-> FALSE, n |-> 0, had |-> FALSE,
                hold |-> hasTools, held |-> <<>>, heldText |-> FALSE, markup |-> FALSE,
                terminal |-> FALSE, drained |-> FALSE, found |-> {}, verdict |-> "none"]]

-----------------------------------------------------------------------------
\* Attempt a becomes s, and items go to the proxy.  A proxy that has
\* received a terminal event ignores the rest; proxy records what was pushed.
Becomes(a, s, items) ==
    /\ at' = [at EXCEPT ![a] = s]
    /\ proxy' = proxy \o items
    /\ UNCHANGED hasTools

Item(a, n, kind) == [from |-> a, n |-> n, kind |-> kind]

\* The loop of a sees its next event.
Reads(a) ==
    at[a].reading /\ ~at[a].abandoned /\ ~at[a].terminal /\ at[a].n < Events

Next1(a) == [at[a] EXCEPT !.n = @ + 1]

Released(s) == [s EXCEPT !.hold = FALSE, !.heldText = FALSE, !.held = <<>>]

Judged(s) ==
    LET found == IF s.had THEN s.found ELSE s.found \cup {"empty_response"}
        rank == {i \in DOMAIN Order : Order[i] \in found}
    IN [s EXCEPT !.reading = FALSE,
                 !.verdict = IF rank = {} THEN "ok"
                             ELSE Order[CHOOSE i \in rank : \A j \in rank : i <= j]]

\* Mutant: markup is judged, and flushed like anything else.
EndsShowingMarkup(a, s) ==
    LET why == IF s.hold /\ s.markup THEN {"tool_markup_as_text"} ELSE {} IN
    Becomes(a, Judged([Released(s) EXCEPT !.found = @ \cup why]), s.held)

(* The loop returns and the code behind the race decides.  A hold that is  *)
(* still open is resolved first: markup is dropped, anything else goes out.*)
Ends(a, s) ==
    IF s.hold /\ s.markup
      THEN Becomes(a, Judged([Released(s) EXCEPT !.found = @ \cup {"tool_markup_as_text"}]), <<>>)
      ELSE Becomes(a, Judged(Released(s)), s.held)

\* Everything held is withdrawn: a rejected candidate.
EndsDiscarding(a, s) == Becomes(a, Judged(Released(s)), <<>>)

\* Mutant: only answer text is held.
HoldsTextOnly(s, kind) == s.hold /\ kind = "text"

\* Once answer text is held everything behind it is held as well.
Holds(s, kind) == s.hold /\ (kind = "text" \/ s.heldText)

-----------------------------------------------------------------------------
\* Thinking, usage and other events; thinking counts as content.
OtherEvent(a, content) ==
    LET s == [Next1(a) EXCEPT !.had = @ \/ content] IN
    /\ Reads(a)
    /\ IF Holds(s, "other")
         THEN Becomes(a, [s EXCEPT !.held = Append(@, Item(a, s.n, "other"))], <<>>)
         ELSE Becomes(a, s, <<Item(a, s.n, "other")>>)

(* text_start, text_delta, text_end; only a delta is content.  The markup  *)
(* patterns are anchored at the start: an opening that reads as markup     *)
(* keeps doing so.  A full window releases an opening that does not.       *)
TextEvent(a, content, markup, full) ==
    LET s == [Next1(a) EXCEPT !.had = @ \/ content, !.markup = @ \/ (content /\ markup /\ at[a].hold)]
        h == [s EXCEPT !.held = Append(@, Item(a, s.n, "text")), !.heldText = TRUE]
    IN
    /\ Reads(a)
    /\ CASE ~Holds(s, "text") -> Becomes(a, s, <<Item(a, s.n, "text")>>)
         [] Holds(s, "text") /\ full /\ ~h.markup -> Becomes(a, Released(h), h.held)
         [] OTHER -> Becomes(a, h, <<>>)

\* The text so far is an overflow rejection, or repeats itself for good.
TextIsRejected(a, why) ==
    /\ Reads(a)
    /\ EndsDiscarding(a, [Next1(a) EXCEPT !.had = TRUE, !.found = @ \cup {why}])

\* A real tool call: the answer is legitimate, the hold is over.
ToolCallEvent(a) ==
    LET s == [Next1(a) EXCEPT !.had = TRUE] IN
    /\ Reads(a)
    /\ Becomes(a, Released(s), s.held \o <<Item(a, s.n, "other")>>)

(* done.  "length", an answer without content and held markup are not      *)
(* forwarded: the proxy must stay open for the next attempt.               *)
DoneEvent(a, truncated) ==
    LET s == Next1(a) IN
    /\ Reads(a)
    /\ CASE truncated -> Ends(a, [s EXCEPT !.found = @ \cup {"truncated_length"}])
         [] ~truncated /\ ~s.had -> Becomes(a, Judged(Released(s)), s.held)
         [] ~truncated /\ s.had /\ s.hold /\ s.markup -> Ends(a, s)
         [] OTHER -> Becomes(a, [Released(s) EXCEPT !.terminal = TRUE],
                             s.held \o <<Item(a, s.n, "end")>>)

\* The user stopped the turn, in an error event: what is held goes out first.
AbortEvent(a) ==
    LET s == Next1(a) IN
    /\ Reads(a)
    /\ Becomes(a, Judged([Released(s) EXCEPT !.terminal = TRUE, !.found = @ \cup {"aborted"}]),
               s.held \o <<Item(a, s.n, "end")>>)

\* Any other error event ends the loop and is not forwarded.
ErrorEvent(a, why) ==
    /\ Reads(a)
    /\ Ends(a, [Next1(a) EXCEPT !.found = @ \cup why])

\* A terminal event without its payload.
MalformedEvent(a) ==
    /\ Reads(a)
    /\ Ends(a, [Next1(a) EXCEPT !.found = @ \cup {"stream_threw"}])

(* The upstream closes, behind its terminal event or without one.  The     *)
(* code does not ask: with content and no terminal event that is an ok.    *)
UpstreamEnds(a) ==
    /\ at[a].reading /\ ~at[a].abandoned
    /\ Ends(a, [at[a] EXCEPT !.drained = TRUE])

\* Mutant: the loop's catch is taken for a completed stream.
ThrowsUnnoticed(a) ==
    /\ at[a].reading /\ ~at[a].abandoned
    /\ Becomes(a, Judged(Released(at[a])), at[a].held)

(* The upstream rejects.  After a forwarded terminal event that is         *)
(* harmless; before it the attempt failed.                                 *)
Throws(a) ==
    LET s == Released(at[a]) IN
    /\ at[a].reading /\ ~at[a].abandoned
    /\ Becomes(a, Judged(IF s.terminal THEN s ELSE [s EXCEPT !.found = @ \cup {"stream_threw"}]),
               at[a].held)

(* The upstream rejects with an AbortError: the handler does not ask       *)
(* whether the attempt was abandoned.  One that was has its verdict.       *)
ThrowsAbort(a) ==
    LET s == [Released(at[a]) EXCEPT !.terminal = TRUE, !.found = @ \cup {"aborted"}]
        last == IF at[a].terminal THEN <<>> ELSE <<Item(a, at[a].n + 1, "end")>>
    IN
    /\ at[a].reading
    /\ IF at[a].abandoned
         THEN Becomes(a, [s EXCEPT !.reading = FALSE], last)
         ELSE Becomes(a, Judged(s), at[a].held \o last)

\* Mutant: a late event of an abandoned attempt is forwarded.
LateForwarded(a) ==
    /\ at[a].reading /\ at[a].abandoned
    /\ Becomes(a, [at[a] EXCEPT !.reading = FALSE], <<Item(a, at[a].n + 1, "other")>>)

\* A late event, a late end or a late error of an abandoned attempt.
Late(a) ==
    /\ at[a].reading /\ at[a].abandoned
    /\ Becomes(a, [at[a] EXCEPT !.reading = FALSE], <<>>)

\* Mutant: the timer guards the first token only.
TimesOutBeforeContent(a) ==
    /\ at[a].reading /\ ~at[a].abandoned /\ ~at[a].terminal /\ ~at[a].had
    /\ Becomes(a, [Released(at[a]) EXCEPT !.abandoned = TRUE, !.verdict = "empty_timeout"],
               at[a].held)

(* The timer, re-armed by every event, wins the race.  The loop goes on    *)
(* reading; what it held is released or dropped.  pi-ai's streams close    *)
(* with their terminal event, so the timer it armed never fires.           *)
TimesOut(a) ==
    LET s == [Released(at[a]) EXCEPT !.abandoned = TRUE,
                 !.verdict = IF at[a].had THEN "stall_timeout" ELSE "empty_timeout"]
    IN
    /\ at[a].reading /\ ~at[a].abandoned /\ ~at[a].terminal
    /\ Becomes(a, s, IF at[a].hold /\ at[a].markup THEN <<>> ELSE at[a].held)

\* The walk hands the proxy to its next attempt, or ends it with an error.
NextAttempt(a) ==
    /\ at[a].verdict \in Failed
    /\ IF a < AttemptCount
         THEN /\ at[a + 1].verdict = "none" /\ ~at[a + 1].reading
              /\ Becomes(a + 1, [at[a + 1] EXCEPT !.reading = TRUE], <<>>)
         ELSE /\ \A i \in DOMAIN proxy : proxy[i].from # 0
              /\ Becomes(a, at[a], <<Item(0, 1, "end")>>)

Event(a) ==
    \/ \E content \in BOOLEAN : OtherEvent(a, content)
    \/ \E content, markup, full \in BOOLEAN : TextEvent(a, content, markup, full)
    \/ \E why \in {"context_overflow", "repetition_loop"} : TextIsRejected(a, why)
    \/ ToolCallEvent(a)
    \/ \E truncated \in BOOLEAN : DoneEvent(a, truncated)
    \/ AbortEvent(a)
    \/ \E why \in Complaints : ErrorEvent(a, why)
    \/ MalformedEvent(a)

Upstream(a) == UpstreamEnds(a) \/ Throws(a) \/ ThrowsAbort(a) \/ Late(a)

\* The walk has returned, or the user's stream has ended.
Over ==
    /\ \/ \E i \in DOMAIN proxy : proxy[i].kind = "end"
       \/ \E a \in Attempts : at[a].verdict = "ok"
    /\ UNCHANGED vars

Next ==
    \/ \E a \in Attempts : Event(a) \/ Upstream(a) \/ TimesOut(a) \/ NextAttempt(a)
    \/ Over

Spec == Init /\ [][Next]_vars

(* Timers fire and the walk's continuation runs; an upstream owes nothing  *)
(* but its end once it has delivered its terminal event.                   *)
FairSpec ==
    /\ Spec
    /\ \A a \in Attempts : WF_vars(TimesOut(a)) /\ WF_vars(NextAttempt(a))

-----------------------------------------------------------------------------
ItemType == [from : 0 .. AttemptCount, n : 1 .. Events + 1, kind : {"text", "other", "end"}]

AttemptType ==
    [reading : BOOLEAN, abandoned : BOOLEAN, n : 0 .. Events, had : BOOLEAN,
     hold : BOOLEAN, held : Seq(ItemType), heldText : BOOLEAN, markup : BOOLEAN,
     terminal : BOOLEAN, drained : BOOLEAN, found : SUBSET ToSet(Order), verdict : Verdicts]

\* The places of the proxy attempt a has written to.
From(a) == {i \in DOMAIN proxy : proxy[i].from = a}

\* The user has seen the first k events of attempt a, in their order.
ShownUpTo(a, k) ==
    /\ \A i, j \in From(a) : i < j => proxy[i].n < proxy[j].n
    /\ {proxy[i].n : i \in From(a)} = 1 .. k

\* Items that follow the first k of attempt a, none of them its end.
Follow(items, a, k) ==
    \A i \in DOMAIN items : items[i] = Item(a, k + i, items[i].kind) /\ items[i].kind # "end"

Ended == {i \in DOMAIN proxy : proxy[i].kind = "end"}

(* An abandoned attempt has rejected with an AbortError: its handler does  *)
(* not ask, and ends the output of the attempt that took over.             *)
Intrudes(a) == at[a].abandoned /\ "aborted" \in at[a].found
Intruders == {a \in Attempts : Intrudes(a)}

(* An upstream closed behind content without its terminal event.  The code *)
(* reports a success and ends nothing.                                     *)
ClosedSilently(a) == at[a].verdict = "ok" /\ ~at[a].terminal /\ at[a].drained

(* Types, and nothing overtakes: what an attempt has put on the proxy is a *)
(* prefix of its upstream, in order, and what it holds comes next.         *)
ConsumeInv ==
    /\ at \in [Attempts -> AttemptType]
    /\ proxy \in Seq(ItemType)
    /\ \A a \in {x \in Attempts : ~Intrudes(x)} :
          \E k \in 0 .. Events + 1 : ShownUpTo(a, k) /\ Follow(at[a].held, a, k)

(* "A candidate that never delivered a terminal event must NEVER be        *)
(* reported as success": an upstream that rejects before its terminal event *)
(* never is; one that closes silently behind content is.  Behind an ok the *)
(* user has the whole answer, with its terminal event if it had one,       *)
(* whatever other attempts do.  And nothing is pushed behind the end of    *)
(* the proxy, but where one of the two is the end an intruder pushes.      *)
SuccessDelivered ==
    /\ \A a \in Attempts : at[a].verdict = "ok" =>
          /\ ShownUpTo(a, at[a].n)
          /\ \/ ClosedSilently(a)
             \/ \E i \in From(a) : proxy[i] = Item(a, at[a].n, "end")
    /\ \A i \in Ended, j \in DOMAIN proxy :
          i < j => {proxy[i].from, proxy[j].from} \cap Intruders # {}

\* Markup that is rejected has never been shown.
MarkupWithheld ==
    \A a \in Attempts :
        at[a].verdict = "tool_markup_as_text" => \A i \in From(a) : proxy[i].kind # "text"

(* "it kept forwarding the abandoned stream's late events [...] into the   *)
(* output of the candidate that had already taken over": an attempt with a *)
(* verdict writes nothing more, but for the terminal event of an abort.     *)
NoLateOutput ==
    [][\A a \in Attempts :
         (\E i \in DOMAIN proxy' \ DOMAIN proxy : proxy'[i].from = a)
           => at[a].verdict = "none" \/ Intrudes(a)']_vars

(* The user's stream always ends, upstreams that fall silent or reject     *)
(* included, unless one closes behind content without its terminal event.  *)
ProxyEnds == <>(Ended # {} \/ \E a \in Attempts : ClosedSilently(a))
=============================================================================
