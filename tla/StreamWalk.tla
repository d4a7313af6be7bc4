----------------------------- MODULE StreamWalk -----------------------------
(***************************************************************************)
(* The candidate walk: walkCandidates and driveStream of                   *)
(* src/src/stream-orchestrator.ts with tryStream of src/src/stream-proxy.ts*)
(*                                                                         *)
(* Several walks run at once (a turn, its subagents, its tool sub-calls)   *)
(* on one event loop.  They share the cooldowns, the provider breakers,    *)
(* the known context windows, the count of local streams and the map of    *)
(* skip reasons.  Between two awaits a walk runs alone (pc "next"), only   *)
(* the clock moves; at an await the other walks go on:                     *)
(*     "daemon"  the ollama availability probe,                            *)
(*     "open"    tryStream waiting for the API key,                        *)
(*     "null"    tryStream has resolved null, its caller not resumed yet,  *)
(*     "stream"  consumeWithDetection on an open stream,                   *)
(*     "sleep"   a bounded wait before a retry.                            *)
(* A nested driveStream (fallback group, larger context windows) is always *)
(* the last thing its caller does, so it continues the same walk; what the *)
(* caller's finally blocks still have to release stays on the stack.       *)
(*                                                                         *)
(* Cooldown and breaker times are abstract: an armed cooldown or an open   *)
(* breaker may end at any moment (RateLimit and ProviderBreaker say when). *)
(***************************************************************************)
EXTENDS Integers, FiniteSets, SequencesExt

CONSTANTS
    Walks,          \* walks, one per driveStream call of the outside
    Refs,           \* model refs
    ProviderOf,     \* [Refs -> providers]
    Ollama,         \* refs streamed by the local daemon: counted and probed
    Free,           \* refs under one account-wide daily cap
    Groups,         \* model groups
    CandidatesOf,   \* [Groups -> Seq(Refs)], in rank order
    FallbackOrder,  \* [Groups -> Seq(Groups)]
    StartGroup,     \* [Walks -> Groups]
    Unregistered,   \* refs pi's model registry does not know
    LocalLimit,     \* local_stream_limit
    KnownSmall,     \* refs whose registered window may not hold the prompt
    WaitEnabled,    \* rate_limit_wait_max_ms > 0
    OverflowTexts,  \* [Walks -> which overflow errors occur]: TRUE = it names a window
                    \* the prompt's estimate exceeds, FALSE = no numbers or others
    Casts           \* which walks run together, and which refs may be out at first

ASSUME WalkAssumption ==
    /\ ProviderOf \in [Refs -> {ProviderOf[r] : r \in Refs}]
    /\ Ollama \subseteq Refs /\ Free \subseteq Refs /\ Unregistered \subseteq Refs
    /\ CandidatesOf \in [Groups -> Seq(Refs)]
    /\ FallbackOrder \in [Groups -> Seq(Groups)]
    /\ StartGroup \in [Walks -> Groups]
    /\ LocalLimit \in Nat \ {0}
    /\ KnownSmall \subseteq Refs
    /\ Casts \subseteq [walks : SUBSET Walks, refs : SUBSET Refs]
    /\ WaitEnabled \in BOOLEAN /\ OverflowTexts \in [Walks -> SUBSET BOOLEAN]

\* Router.resolve returns no empty list; its callers throw when it returns null.
ASSUME StartAssumption == \A w \in Walks : CandidatesOf[StartGroup[w]] # <<>>

VARIABLES
    walk,           \* the state of each walk, see WalkType
    limited,        \* refs in cooldown
    open,           \* providers behind an open breaker
    small,          \* refs whose known context window is too small
    noted,          \* refs with an entry in skipReasons
    slots           \* localStreamsInFlight

shared == <<limited, open, small, noted, slots>>
vars == <<walk, limited, open, small, noted, slots>>

Providers == {ProviderOf[r] : r \in Refs}

\* Why a candidate has an entry in allErrors.
Causes == {"cooldown", "breaker", "daemon", "window", "failed"}

Modes == {"walk", "retry", "probe", "collapse"}

Pcs == {"absent", "queued", "next", "daemon", "open", "null", "stream", "sleep", "returned"}

BreakerOpen(r) == ProviderOf[r] \in open

-----------------------------------------------------------------------------
\* driveStream starts (again) on a list of candidates.
Started(s, g, refs, seen) ==
    [s EXCEPT !.pc = "next", !.mode = "walk", !.group = g, !.cands = refs,
              !.todo = refs, !.errs = {}, !.waited = FALSE, !.visited = seen]

Init ==
    \E cast \in Casts :
        /\ walk = [w \in Walks |->
                     [pc |-> IF w \in cast.walks THEN "queued" ELSE "absent", mode |-> "walk",
                      group |-> StartGroup[w], cands |-> CandidatesOf[StartGroup[w]],
                      todo |-> CandidatesOf[StartGroup[w]],
                      errs |-> {}, waited |-> FALSE, visited |-> {},
                      entered |-> {StartGroup[w]}, again |-> FALSE, blind |-> {},
                      stack |-> <<>>, ended |-> "no"]]
        /\ limited \in SUBSET cast.refs
        /\ open \in SUBSET {ProviderOf[r] : r \in cast.refs}
        /\ small \in SUBSET (KnownSmall \cap cast.refs)
        /\ noted = {}
        /\ slots = 0

\* What w awaits has come, and no other walk is between two awaits.
Resumes(w, pc) ==
    /\ walk[w].pc = pc
    /\ \A v \in Walks : walk[v].pc # "next"

\* The stream attempt a walk is in: the top of its stack.
Current(w) == Last(walk[w].stack)

\* The candidate is given up before anything was opened for it.
Skip(w, cause) ==
    walk' = [walk EXCEPT ![w].pc = "next", ![w].errs = @ \cup {cause},
                         ![w].todo = Tail(@)]

\* The finally block of the top attempt: abandon it, release its slot.
Popped(s) == [s EXCEPT !.stack = Front(@)]

SlotOf(attempt) == IF attempt.slot THEN 1 ELSE 0

Slotted(stack) == {i \in DOMAIN stack : stack[i].slot}
SlotsHeld(s) == Cardinality(Slotted(s.stack))

\* The walk returns: every finally block still on the stack runs.
Returns(w, s, how) ==
    /\ walk' = [walk EXCEPT ![w] =
                  [s EXCEPT !.pc = "returned", !.stack = <<>>, !.ended = how]]
    /\ slots' = slots - SlotsHeld(s)

-----------------------------------------------------------------------------
\* Mutant: a slot is counted and never refused.
BeginAttemptUnlimited(w, s, r, m) ==
    /\ r \notin Unregistered
    /\ walk' = [walk EXCEPT ![w] =
                  [s EXCEPT !.pc = "open", !.mode = m,
                            !.stack = Append(@, [ref |-> r, slot |-> r \in Ollama])]]
    /\ slots' = IF r \in Ollama THEN slots + 1 ELSE slots
    /\ noted' = noted \ {r}

(* tryStream up to its first await.  The skip reason of r is deleted; a    *)
(* local ref reserves its slot before anything can interleave.             *)
BeginAttempt(w, s, r, m) ==
    /\ \/ /\ r \notin Unregistered
          /\ r \in Ollama => slots < LocalLimit
          /\ walk' = [walk EXCEPT ![w] =
                        [s EXCEPT !.pc = "open", !.mode = m,
                                  !.stack = Append(@, [ref |-> r, slot |-> r \in Ollama])]]
          /\ slots' = IF r \in Ollama THEN slots + 1 ELSE slots
          /\ noted' = noted \ {r}
       \/ /\ r \in Unregistered \/ (r \in Ollama /\ slots >= LocalLimit)
          /\ walk' = [walk EXCEPT ![w] =
                        [s EXCEPT !.pc = "null", !.mode = m,
                                  !.stack = Append(@, [ref |-> r, slot |-> FALSE])]]
          /\ noted' = noted \cup {r}
          /\ UNCHANGED slots

\* The caller starts the walk and does not wait for it.
Begin(w) ==
    /\ Resumes(w, "queued")
    /\ walk' = [walk EXCEPT ![w].pc = "next"]
    /\ UNCHANGED shared

\* Loop top: the pre-flight checks of one candidate, in their order.
SkipLimited(w) ==
    /\ walk[w].pc = "next" /\ walk[w].todo # <<>>
    /\ Head(walk[w].todo) \in limited
    /\ Skip(w, "cooldown")
    /\ UNCHANGED shared

SkipOpenBreaker(w) ==
    /\ walk[w].pc = "next" /\ walk[w].todo # <<>>
    /\ Head(walk[w].todo) \notin limited
    /\ BreakerOpen(Head(walk[w].todo))
    /\ Skip(w, "breaker")
    /\ UNCHANGED shared

PassesChecks(w) ==
    /\ walk[w].pc = "next" /\ walk[w].todo # <<>>
    /\ Head(walk[w].todo) \notin limited
    /\ ~BreakerOpen(Head(walk[w].todo))

AskDaemon(w) ==
    /\ PassesChecks(w)
    /\ Head(walk[w].todo) \in Ollama
    /\ walk' = [walk EXCEPT ![w].pc = "daemon"]
    /\ UNCHANGED shared

DaemonDown(w) ==
    /\ Resumes(w, "daemon")
    /\ Skip(w, "daemon")
    /\ UNCHANGED shared

\* The daemon answered, or the candidate needs none.  After the await the
\* cooldown and the breaker are NOT looked at again.
Cleared(w) ==
    \/ PassesChecks(w) /\ Head(walk[w].todo) \notin Ollama
    \/ Resumes(w, "daemon")

SkipSmall(w) ==
    /\ Cleared(w)
    /\ Head(walk[w].todo) \in small
    /\ Skip(w, "window")
    /\ UNCHANGED shared

TryCandidate(w) ==
    /\ Cleared(w)
    /\ Head(walk[w].todo) \notin small
    /\ BeginAttempt(w, walk[w], Head(walk[w].todo), "walk")
    /\ UNCHANGED <<limited, open, small>>

-----------------------------------------------------------------------------
(* What a failed attempt does to the shared state: recordStreamFailure     *)
(* arms a cooldown (an account-wide cap arms every free ref), and provider *)
(* evidence may open the provider's breaker.                               *)
Cooled(r) == {limited \cup {r}} \cup (IF r \in Free THEN {limited \cup Free} ELSE {})

Evidence(r) == {open, open \cup {ProviderOf[r]}}

(* The attempt on the stack is over and lost.  The walk goes on with the   *)
(* next candidate, or - after a forced probe or a collapse retry - ends    *)
(* with the aggregated error.  After a wait-for-reset retry the attempt    *)
(* that was rate limited is still below on the stack: it goes as well.     *)
GivesUp(w, errs) ==
    LET s == [walk[w] EXCEPT !.errs = errs] IN
    CASE s.mode = "walk" ->
           /\ walk' = [walk EXCEPT ![w] =
                         [Popped(s) EXCEPT !.pc = "next", !.todo = Tail(@)]]
           /\ slots' = slots - SlotOf(Current(w))
      [] s.mode = "retry" ->
           /\ walk' = [walk EXCEPT ![w] =
                         [Popped(Popped(s)) EXCEPT !.pc = "next", !.mode = "walk",
                                                   !.todo = Tail(@)]]
           /\ slots' = slots - SlotOf(Current(w)) - SlotOf(Last(Front(s.stack)))
      [] OTHER ->
           Returns(w, s, "error")

\* Mutant: a silent skip keeps the slot it had reserved.
OpenSkipsWithSlot(w) ==
    /\ Resumes(w, "open")
    /\ noted' = noted \cup {Current(w).ref}
    /\ walk' = [walk EXCEPT ![w].pc = "null",
                            ![w].stack = Append(Front(@), [ref |-> Current(w).ref, slot |-> FALSE])]
    /\ UNCHANGED <<limited, open, small, slots>>

\* tryStream after the API key arrived: no key, or the output does not fit.
OpenSkips(w) ==
    /\ Resumes(w, "open")
    /\ noted' = noted \cup {Current(w).ref}
    /\ slots' = slots - SlotOf(Current(w))
    /\ walk' = [walk EXCEPT ![w].pc = "null",
                            ![w].stack = Append(Front(@), [ref |-> Current(w).ref, slot |-> FALSE])]
    /\ UNCHANGED <<limited, open, small>>

\* ... the host runtime throws, or has no handler for the model.
OpenThrows(w) ==
    LET r == Current(w).ref IN
    /\ Resumes(w, "open")
    /\ IF walk[w].mode = "retry"
         THEN UNCHANGED <<limited, open>>
         ELSE /\ limited' \in Cooled(r)
              /\ open' \in IF walk[w].mode = "collapse" THEN {open} ELSE Evidence(r)
    /\ GivesUp(w, walk[w].errs \cup {"failed"})
    /\ UNCHANGED <<small, noted>>

OpenStreams(w) ==
    /\ Resumes(w, "open")
    /\ walk' = [walk EXCEPT ![w].pc = "stream"]
    /\ UNCHANGED shared

\* Mutant: a silent skip is not recorded.
ResumeNullSilently(w) ==
    /\ Resumes(w, "null")
    /\ GivesUp(w, walk[w].errs)
    /\ UNCHANGED <<limited, open, small, noted>>

(* The caller resumes after a silent skip.  Only the main loop records it, *)
(* and only if the reason is still in the shared map.                      *)
ResumeNull(w) ==
    LET r == Current(w).ref IN
    /\ Resumes(w, "null")
    /\ IF walk[w].mode = "walk"
         THEN /\ limited' \in Cooled(r)
              /\ GivesUp(w, IF r \in noted THEN walk[w].errs \cup {"failed"} ELSE walk[w].errs)
         ELSE /\ GivesUp(w, walk[w].errs)
              /\ UNCHANGED limited
    /\ UNCHANGED <<open, small, noted>>

-----------------------------------------------------------------------------
\* The stream completed with an answer: recordOk closes the breaker.
Serve(w) ==
    /\ Resumes(w, "stream")
    /\ open' = open \ {ProviderOf[Current(w).ref]}
    /\ Returns(w, walk[w], "answer")
    /\ UNCHANGED <<limited, small, noted>>

\* The user stopped the turn.
Aborted(w) ==
    /\ Resumes(w, "stream")
    /\ Returns(w, walk[w], "abort")
    /\ UNCHANGED <<limited, open, small, noted>>

(* Empty response, timeout, provider error, repetition, truncation ...     *)
(* The retry and the collapse do not report to the breaker.                *)
StreamFails(w) ==
    LET r == Current(w).ref IN
    /\ Resumes(w, "stream")
    /\ limited' \in Cooled(r)
    /\ open' \in IF walk[w].mode \in {"walk", "probe"} THEN Evidence(r) ELSE {open}
    /\ GivesUp(w, walk[w].errs \cup {"failed"})
    /\ UNCHANGED <<small, noted>>

(* A rate limit with a near reset: once per driveStream the walk waits and *)
(* retries the same model, keeping the failed attempt on the stack.        *)
WaitForReset(w) ==
    /\ Resumes(w, "stream") /\ walk[w].mode = "walk"
    /\ WaitEnabled /\ ~walk[w].waited
    /\ limited' = limited \cup {Current(w).ref}
    /\ walk' = [walk EXCEPT ![w].pc = "sleep", ![w].mode = "retry", ![w].waited = TRUE,
                            ![w].errs = @ \cup {"failed"}]
    /\ UNCHANGED <<open, small, noted, slots>>

\* The candidates behind the current one that may hold the prompt: the one
\* list that keeps their order.
Larger(w) ==
    LET todo == walk[w].todo
        kept == {i \in 2 .. Len(todo) : todo[i] \notin small}
        orders == {at \in [1 .. Cardinality(kept) -> kept] :
                     \A j, k \in DOMAIN at : j < k => at[j] < at[k]}
    IN {[k \in DOMAIN at |-> todo[at[k]]] : at \in orders}

\* What a restart leaves on the stack: an attempt without a slot has nothing
\* to give back.
Holding(stack) == IF Last(stack).slot THEN stack ELSE Front(stack)

\* Mutant: an overflow is no failure of its model.
OverflowRetryUncooled(w) ==
    LET r == Current(w).ref IN
    /\ Resumes(w, "stream") /\ walk[w].mode = "walk"
    /\ \E parsed \in OverflowTexts[w] : \E refs \in Larger(w) \ {<<>>} :
          /\ small' = IF parsed THEN small \cup {r} ELSE small
          /\ walk' = [walk EXCEPT ![w] = [Started(walk[w], walk[w].group, refs, {}) EXCEPT
                                            !.entered = {walk[w].group},
                                            !.blind = IF parsed THEN @ ELSE @ \cup {r},
                                            !.stack = Holding(@)]]
    /\ UNCHANGED <<limited, open, noted, slots>>

(* A context overflow in the main loop restarts the walk on the larger     *)
(* candidates, with a fresh set of visited groups; the overflowing attempt *)
(* keeps its slot until the nested walk returns.  What keeps its model out *)
(* of the restarted walk is the window the error names, or, when it names  *)
(* none, the cooldown alone (history: blind).                              *)
OverflowRetry(w) ==
    LET r == Current(w).ref IN
    /\ Resumes(w, "stream") /\ walk[w].mode = "walk"
    /\ limited' = limited \cup {r}
    /\ \E parsed \in OverflowTexts[w] : \E refs \in Larger(w) \ {<<>>} :
          /\ small' = IF parsed THEN small \cup {r} ELSE small
          /\ walk' = [walk EXCEPT ![w] = [Started(walk[w], walk[w].group, refs, {}) EXCEPT
                                            !.entered = {walk[w].group},
                                            !.blind = IF parsed THEN @ ELSE @ \cup {r},
                                            !.stack = Holding(@)]]
    /\ UNCHANGED <<open, noted, slots>>

\* No larger candidate, or a collapse retry: pi has to compact.
OverflowEnds(w) ==
    LET r == Current(w).ref IN
    /\ Resumes(w, "stream")
    /\ \/ /\ walk[w].mode = "walk" /\ <<>> \in Larger(w)
          /\ \E parsed \in OverflowTexts[w] : small' = IF parsed THEN small \cup {r} ELSE small
       \/ walk[w].mode = "collapse" /\ small' = small
    /\ limited' = limited \cup {r}
    /\ Returns(w, walk[w], "overflow")
    /\ UNCHANGED <<open, noted>>

\* A wait is over: the same ref is tried without asking any check again.
Wake(w, r) ==
    /\ Resumes(w, "sleep")
    /\ IF walk[w].mode = "retry" THEN r = Current(w).ref ELSE r = Head(walk[w].todo)
    /\ BeginAttempt(w, walk[w], r, walk[w].mode)
    /\ UNCHANGED <<limited, open, small>>

-----------------------------------------------------------------------------
(* The end of the loop.  Everything below happens without an await, until  *)
(* an attempt is opened or a wait begins.                                  *)
AtEnd(w) == walk[w].pc = "next" /\ walk[w].todo = <<>>

\* Mutant: the cascade does not remember where it has been.
FallbackGroupsForgetful(g, seen) ==
    {FallbackOrder[g][i] : i \in DOMAIN FallbackOrder[g] \cap {1}}

\* getFallbackGroup: the first group of the order not visited in the cascade.
FallbackGroups(g, seen) ==
    {FallbackOrder[g][i] : i \in {j \in DOMAIN FallbackOrder[g] :
        /\ FallbackOrder[g][j] \notin seen
        /\ \A k \in 1 .. j - 1 : FallbackOrder[g][k] \in seen}}

\* Router.resolve(g): the group's own candidates, or those of one of its
\* fallback groups when its best candidate is unhealthy.
Resolved(g) ==
    {h \in {g} \cup ToSet(FallbackOrder[g]) : CandidatesOf[h] # <<>>}

Cascade(w) ==
    LET seen == walk[w].visited \cup {walk[w].group} IN
    /\ AtEnd(w) /\ walk[w].errs # {}
    /\ \E g \in FallbackGroups(walk[w].group, seen) : \E h \in Resolved(g) :
          walk' = [walk EXCEPT ![w] =
                     [Started(walk[w], g, CandidatesOf[h], seen) EXCEPT
                        !.entered = @ \cup {g}, !.again = @ \/ g \in walk[w].entered]]
    /\ UNCHANGED shared

\* No group is left to fall back to.
Exhausted(w) ==
    LET g == walk[w].group IN
    /\ AtEnd(w) /\ walk[w].errs # {}
    /\ \A f \in FallbackGroups(g, walk[w].visited \cup {g}) : Resolved(f) = {}

AllBehindBreaker(w) ==
    LET refs == ToSet(walk[w].cands) IN
    refs # {} /\ \A r \in refs : BreakerOpen(r)

AllInCooldown(w) ==
    LET refs == ToSet(walk[w].cands) IN
    refs # {} /\ \A r \in refs : r \in limited

\* Every candidate was skipped for its context window: pi has to compact.
WindowsExhausted(w) ==
    /\ Exhausted(w) /\ walk[w].errs = {"window"}
    /\ Returns(w, walk[w], "overflow")
    /\ UNCHANGED <<limited, open, small, noted>>

\* The last resort m on r: at once, or after a bounded wait for its cooldown.
LastResort(w, r, m) ==
    LET s == [walk[w] EXCEPT !.todo = <<r>>, !.mode = m] IN
    \/ BeginAttempt(w, s, r, m)
    \/ /\ WaitEnabled /\ r \in limited
       /\ walk' = [walk EXCEPT ![w] = [s EXCEPT !.pc = "sleep"]]
       /\ UNCHANGED <<noted, slots>>

\* Never dead-end behind open breakers: probe the one that expires first.
ForcedProbe(w) ==
    /\ Exhausted(w) /\ walk[w].errs # {"window"}
    /\ AllBehindBreaker(w)
    /\ \E r \in ToSet(walk[w].cands) : LastResort(w, r, "probe")
    /\ UNCHANGED <<limited, open, small>>

\* Total cooldown collapse: retry the candidate with the least time left.
CollapseRetry(w) ==
    /\ Exhausted(w) /\ walk[w].errs # {"window"}
    /\ ~AllBehindBreaker(w) /\ AllInCooldown(w)
    /\ \E r \in ToSet(walk[w].cands) : LastResort(w, r, "collapse")
    /\ UNCHANGED <<limited, open, small>>

AllFailed(w) ==
    /\ Exhausted(w) /\ walk[w].errs # {"window"}
    /\ ~AllBehindBreaker(w) /\ ~AllInCooldown(w)
    /\ Returns(w, walk[w], "error")
    /\ UNCHANGED <<limited, open, small, noted>>

\* allErrors is empty: walkCandidates returns without a terminal event.
NothingToReport(w) ==
    /\ AtEnd(w) /\ walk[w].errs = {}
    /\ Returns(w, walk[w], "no")
    /\ UNCHANGED <<limited, open, small, noted>>

(* Whatever throws outside a candidate attempt is caught by driveStream,   *)
(* which terminates the proxy.                                             *)
Throws(w) ==
    /\ walk[w].pc = "next"
    /\ Returns(w, walk[w], "thrown")
    /\ UNCHANGED <<limited, open, small, noted>>

-----------------------------------------------------------------------------
Step(w) ==
    \/ Begin(w)
    \/ SkipLimited(w) \/ SkipOpenBreaker(w) \/ AskDaemon(w) \/ DaemonDown(w)
    \/ SkipSmall(w) \/ TryCandidate(w)
    \/ OpenSkips(w) \/ OpenThrows(w) \/ OpenStreams(w) \/ ResumeNull(w)
    \/ Serve(w) \/ Aborted(w) \/ StreamFails(w)
    \/ WaitForReset(w) \/ OverflowRetry(w) \/ OverflowEnds(w)
    \/ \E r \in Refs : Wake(w, r)
    \/ Cascade(w) \/ WindowsExhausted(w) \/ ForcedProbe(w) \/ CollapseRetry(w)
    \/ AllFailed(w) \/ NothingToReport(w) \/ Throws(w)

\* A cooldown runs out.
CooldownEnds(r) ==
    /\ r \in limited
    /\ limited' = limited \ {r}
    /\ UNCHANGED <<walk, open, small, noted, slots>>

\* The time of an open breaker is over.
BreakerEnds(p) ==
    /\ p \in open
    /\ open' = open \ {p}
    /\ UNCHANGED <<walk, limited, small, noted, slots>>

AllReturned ==
    /\ \A w \in Walks : walk[w].pc \in {"absent", "returned"}
    /\ UNCHANGED vars

Next ==
    \/ \E w \in Walks : Step(w)
    \/ \E r \in Refs : CooldownEnds(r)
    \/ \E p \in Providers : BreakerEnds(p)
    \/ AllReturned

Spec == Init /\ [][Next]_vars

(* The event loop runs every continuation; a stream ends by the provider,  *)
(* by the empty-response timer or by the stall timer; sleeps are timers.   *)
FairSpec == Spec /\ \A w \in Walks : WF_vars(Step(w))

-----------------------------------------------------------------------------
AttemptType == [ref : Refs, slot : BOOLEAN]

WalkType ==
    [pc : Pcs, mode : Modes, group : Groups, cands : Seq(Refs), todo : Seq(Refs),
     errs : SUBSET Causes, waited : BOOLEAN, visited : SUBSET Groups,
     entered : SUBSET Groups, again : BOOLEAN, blind : SUBSET Refs, stack : Seq(AttemptType),
     ended : {"no", "answer", "abort", "error", "overflow", "thrown"}]

\* The attempts that hold a slot: walks with positions of their stack.
Holders(stacks) ==
    UNION {{<<w, i>> : i \in Slotted(stacks[w])} : w \in Walks}

SlotCount == Cardinality(Holders([w \in Walks |-> walk[w].stack]))

(* Types, and the slot accounting: the counter of local streams is exactly *)
(* the number of attempts that still hold a slot, so no path - a throw     *)
(* while opening, a missing key, a wait, a nested walk, an abort - leaks   *)
(* a slot or gives one back twice, and the limit holds.                    *)
WalkInv ==
    /\ walk \in [Walks -> WalkType]
    /\ limited \subseteq Refs /\ small \subseteq Refs /\ noted \subseteq Refs
    /\ open \subseteq Providers
    /\ slots = SlotCount
    /\ slots <= LocalLimit
    /\ \A w \in Walks : walk[w].pc = "returned" => walk[w].stack = <<>>

\* Every walk returns, whatever the providers and the other walks do - unless a
\* model that overflows without naming its window comes out of its cooldown over
\* and over while the walk lasts: the cooldown is all that stops the recursion.
WalksReturn ==
    \A w \in Walks :
        <>[][\A r \in walk[w].blind : ~CooldownEnds(r)]_vars
            => <>(walk[w].pc \in {"absent", "returned"})

\* "Always leaves the proxy terminated": a walk that nobody else ran beside has
\* ended its stream with an answer, an abort or an error when it returns.  A
\* second walk may take the reason of a skip away (the README says how).
Alone(w) == \A v \in Walks \ {w} : walk[v].pc \in {"absent", "queued"}
ProxyTerminated ==
    \A w \in Walks : walk[w].pc = "returned" /\ Alone(w) => walk[w].ended # "no"

\* "`visited` excludes groups already tried in this cascade": neither a cascade
\* nor the one an overflow begins anew enters a group twice, also when two
\* walks change what is in cooldown or open under each other.
NoGroupTwice == \A w \in Walks : ~walk[w].again
=============================================================================
