------------------------------ MODULE Sessions ------------------------------
(***************************************************************************)
(* The turn state of the sessions that share one router process            *)
(* (src/turn-state.ts, src/subcall-scope.ts, the handlers of               *)
(* src/event-handlers.ts, Router's turn fields in src/routing.ts and the   *)
(* run memory of src/stream-orchestrator.ts).                              *)
(*                                                                         *)
(* A subagent is a session in the parent's process: it starts, streams,    *)
(* delegates and shuts down while the parent's turn is still open.  The    *)
(* router keeps one entry per session in two bounded LRU stores -- the     *)
(* extension's (turn) and the Router's (pin) -- and one "current" context. *)
(* A stream is an asynchronous process of its own: pi waits for it, also   *)
(* after an abort (no abort plumbing in driveStream, ADR-0017), but one    *)
(* whose session was killed or shut down goes on and writes into the entry *)
(* it was opened for.                                                      *)
(*                                                                         *)
(* Time is the number of turns a session has started: the router compares  *)
(* a session's time stamps only with each other and with the start of its  *)
(* turn, and a turn lasts at least a millisecond.  The category a terse    *)
(* prompt inherits is written with the run and left out.                   *)
(***************************************************************************)
EXTENDS Integers, SequencesExt

CONSTANTS Session,      \* ids of the sessions of the process
          Children,     \* those of subagents, which may end with a stream open
          Group,        \* model groups a turn can be classified into
          Simple,       \* the group a turn without a run falls back to
          Alternate,    \* the first configured group, in case Simple does not resolve
          Ref,          \* concrete models
          Driver,       \* Driver[s][g]: the model group g selects for session s
          Reader,       \* the model of the bulk reader's group
          None,         \* no group, no model, no context
          Capacities,   \* capacities of the stores (the code: 64)
          MaxTurns,     \* bound: MaxTurns[s] turns of session s
          MaxStreams    \* bound: streams in flight

ASSUME SessionsAssumption ==
  /\ Children \subseteq Session
  /\ Simple \in Group /\ Alternate \in Group /\ Driver \in [Session -> [Group -> Ref]] /\ Reader \in Ref
  /\ None \notin Group \cup Ref \cup Session
  /\ Capacities \cup {MaxStreams} \subseteq Nat \ {0} /\ MaxTurns \in [Session -> Nat]

VARIABLES
  maxSessions, \* the capacity the stores were made with
  turn,     \* the extension's store: [order, of], of[s] the TurnState of s
  pin,      \* the Router's store: [order, of], of[s] its RouterTurnState
  live,     \* LiveSessionContexts: ids, the most recently started one last
  ctx,      \* sessionCtx: the session whose context the router uses
  routerCtx,\* the copy the current Router instance holds
  phase,    \* where pi is in each session
  clock,    \* turns each session has started
  fresh,    \* the open turn answers a new prompt, not a tool result
  streams,  \* streams in flight
  first,    \* history: the first model recorded since the turn started
  since,    \* history: the first one since then and since its entry was last lost
  others,   \* history: with a model recorded, who has used the Router's store since s did
  crowded,  \* history: sessions for which these were as many as the store holds
  ran,      \* history: the group the open prompt was classified into
  disturbed \* history: sessions that lost an entry or left a stream behind

vars == <<maxSessions, turn, pin, live, ctx, routerCtx, phase, clock, fresh, streams,
          first, since, others, crowded, ran, disturbed>>
stores == <<turn, pin>>
context == <<live, ctx, routerCtx>>
pinHistory == <<first, since, others, crowded>>
history == <<pinHistory, ran, disturbed>>

EmptyTurn == [start |-> 0, last |-> None, run |-> None, driver |-> None]
EmptyPin == [cur |-> None, curAt |-> 0, driver |-> None, driverAt |-> 0, boundary |-> 0]

Phases == {"gone", "idle", "started", "streaming", "acting", "delegating", "switching",
           "more"}
\* group: where a tool follow-up continues.  A classified stream may be served by
\* models of any group (Selected), so its own is left out.
Streams == [session : Session, sub : BOOLEAN, at : Nat,
            step : {"classify", "walk"}, group : Group \cup {None}]

----------------------------------------------------------------------------
(* SessionStore: a bounded map, least recently used entry first. *)

\* The order is that of a Map's keys, which hold a session at most once.
Without(order, s) ==
  IF s \in ToSet(order) THEN RemoveAt(order, CHOOSE i \in DOMAIN order : order[i] = s) ELSE order
Held(store) == ToSet(store.order)

\* Mutant of Lookup: the store makes room one entry too early.
LookupEvictsEarly(store, s, empty) ==
  LET order == Append(Without(store.order, s), s)
  IN  IF Len(order) < maxSessions
      THEN [store EXCEPT !.order = order]
      ELSE [order |-> Tail(order), of |-> [store.of EXCEPT ![Head(order)] = empty]]

\* forSession: a hit becomes the most recent entry; a miss creates one and may
\* push out the oldest.
Lookup(store, s, empty) ==
  LET order == Append(Without(store.order, s), s)
  IN  IF Len(order) <= maxSessions
      THEN [store EXCEPT !.order = order]
      ELSE [order |-> Tail(order), of |-> [store.of EXCEPT ![Head(order)] = empty]]

Write(store, s, empty, value) == [Lookup(store, s, empty) EXCEPT !.of[s] = value]
Forget(store, s, empty) ==
  [order |-> Without(store.order, s), of |-> [store.of EXCEPT ![s] = empty]]

\* For the history: the entries a new store no longer holds, and a session that
\* leaves its stream behind.
Lost(old, new) == Held(old) \ Held(new)
Forgotten(f, gone) == [s \in Session |-> IF s \in gone THEN None ELSE f[s]]
Crowded(now) == {s \in Session : Cardinality(now[s]) >= maxSessions}

OthersAfter(s) ==
  [x \in Session |-> IF x = s \/ first'[x] = None THEN {} ELSE others[x] \cup {s}]

\* s has used the Router's store, and recorded ref unless that is None.
PinUsed(s, ref) ==
  /\ first' = [first EXCEPT ![s] = IF @ = None THEN ref ELSE @]
  /\ since' = [Forgotten(since, Lost(pin, pin')) EXCEPT ![s] = IF @ = None THEN ref ELSE @]
  /\ others' = OthersAfter(s)
  /\ crowded' = crowded \cup Crowded(others')

LeavesStream(s) ==
  disturbed' = IF \E st \in streams : st.session = s /\ ~st.sub
               THEN disturbed \cup {s} ELSE disturbed

----------------------------------------------------------------------------
(* Router: driving model and factual model of the session's turn. *)

\* Mutant of Recorded: every recorded model becomes the driver.
RecordedRepins(p, ref, now) ==
  [p EXCEPT !.cur = ref, !.curAt = now, !.driver = ref, !.driverAt = now]

\* setCurModel: the first model of a turn becomes its driver.
Recorded(p, ref, now) ==
  LET repin == p.driverAt = 0 \/ p.driverAt < p.boundary
  IN  [p EXCEPT !.cur = ref, !.curAt = now,
                !.driver = IF repin THEN ref ELSE @, !.driverAt = IF repin THEN now ELSE @]

\* getTurnDriverRef: a pin older than the turn does not count.
TurnDriverRef(s) ==
  IF turn.of[s].start > 0 /\ pin.of[s].driverAt < turn.of[s].start THEN None ELSE pin.of[s].driver

CurModel(s) ==
  IF turn.of[s].start > 0 /\ pin.of[s].curAt < turn.of[s].start THEN None ELSE pin.of[s].cur

\* resolveReadBlockStreamRef, without its last resort (the model pi shows).
ReadBlockRef(s) == IF TurnDriverRef(s) # None THEN TurnDriverRef(s) ELSE CurModel(s)

Noted(s, ref) ==
  /\ pin' = Write(pin, s, EmptyPin, Recorded(pin.of[s], ref, clock[s]))
  /\ PinUsed(s, ref)

----------------------------------------------------------------------------
Init ==
  /\ maxSessions \in Capacities
  /\ turn = [order |-> <<>>, of |-> [s \in Session |-> EmptyTurn]]
  /\ pin = [order |-> <<>>, of |-> [s \in Session |-> EmptyPin]]
  /\ live = <<>> /\ ctx = None /\ routerCtx = None
  /\ phase = [s \in Session |-> "gone"]
  /\ clock = [s \in Session |-> 0]
  /\ fresh = [s \in Session |-> TRUE]
  /\ streams = {}
  /\ first = [s \in Session |-> None] /\ since = first
  /\ others = [s \in Session |-> {}] /\ crowded = {}
  /\ ran = [s \in Session |-> None]
  /\ disturbed = {}

Opened(st) ==
  /\ Cardinality(streams) < MaxStreams
  /\ streams' = streams \cup {st}

Go(s, to) == phase' = [phase EXCEPT ![s] = to]

\* LiveSessionContexts.start: the session becomes the most recent one; the
\* oldest goes when there are too many.
StartedLast(s) ==
  LET order == Append(Without(live, s), s)
  IN  IF Len(order) > maxSessions THEN Tail(order) ELSE order

\* LiveSessionContexts.end: the context to use now.
LatestOf(order) == IF order = <<>> THEN None ELSE order[Len(order)]

\* session_start: the context is published, load() rebuilds the Router and
\* hands it the same stores and the context.
SessionStart(s) ==
  /\ phase[s] = "gone"
  /\ live' = StartedLast(s)
  /\ ctx' = s
  /\ routerCtx' = ctx'
  /\ Go(s, "idle")
  /\ UNCHANGED <<stores, clock, fresh, streams, history>>

\* turn_start, for a new prompt or for the tool results of the last turn.
TurnStart(s) ==
  /\ phase[s] \in {"idle", "more"} /\ clock[s] < MaxTurns[s]
  /\ clock' = [clock EXCEPT ![s] = @ + 1]
  /\ turn' = Write(turn, s, EmptyTurn, [turn.of[s] EXCEPT !.start = clock'[s]])
  /\ pin' = Write(pin, s, EmptyPin, [pin.of[s] EXCEPT !.boundary = clock'[s]])
  /\ fresh' = [fresh EXCEPT ![s] = phase[s] = "idle"]
  /\ Go(s, "started")
  /\ first' = [first EXCEPT ![s] = None]
  /\ since' = Forgotten(since, Lost(pin, pin') \cup {s})
  /\ others' = OthersAfter(s)
  /\ crowded' = (crowded \ {s}) \cup Crowded(others')
  /\ disturbed' = disturbed \cup Lost(turn, turn')
  /\ UNCHANGED <<context, streams, ran>>

\* A tool follow-up continues with the model that served last; without one,
\* or when the last prompt carries a hint, the turn is classified again.
IsFollowUp(s, hinted) == ~fresh[s] /\ turn.of[s].last # None /\ ~hinted

\* resolveBaseGroup, with the groups that resolve now; None when none does.
BaseGroup(up) ==
  IF Simple \in up THEN Simple ELSE IF Alternate \in up THEN Alternate ELSE None

\* planToolFollowUp: the group of the run, unless that is the base group's or
\* no longer resolves.
FollowUpGroup(run, up) == IF run \in up \ {Simple} THEN run ELSE BaseGroup(up)

\* Without any group the stream fails at once.
FollowUp(s, up) ==
  LET group == FollowUpGroup(turn.of[s].run, up) IN
  /\ phase[s] = "started" /\ IsFollowUp(s, FALSE)
  /\ IF group # None
       THEN /\ Opened([session |-> s, sub |-> FALSE, at |-> clock[s], step |-> "walk",
                        group |-> group])
            /\ Go(s, "streaming")
       ELSE Go(s, "acting") /\ UNCHANGED streams
  /\ turn' = Lookup(turn, s, EmptyTurn)
  /\ disturbed' = disturbed \cup Lost(turn, turn')
  /\ UNCHANGED <<pin, context, clock, fresh, pinHistory, ran>>

\* A new turn forgets the previous run and awaits its classification.
NewTurn(s, hinted) ==
  /\ phase[s] = "started" /\ ~IsFollowUp(s, hinted)
  /\ Opened([session |-> s, sub |-> FALSE, at |-> clock[s], step |-> "classify",
             group |-> None])
  /\ Go(s, "streaming")
  /\ turn' = Write(turn, s, EmptyTurn, [turn.of[s] EXCEPT !.run = None, !.driver = None])
  /\ ran' = [ran EXCEPT ![s] = None]
  /\ disturbed' = disturbed \cup Lost(turn, turn')
  /\ UNCHANGED <<pin, context, clock, fresh, pinHistory>>

\* The stream is the one its session's open turn waits for.
Awaited(st) == ~st.sub /\ st.at = clock[st.session] /\ phase[st.session] = "streaming"

\* The model a stream's group selects, and the models it may be served by.
Selected(st, g) == IF st.sub THEN Reader ELSE Driver[st.session][g]
Models(s) == {Driver[s][g] : g \in Group}

\* Mutant of Classified: a sub-call's classification is remembered too.
ClassifiedAnywhere(st, g) ==
  LET s == st.session IN
  /\ st.step = "classify"
  /\ streams' = (streams \ {st}) \cup {[st EXCEPT !.step = "walk"]}
  /\ turn' = Write(turn, s, EmptyTurn, [turn.of[s] EXCEPT !.last = Selected(st, g),
                                           !.run = g, !.driver = Selected(st, g)])
  /\ ran' = IF Awaited(st) THEN [ran EXCEPT ![s] = g] ELSE ran
  /\ disturbed' = disturbed \cup Lost(turn, turn')
  /\ UNCHANGED <<pin, context, phase, clock, fresh, pinHistory>>

\* The classification answers with a group: it, its model and the run are
\* remembered, unless this stream is a sub-call.
Classified(st, g) ==
  LET s == st.session
      named == [turn.of[s] EXCEPT !.last = Selected(st, g), !.run = g, !.driver = Selected(st, g)]
  IN
  /\ st.step = "classify"
  /\ streams' = (streams \ {st}) \cup {[st EXCEPT !.step = "walk"]}
  /\ turn' = Write(turn, s, EmptyTurn, IF st.sub THEN turn.of[s] ELSE named)
  /\ ran' = IF Awaited(st) THEN [ran EXCEPT ![s] = g] ELSE ran
  /\ disturbed' = disturbed \cup Lost(turn, turn')
  /\ UNCHANGED <<pin, context, phase, clock, fresh, pinHistory>>

\* A stream is over.  The turn's own one hands over to the tools, a sub-call
\* back to the tool it worked for, any other is a leftover nobody awaits.
HandsOver(st) ==
  LET s == st.session
      awaited == \/ Awaited(st)
                 \/ st.sub /\ st.at = clock[s] /\ phase[s] = "delegating"
  IN
  /\ streams' = streams \ {st}
  /\ phase' = IF awaited THEN [phase EXCEPT ![s] = "acting"] ELSE phase

\* The classification fails: the base group is walked and nothing remembered;
\* without one the stream fails.
ClassificationFails(st, up) ==
  /\ st.step = "classify"
  /\ IF BaseGroup(up) # None
       THEN streams' = (streams \ {st}) \cup {[st EXCEPT !.step = "walk"]} /\ UNCHANGED phase
       ELSE HandsOver(st)
  /\ UNCHANGED <<stores, context, clock, fresh, history>>

\* Mutant of Serve: a sub-call's model is recorded as the turn's.
ServeAnywhere(st, ref) ==
  LET s == st.session IN
  /\ st.step = "walk"
  /\ turn' = Write(turn, s, EmptyTurn, [turn.of[s] EXCEPT !.last = ref])
  /\ Noted(s, ref)
  /\ disturbed' = disturbed \cup Lost(turn, turn')
  /\ UNCHANGED <<context, phase, clock, fresh, streams, ran>>

\* recordServedRef: a candidate's stream is open.  A sub-call records nothing.
Serve(st, ref) ==
  LET s == st.session IN
  /\ st.step = "walk" /\ ~st.sub
  /\ turn' = Write(turn, s, EmptyTurn, [turn.of[s] EXCEPT !.last = ref])
  /\ Noted(s, ref)
  /\ disturbed' = disturbed \cup Lost(turn, turn')
  /\ UNCHANGED <<context, phase, clock, fresh, streams, ran>>

StreamEnds(st) ==
  /\ st.step = "walk"
  /\ HandsOver(st)
  /\ UNCHANGED <<stores, context, clock, fresh, history>>

\* tool_call: the read block looks up the session's driver.
ToolCall(s) ==
  /\ phase[s] = "acting"
  /\ turn' = Lookup(turn, s, EmptyTurn)
  /\ pin' = Lookup(pin, s, EmptyPin)
  /\ PinUsed(s, None)
  /\ disturbed' = disturbed \cup Lost(turn, turn')
  /\ UNCHANGED <<context, phase, clock, fresh, streams, ran>>

\* The bulk reader: a tool opens a stream of its own in the session's scope.
SubCall(s) ==
  /\ phase[s] = "acting"
  /\ \E step \in {"classify", "walk"} :
       Opened([session |-> s, sub |-> TRUE, at |-> clock[s], step |-> step, group |-> None])
  /\ Go(s, "delegating")
  /\ UNCHANGED <<stores, context, clock, fresh, history>>

\* Tools that call load(): a new Router on the same stores, given the context.
\* set_model_from_group goes on to ask pi for the model and waits.
Load(s) ==
  /\ phase[s] = "acting"
  /\ routerCtx' = ctx
  /\ \E to \in {"acting", "switching"} : Go(s, to)
  /\ UNCHANGED <<stores, live, ctx, clock, fresh, streams, history>>

\* pi has set the model: it is recorded like a served one.
SetModel(s, ref) ==
  /\ phase[s] = "switching"
  /\ Go(s, "acting")
  /\ turn' = Lookup(turn, s, EmptyTurn)
  /\ Noted(s, ref)
  /\ disturbed' = disturbed \cup Lost(turn, turn')
  /\ UNCHANGED <<context, clock, fresh, streams, ran>>

\* pi takes none of the group's models: the tool fails.
SetModelFails(s) ==
  /\ phase[s] = "switching"
  /\ Go(s, "acting")
  /\ UNCHANGED <<stores, context, clock, fresh, streams, history>>

\* turn_end, after the tools: the agent is done or goes on with their results.
\* Without a turn start the handler returns before it asks the Router.
TurnEnd(s) ==
  /\ phase[s] = "acting"
  /\ turn' = Lookup(turn, s, EmptyTurn)
  /\ pin' = IF turn.of[s].start = 0 THEN pin ELSE Lookup(pin, s, EmptyPin)
  /\ \E to \in {"idle", "more"} : Go(s, to)
  /\ IF turn.of[s].start = 0 THEN UNCHANGED pinHistory ELSE PinUsed(s, None)
  /\ disturbed' = disturbed \cup Lost(turn, turn')
  /\ UNCHANGED <<context, clock, fresh, streams, ran>>

\* A user's session ends when pi is idle, a child with its parent's tool call.
MayEnd(s) == phase[s] = "idle" \/ (s \in Children /\ phase[s] # "gone")

\* Mutant of SessionShutdown: every shutdown clears the context.
ShutdownClearsContext(s) ==
  /\ MayEnd(s)
  /\ live' = Without(live, s)
  /\ ctx' = None
  /\ routerCtx' = ctx'
  /\ turn' = Forget(turn, s, EmptyTurn)
  /\ pin' = Forget(pin, s, EmptyPin)
  /\ Go(s, "gone")
  /\ first' = [first EXCEPT ![s] = None] /\ since' = [since EXCEPT ![s] = None]
  /\ others' = [others EXCEPT ![s] = {}] /\ crowded' = crowded \ {s}
  /\ LeavesStream(s)
  /\ UNCHANGED <<clock, fresh, streams, ran>>

\* session_shutdown: only this session's state goes, and the context falls back
\* to the latest session that is left.
SessionShutdown(s) ==
  /\ MayEnd(s)
  /\ live' = Without(live, s)
  /\ ctx' = LatestOf(live')
  /\ routerCtx' = ctx'
  /\ turn' = Forget(turn, s, EmptyTurn)
  /\ pin' = Forget(pin, s, EmptyPin)
  /\ Go(s, "gone")
  /\ first' = [first EXCEPT ![s] = None] /\ since' = [since EXCEPT ![s] = None]
  /\ others' = [others EXCEPT ![s] = {}] /\ crowded' = crowded \ {s}
  /\ LeavesStream(s)
  /\ UNCHANGED <<clock, fresh, streams, ran>>

\* A child is killed and never fires its shutdown.
Killed(s) ==
  /\ s \in Children /\ phase[s] # "gone"
  /\ Go(s, "gone")
  /\ LeavesStream(s)
  /\ UNCHANGED <<stores, context, clock, fresh, streams, pinHistory, ran>>

Step ==
  \/ \E s \in Session :
       \/ SessionStart(s) \/ TurnStart(s)
       \/ \E up \in SUBSET Group : FollowUp(s, up)
       \/ \E hinted \in BOOLEAN : NewTurn(s, hinted)
       \/ ToolCall(s) \/ SubCall(s) \/ Load(s) \/ SetModelFails(s) \/ TurnEnd(s)
       \/ SessionShutdown(s) \/ Killed(s)
       \/ \E ref \in Models(s) : SetModel(s, ref)
  \/ \E st \in streams :
       \/ \E g \in Group : Classified(st, g) \/ Serve(st, Selected(st, g))
       \/ \E up \in SUBSET Group : ClassificationFails(st, up)
       \/ StreamEnds(st)

Next == Step /\ UNCHANGED maxSessions

Spec == Init /\ [][Next]_vars

----------------------------------------------------------------------------
(* The state is well formed; the stores are bounded, hold every session at  *)
(* most once and keep nothing for a session they do not hold; the same for  *)
(* the list of contexts (turn-state.ts).                                    *)
Bounded(order) ==
  /\ Len(order) <= maxSessions
  /\ \A i, j \in 1..Len(order) : i # j => order[i] # order[j]

WellFormed ==
  /\ turn.order \in Seq(Session) /\ pin.order \in Seq(Session) /\ live \in Seq(Session)
  /\ turn.of \in [Session -> [start : Nat, last : Ref \cup {None},
                              run : Group \cup {None}, driver : Ref \cup {None}]]
  /\ pin.of \in [Session -> [cur : Ref \cup {None}, curAt : Nat, driver : Ref \cup {None},
                             driverAt : Nat, boundary : Nat]]
  /\ phase \in [Session -> Phases] /\ streams \subseteq Streams
  /\ Bounded(turn.order) /\ Bounded(pin.order) /\ Bounded(live)
  /\ \A s \in Session \ Held(turn) : turn.of[s] = EmptyTurn
  /\ \A s \in Session \ Held(pin) : pin.of[s] = EmptyPin

\* The read block of expensive models judges the FIRST model the open turn has
\* recorded, whatever sub-calls, other sessions and Router replacements came in
\* between, as long as fewer other sessions than the store holds have used it
\* since this one did (SessionStore, routing.ts noteTurnStart ..
\* getTurnDriverRef).  A session that may have been crowded out is judged by
\* the first model recorded since its entry was last lost; and a pin of an
\* earlier turn never counts.
DriverPinned ==
  \A s \in Session :
    /\ first[s] # None /\ s \notin crowded => ReadBlockRef(s) = first[s]
    /\ since[s] # None => ReadBlockRef(s) = since[s]
    /\ since[s] = None /\ turn.of[s].start = clock[s] => ReadBlockRef(s) = None

\* Whatever a session's entries name -- last model, run driver, factual model,
\* turn driver -- is a model of that very session: never a subagent's, never
\* the bulk reader's (turn-state.ts, subcall-scope.ts).  The instances give
\* every session models of its own.  The stores stay bounded and well formed.
OwnState ==
  /\ WellFormed
  /\ \A s \in Session :
    {turn.of[s].last, turn.of[s].driver, pin.of[s].cur, pin.of[s].driver}
      \subseteq Models(s) \cup {None}

\* The Router uses the context of a session that started and has not shut down,
\* as long as one is known: a child's start, reload or shutdown never takes the
\* parent's model registry with it (LiveSessionContexts, load(),
\* session_shutdown in index.ts).
ContextAlive ==
  /\ routerCtx = ctx
  /\ live # <<>> => ctx \in ToSet(live)

\* A tool follow-up continues in the group its own prompt was classified into
\* while that resolves, else in the base group (planToolFollowUp) -- in a
\* session that lost no entry and left no stream behind.
StaysInRun(s, up) ==
  FollowUp(s, up) =>
    \A st \in streams' \ streams :
      st.group = IF ran[s] \in up THEN ran[s] ELSE BaseGroup(up)

FollowUpContinues == [][\A s \in Session \ disturbed : \A up \in SUBSET Group : StaysInRun(s, up)]_vars
=============================================================================
