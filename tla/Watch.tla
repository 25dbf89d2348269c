------------------------------- MODULE Watch -------------------------------
(***************************************************************************)
(* The task state/watch-subscription: the transition function of src/      *)
(* watch.py as the reference solutions of its three steps give it, and the *)
(* outer runtime that a transition returns its effects to.  The runtime is *)
(* not in the repository; it does what the effects say, in their order,    *)
(* and reports what happens to connections and timers by events that may   *)
(* be late, repeated and out of order.                                     *)
(***************************************************************************)
EXTENDS Integers, Sequences, FiniteSets

CONSTANTS
    Topics,             \* non-empty strings
    MaxRetries,         \* MAX_RETRIES
    ErrorKinds,         \* ERROR_KINDS
    MaxGeneration       \* bound: connections of one history

NoTopic == "none"
NoError == "none"
Retryable == {"rate_limit", "transient"}

Steps == <<"implement", "review", "harden">>

ASSUME WatchAssumption ==
    /\ NoTopic \notin Topics
    /\ MaxRetries \in Nat \ {0} /\ MaxGeneration \in Nat
    /\ Retryable \subseteq ErrorKinds /\ NoError \notin ErrorKinds

WatchState(status, topic, generation, retries, error) ==
    [status |-> status, topic |-> topic, generation |-> generation, retries |-> retries,
     error |-> error]

Stopped(generation) == WatchState("stopped", NoTopic, generation, 0, NoError)

\* delay and error are those of schedule_retry and of emit_event.
Effect(kind, generation, topic) ==
    [kind |-> kind, generation |-> generation, topic |-> topic, delay |-> 0, error |-> NoError]

Go(state, effects) == [state |-> state, effects |-> effects]
Stay(state) == Go(state, <<>>)

\* min(2 ** (retry_count - 1), 8).
Delay(retries) == IF retries > 3 THEN 8 ELSE 2 ^ (retries - 1)

ScheduleRetry(s) ==
    <<[Effect("schedule_retry", s.generation, s.topic) EXCEPT !.delay = Delay(s.retries)]>>

EmitFailure(s) == <<[Effect("emit_event", s.generation, s.topic) EXCEPT !.error = s.error]>>

UserEvents == {[kind |-> "subscribe", topic |-> t] : t \in Topics} \union {[kind |-> "unsubscribe"]}

Reports(step, generations) ==
    [kind: {"connected"}, generation: generations]
      \union (IF step = "implement" THEN {}
              ELSE [kind: {"connection_lost", "retry_due"}, generation: generations])
      \union (IF step # "harden" THEN {}
              ELSE [kind: {"connection_failed"}, generation: generations, error: ErrorKinds])

Events(step, generations) == UserEvents \union Reports(step, generations)

-----------------------------------------------------------------------------
(* What the solutions refuse with ValueError. *)

ImplementValid(s) ==
    /\ s.status \in {"stopped", "connecting", "active"}
    /\ s.retries = 0 /\ s.error = NoError
    /\ s.status = "stopped" <=> s.topic = NoTopic

ReviewValid(s) ==
    /\ s.status \in {"stopped", "connecting", "active", "waiting"}
    /\ s.error = NoError
    /\ s.status = "stopped" => s.topic = NoTopic /\ s.retries = 0
    /\ s.status # "stopped" => s.topic \in Topics
    /\ s.status = "waiting" => s.retries > 0

HardenValid(s) ==
    /\ s.status \in {"stopped", "connecting", "active", "waiting", "failed"}
    /\ s.retries \in 0..MaxRetries
    /\ s.status = "stopped" => s.topic = NoTopic /\ s.retries = 0
    /\ s.status # "stopped" => s.topic \in Topics
    /\ s.status = "waiting" => s.retries > 0
    /\ s.status = "failed" <=> s.error \in ErrorKinds
    /\ s.status # "failed" => s.error = NoError

Valid(step, s) ==
    CASE step = "implement" -> ImplementValid(s)
      [] step = "review" -> ReviewValid(s)
      [] step = "harden" -> HardenValid(s)

-----------------------------------------------------------------------------
(* The oracles. *)

Matches(s, e, statuses) == s.status \in statuses /\ e.generation = s.generation

\* Mutant: there is always a connection to stop.
StopEffectDisconnect(s) == <<Effect("disconnect", s.generation, s.topic)>>

\* _disconnect_effect.
StopEffect(s) ==
    <<Effect(IF s.status = "waiting" THEN "cancel_retry" ELSE "disconnect",
             s.generation, s.topic)>>

Connect(topic, generation, retries, before) ==
    Go(WatchState("connecting", topic, generation, retries, NoError),
       before \o <<Effect("connect", generation, topic)>>)

Activate(s, e) ==
    IF Matches(s, e, {"connecting"})
    THEN Go(WatchState("active", s.topic, e.generation, 0, NoError), <<>>)
    ELSE Stay(s)

Reconnect(s, e) ==
    IF Matches(s, e, {"waiting"})
    THEN Connect(s.topic, e.generation + 1, s.retries, <<>>)
    ELSE Stay(s)

ImplementOracle(s, e) ==
    CASE e.kind = "subscribe" ->
           IF s.topic = e.topic THEN Stay(s)
           ELSE Connect(e.topic, s.generation + 1, 0,
                        IF s.status = "stopped" THEN <<>>
                        ELSE <<Effect("disconnect", s.generation, s.topic)>>)
      [] e.kind = "connected" -> Activate(s, e)
      [] e.kind = "unsubscribe" ->
           IF s.status = "stopped" THEN Stay(s)
           ELSE Go(Stopped(s.generation), <<Effect("disconnect", s.generation, s.topic)>>)

ReviewOracle(s, e) ==
    CASE e.kind = "subscribe" ->
           IF s.topic = e.topic THEN Stay(s)
           ELSE Connect(e.topic, s.generation + 1, 0,
                        IF s.status = "stopped" THEN <<>> ELSE StopEffect(s))
      [] e.kind = "connected" -> Activate(s, e)
      [] e.kind = "connection_lost" ->
           LET waiting == WatchState("waiting", s.topic, e.generation, s.retries + 1, NoError)
           IN  IF Matches(s, e, {"connecting", "active"})
               THEN Go(waiting, ScheduleRetry(waiting))
               ELSE Stay(s)
      [] e.kind = "retry_due" -> Reconnect(s, e)
      [] e.kind = "unsubscribe" ->
           IF s.status = "stopped" THEN Stay(s) ELSE Go(Stopped(s.generation), StopEffect(s))

\* Mutant: one retry too many.
RetryOrFailLate(s, generation, error) ==
    LET failed == WatchState("failed", s.topic, generation, s.retries, error)
        waiting == WatchState("waiting", s.topic, generation, s.retries + 1, NoError)
    IN  IF error \notin Retryable \/ s.retries > MaxRetries
        THEN Go(failed, EmitFailure(failed))
        ELSE Go(waiting, ScheduleRetry(waiting))

\* _retry_or_fail and _terminal_failure.
RetryOrFail(s, generation, error) ==
    LET failed == WatchState("failed", s.topic, generation, s.retries, error)
        waiting == WatchState("waiting", s.topic, generation, s.retries + 1, NoError)
    IN  IF error \notin Retryable \/ s.retries >= MaxRetries
        THEN Go(failed, EmitFailure(failed))
        ELSE Go(waiting, ScheduleRetry(waiting))

HardenOracle(s, e) ==
    CASE e.kind = "subscribe" ->
           IF s.topic = e.topic /\ s.status # "failed" THEN Stay(s)
           ELSE Connect(e.topic, s.generation + 1, 0,
                        IF s.status \in {"stopped", "failed"} THEN <<>> ELSE StopEffect(s))
      [] e.kind = "connected" -> Activate(s, e)
      [] e.kind = "connection_lost" ->
           IF Matches(s, e, {"connecting", "active"})
           THEN RetryOrFail(s, e.generation, "transient")
           ELSE Stay(s)
      [] e.kind = "connection_failed" ->
           IF Matches(s, e, {"connecting"}) THEN RetryOrFail(s, e.generation, e.error) ELSE Stay(s)
      [] e.kind = "retry_due" -> Reconnect(s, e)
      [] e.kind = "unsubscribe" ->
           IF s.status = "stopped" THEN Stay(s)
           ELSE Go(Stopped(s.generation), IF s.status = "failed" THEN <<>> ELSE StopEffect(s))

Oracle(step, s, e) ==
    CASE step = "implement" -> ImplementOracle(s, e)
      [] step = "review" -> ReviewOracle(s, e)
      [] step = "harden" -> HardenOracle(s, e)

-----------------------------------------------------------------------------
(* The alternates. *)

StopAlternate(s) ==
    <<Effect(IF s.status = "waiting" THEN "cancel_retry" ELSE "disconnect",
             s.generation, s.topic)>>

ImplementAlternate(s, e) ==
    LET generation == s.generation + 1
        stopped == Effect("disconnect", s.generation, s.topic)
    IN  CASE e.kind = "subscribe" /\ e.topic # s.topic ->
               Go([Stopped(generation) EXCEPT !.status = "connecting", !.topic = e.topic],
                  Append(IF s.status # "stopped" THEN <<stopped>> ELSE <<>>,
                         Effect("connect", generation, e.topic)))
          [] e.kind = "connected" /\ Matches(s, e, {"connecting"}) ->
               Go([s EXCEPT !.status = "active", !.retries = 0], <<>>)
          [] e.kind = "unsubscribe" /\ s.status # "stopped" -> Go(Stopped(s.generation), <<stopped>>)
          [] OTHER -> Stay(s)

ReviewAlternate(s, e) ==
    LET generation == s.generation + 1
        waiting == [s EXCEPT !.status = "waiting", !.retries = @ + 1]
    IN  CASE e.kind = "subscribe" /\ e.topic # s.topic ->
               Go([Stopped(generation) EXCEPT !.status = "connecting", !.topic = e.topic],
                  Append(IF s.status = "stopped" THEN <<>> ELSE StopAlternate(s),
                         Effect("connect", generation, e.topic)))
          [] e.kind = "connected" /\ Matches(s, e, {"connecting"}) ->
               Go([s EXCEPT !.status = "active", !.retries = 0], <<>>)
          [] e.kind = "connection_lost" /\ Matches(s, e, {"connecting", "active"}) ->
               Go(waiting, ScheduleRetry(waiting))
          [] e.kind = "retry_due" /\ Matches(s, e, {"waiting"}) ->
               Go([s EXCEPT !.status = "connecting", !.generation = generation],
                  <<Effect("connect", generation, s.topic)>>)
          [] e.kind = "unsubscribe" /\ s.status # "stopped" ->
               Go(Stopped(s.generation), StopAlternate(s))
          [] OTHER -> Stay(s)

\* retry and failed, which keep what they do not replace.
RetryAlternate(s, error) ==
    LET waiting == [s EXCEPT !.status = "waiting", !.retries = @ + 1]
        failed == [s EXCEPT !.status = "failed", !.error = error]
    IN  IF error \in Retryable /\ s.retries # MaxRetries
        THEN Go(waiting, ScheduleRetry(waiting))
        ELSE Go(failed, EmitFailure(failed))

HardenAlternate(s, e) ==
    LET generation == s.generation + 1
    IN  CASE e.kind = "subscribe" /\ (e.topic # s.topic \/ s.status = "failed") ->
               Go([Stopped(generation) EXCEPT !.status = "connecting", !.topic = e.topic],
                  Append(IF s.status \in {"stopped", "failed"} THEN <<>> ELSE StopAlternate(s),
                         Effect("connect", generation, e.topic)))
          [] e.kind = "connected" /\ Matches(s, e, {"connecting"}) ->
               Go([s EXCEPT !.status = "active", !.retries = 0], <<>>)
          [] e.kind = "connection_lost" /\ Matches(s, e, {"connecting", "active"}) ->
               RetryAlternate(s, "transient")
          [] e.kind = "connection_failed" /\ Matches(s, e, {"connecting"}) ->
               RetryAlternate(s, e.error)
          [] e.kind = "retry_due" /\ Matches(s, e, {"waiting"}) ->
               Go([s EXCEPT !.status = "connecting", !.generation = generation],
                  <<Effect("connect", generation, s.topic)>>)
          [] e.kind = "unsubscribe" /\ s.status # "stopped" ->
               Go(Stopped(s.generation), IF s.status = "failed" THEN <<>> ELSE StopAlternate(s))
          [] OTHER -> Stay(s)

Alternate(step, s, e) ==
    CASE step = "implement" -> ImplementAlternate(s, e)
      [] step = "review" -> ReviewAlternate(s, e)
      [] step = "harden" -> HardenAlternate(s, e)

-----------------------------------------------------------------------------
(* The runtime. *)

VARIABLES
    step,           \* the step whose solution runs
    watch,          \* the WatchState it holds
    open,           \* generations of the connections being opened or open
    up,             \* those of them that are open
    timers,         \* generations of the retries scheduled
    mail,           \* events not handed over yet
    scheduled,      \* history: retries in a row, since a subscription or a connection that came up
    reported        \* history: generations of the failures emitted

watchVars == <<step, watch, open, up, timers, mail, scheduled, reported>>

WatchInit ==
    /\ step \in {Steps[n] : n \in DOMAIN Steps}
    /\ watch = Stopped(0)
    /\ open = {} /\ up = {} /\ timers = {} /\ mail = {}
    /\ scheduled = 0
    /\ reported = <<>>

Of(effects, kind) == {effects[n].generation : n \in {m \in DOMAIN effects : effects[m].kind = kind}}

Failures(effects) == {n \in DOMAIN effects : effects[n].kind = "emit_event"}

\* The effects of one transition are on different generations, or one only.
Perform(effects) ==
    /\ open' = (open \ Of(effects, "disconnect")) \union Of(effects, "connect")
    /\ up' = up \ Of(effects, "disconnect")
    /\ timers' = (timers \ Of(effects, "cancel_retry")) \union Of(effects, "schedule_retry")
    /\ reported' = reported \o [n \in 1..Cardinality(Failures(effects)) |-> watch.generation]

Handle(e) ==
    LET next == Oracle(step, watch, e)
        fresh == next.state # watch /\ e.kind \in {"subscribe", "connected"}
    IN  /\ watch' = next.state
        /\ Perform(next.effects)
        /\ scheduled' = IF fresh THEN 0
                        ELSE scheduled + Cardinality(Of(next.effects, "schedule_retry"))
        /\ UNCHANGED step

UserActs(e) ==
    /\ watch.generation < MaxGeneration
    /\ Handle(e)
    /\ UNCHANGED mail

\* A report is handed over, now or now and once more later.
Deliver(e, again) ==
    /\ e.kind = "retry_due" => watch.generation < MaxGeneration
    /\ Handle(e)
    /\ mail' = IF again THEN mail ELSE mail \ {e}

Post(e) ==
    /\ mail' = mail \union {e}
    /\ UNCHANGED <<step, watch, scheduled, reported>>

ComesUp(g) ==
    /\ up' = up \union {g}
    /\ Post([kind |-> "connected", generation |-> g])
    /\ UNCHANGED <<open, timers>>

\* Nothing was told about lost connections in the first step.
Breaks(g, e) ==
    /\ open' = open \ {g} /\ up' = up \ {g}
    /\ Post(e)
    /\ UNCHANGED timers

Fires(g) ==
    /\ timers' = timers \ {g}
    /\ Post([kind |-> "retry_due", generation |-> g])
    /\ UNCHANGED <<open, up>>

LossOf(g) == {e \in Reports(step, {g}) : e.kind \in {"connection_lost", "connection_failed"}}

\* An open connection is lost; one that is being opened is lost or fails.
Losses(g) == {e \in LossOf(g) : e.kind = "connection_failed" => g \notin up}

WatchNext ==
    \/ \E e \in UserEvents : UserActs(e)
    \/ \E e \in mail, again \in BOOLEAN : Deliver(e, again)
    \/ \E g \in open \ up : ComesUp(g)
    \/ \E g \in open : \E e \in Losses(g) : Breaks(g, e)
    \/ \E g \in timers : Fires(g)

WatchSpec == WatchInit /\ [][WatchNext]_watchVars

-----------------------------------------------------------------------------
(* Properties. *)

\* However reports are delayed, repeated or reordered, the runtime holds what the state
\* says: the connection of its generation, or news of the loss on the way; the timer of its
\* generation, or news that it fired; and no connection or timer besides.
RuntimeHoldsTheState ==
    LET g == watch.generation
        connects == watch.status \in {"connecting", "active"}
        waits == watch.status = "waiting"
    IN  /\ open \subseteq (IF connects THEN {g} ELSE {})
        /\ timers \subseteq (IF waits THEN {g} ELSE {})
        /\ connects => g \in open \/ LossOf(g) \intersect mail # {}
        /\ waits => g \in timers \/ [kind |-> "retry_due", generation |-> g] \in mail

\* Over any series of losses without a connection that came up, no more than the bounded
\* retries are scheduled; every failure is emitted once, the last one by the failed state
\* itself; and a solution never returns a state that its own validation refuses.
FailuresEnd ==
    /\ step = "harden" => scheduled <= MaxRetries
    /\ \A n, m \in DOMAIN reported : reported[n] = reported[m] => n = m
    /\ watch.status = "failed" => reported # <<>> /\ reported[Len(reported)] = watch.generation
    /\ Valid(step, watch)

\* In every state the runtime reaches, the two solutions of a step answer every event alike,
\* and a later step answers what an earlier one could be asked as that did, but for retries
\* at the bound.
WatchSolutionsAgree ==
    /\ \A e \in Events(step, 0..watch.generation) :
         Oracle(step, watch, e) = Alternate(step, watch, e)
    /\ \A n, m \in DOMAIN Steps :
         n < m /\ step = Steps[m] /\ Valid(Steps[n], watch) /\ watch.retries < MaxRetries =>
             \A e \in Events(Steps[n], 0..watch.generation) :
                 Oracle(Steps[n], watch, e) = Oracle(step, watch, e)
=============================================================================
