-------------------------- MODULE SolutionsProofs --------------------------
(***************************************************************************)
(* The reference solutions and their environments for any topics, retry    *)
(* bound, events, owners and durations, and histories of any length.       *)
(***************************************************************************)
EXTENDS Solutions, FiniteSetTheorems, SequenceTheorems, TLAPS

-----------------------------------------------------------------------------
(* Watch: the inductive invariant. *)

Connects == watch.status \in {"connecting", "active"}
Waits == watch.status = "waiting"

Connected(g) == [kind |-> "connected", generation |-> g]
RetryDue(g) == [kind |-> "retry_due", generation |-> g]
LossIn(g) == \E e \in mail : e.kind \in {"connection_lost", "connection_failed"} /\ e.generation = g
FailureIn(g) == \E e \in mail : e.kind = "connection_failed" /\ e.generation = g

WatchType ==
    /\ step \in {"implement", "review", "harden"}
    /\ watch \in [status : {"stopped", "connecting", "active", "waiting", "failed"},
                  topic : Topics \union {NoTopic}, generation : Nat, retries : Nat,
                  error : ErrorKinds \union {NoError}]
    /\ mail \subseteq Reports(step, 0..watch.generation)
    /\ scheduled \in Nat
    /\ reported \in Seq(Nat)

\* The runtime has the connection and the timer of the state, or the news of their end.
Held ==
    LET g == watch.generation
    IN  /\ open \subseteq (IF Connects THEN {g} ELSE {})
        /\ up \subseteq open
        /\ timers \subseteq (IF Waits THEN {g} ELSE {})
        /\ Connects => g \in open \/ LossIn(g)
        /\ Waits => g \in timers \/ RetryDue(g) \in mail

\* What is in the mail about the current generation is news: its connection is gone if a
\* loss is told, it was up if it is said to be, its timer has fired if a retry is due.
News ==
    LET g == watch.generation
    IN  /\ g \in open => ~LossIn(g)
        /\ g \in open \ up => Connected(g) \notin mail /\ watch.status = "connecting"
        /\ FailureIn(g) => Connected(g) \notin mail /\ watch.status # "active"
        /\ RetryDue(g) \in mail => watch.status \in {"waiting", "stopped"} /\ g \notin timers

\* The state counts the retries in a row, as long as there is a subscription.
Counted ==
    /\ watch.status # "stopped" => scheduled = watch.retries
    /\ step = "harden" => scheduled <= MaxRetries

\* No generation fails twice: what was reported is past, but for the failed state itself.
Reported ==
    /\ \A n, m \in DOMAIN reported : reported[n] = reported[m] => n = m
    /\ \A n \in DOMAIN reported :
         reported[n] <= watch.generation /\ (Connects \/ Waits => reported[n] < watch.generation)
    /\ watch.status = "failed" =>
         reported # <<>> /\ reported[Len(reported)] = watch.generation

WatchIInv == WatchType /\ Valid(step, watch) /\ Held /\ News /\ Counted /\ Reported

-----------------------------------------------------------------------------
(* What the runtime does with none, one and two effects. *)

\* No effect is of any kind.
LEMMA OfNone ==
    ASSUME NEW kind
    PROVE  Of(<<>>, kind) = {} /\ Failures(<<>>) = {}
<1>1. DOMAIN <<>> = {}
  OBVIOUS
<1> QED
  BY <1>1, Zenon DEF Of, Failures

\* One effect is of its own kind only.
LEMMA OfOne ==
    ASSUME NEW f, NEW kind
    PROVE  /\ Of(<<f>>, kind) = IF f.kind = kind THEN {f.generation} ELSE {}
           /\ Failures(<<f>>) = IF f.kind = "emit_event" THEN {1} ELSE {}
<1>1. DOMAIN <<f>> = {1} /\ <<f>>[1] = f
  OBVIOUS
<1> QED
  BY <1>1 DEF Of, Failures

\* The effects of a kind, among two.
LEMMA OfPair ==
    ASSUME NEW fs, DOMAIN fs = {1, 2}, NEW kind
    PROVE  /\ Of(fs, kind) = (IF fs[1].kind = kind THEN {fs[1].generation} ELSE {})
                                \union (IF fs[2].kind = kind THEN {fs[2].generation} ELSE {})
           /\ fs[1].kind # "emit_event" /\ fs[2].kind # "emit_event" => Failures(fs) = {}
BY SMT DEF Of, Failures

\* Two effects are of their two kinds.
LEMMA OfTwo ==
    ASSUME NEW f, NEW h, NEW kind
    PROVE  /\ Of(<<f>> \o <<h>>, kind) = (IF f.kind = kind THEN {f.generation} ELSE {})
                                            \union (IF h.kind = kind THEN {h.generation} ELSE {})
           /\ f.kind # "emit_event" /\ h.kind # "emit_event" => Failures(<<f>> \o <<h>>) = {}
<1>1. PICK fs : fs = <<f>> \o <<h>>
  OBVIOUS
<1>2. DOMAIN fs = {1, 2} /\ fs[1] = f /\ fs[2] = h
  BY <1>1
<1> QED
  BY <1>1, <1>2, OfPair

\* A runtime without a failure to report reports none.
LEMMA NothingReported ==
    ASSUME NEW effects, reported \in Seq(Nat), Failures(effects) = {}, Perform(effects)
    PROVE  reported' = reported
<1>1. Cardinality({}) = 0
  BY FS_EmptySet
<1>2. reported' = reported \o [n \in 1..0 |-> watch.generation]
  BY <1>1 DEF Perform
<1>3. [n \in 1..0 |-> watch.generation] = <<>>
  OBVIOUS
<1> QED
  BY <1>2, <1>3

\* One that has one, reports it for the generation of the state it had.
LEMMA OneReported ==
    ASSUME NEW effects, Failures(effects) = {1}, Perform(effects)
    PROVE  reported' = reported \o <<watch.generation>>
<1>1. Cardinality({1}) = 1
  BY FS_Singleton
<1>2. reported' = reported \o [n \in 1..1 |-> watch.generation]
  BY <1>1 DEF Perform
<1>3. [n \in 1..1 |-> watch.generation] = <<watch.generation>>
  OBVIOUS
<1> QED
  BY <1>2, <1>3

-----------------------------------------------------------------------------
(* The moves of the watch: what a handled event does to state and runtime, *)
(* whichever solution answers it.                                          *)

Nothing == UNCHANGED <<watch, open, up, timers, scheduled, reported>>

Restarted(topic, retries) ==
    /\ watch' = WatchState("connecting", topic, watch.generation + 1, retries, NoError)
    /\ open' = {watch.generation + 1} /\ up' = {} /\ timers' = {}
    /\ UNCHANGED reported

Subscribed(topic) == topic \in Topics /\ Restarted(topic, 0) /\ scheduled' = 0

Retried ==
    /\ Waits /\ RetryDue(watch.generation) \in mail
    /\ Restarted(watch.topic, watch.retries)
    /\ UNCHANGED scheduled

Activated ==
    /\ watch.status = "connecting" /\ Connected(watch.generation) \in mail
    /\ watch' = WatchState("active", watch.topic, watch.generation, 0, NoError)
    /\ scheduled' = 0
    /\ UNCHANGED <<open, up, timers, reported>>

Delayed ==
    /\ Connects /\ LossIn(watch.generation) /\ step # "implement"
    /\ step = "harden" => watch.retries < MaxRetries
    /\ watch' = WatchState("waiting", watch.topic, watch.generation, watch.retries + 1, NoError)
    /\ timers' = timers \union {watch.generation}
    /\ scheduled' = scheduled + 1
    /\ UNCHANGED <<open, up, reported>>

Failed ==
    /\ Connects /\ LossIn(watch.generation) /\ step = "harden"
    /\ \E error \in ErrorKinds :
         watch' = WatchState("failed", watch.topic, watch.generation, watch.retries, error)
    /\ reported' = reported \o <<watch.generation>>
    /\ UNCHANGED <<open, up, timers, scheduled>>

Unsubscribed ==
    /\ watch' = Stopped(watch.generation)
    /\ open' = {} /\ up' = {} /\ timers' = {}
    /\ UNCHANGED <<scheduled, reported>>

\* A runtime without effects keeps what it has.
LEMMA PerformNone ==
    ASSUME WatchIInv, Perform(<<>>)
    PROVE  UNCHANGED <<open, up, timers, reported>>
<1>1. reported' = reported
  BY OfNone, NothingReported DEF WatchIInv, WatchType
<1>2. \A kind : Of(<<>>, kind) = {}
  BY OfNone
<1> QED
  BY <1>1, <1>2, Zenon DEF Perform

\* A runtime whose old connection or timer is stopped, if there is one, has the new
\* connection and nothing besides.
LEMMA PerformConnect ==
    ASSUME WatchIInv, NEW before, NEW topic, NEW retries,
           \/ before = <<>> /\ watch.status \in {"stopped", "failed"}
           \/ before = <<>> /\ Waits /\ RetryDue(watch.generation) \in mail
           \/ before = StopEffect(watch) /\ watch.status \notin {"stopped", "failed"},
           Perform(Connect(topic, watch.generation + 1, retries, before).effects),
           watch' = Connect(topic, watch.generation + 1, retries, before).state
    PROVE  Restarted(topic, retries)
<1> DEFINE g == watch.generation
           c == Effect("connect", g + 1, topic)
           fs == Connect(topic, g + 1, retries, before).effects
<1>1. watch' = WatchState("connecting", topic, g + 1, retries, NoError) /\ fs = before \o <<c>>
  BY DEF Connect, Go
<1>2. /\ g \in Nat /\ reported \in Seq(Nat)
      /\ open \subseteq (IF Connects THEN {g} ELSE {}) /\ up \subseteq open
      /\ timers \subseteq (IF Waits THEN {g} ELSE {})
      /\ RetryDue(g) \in mail => g \notin timers
  BY DEF WatchIInv, WatchType, Held, News
<1>3. c.kind = "connect" /\ c.generation = g + 1
  BY DEF Effect
<1>4. CASE before = <<>>
  <2>1. fs = <<c>>
    BY <1>1, <1>4
  <2>2. \A kind : Of(fs, kind) = IF kind = "connect" THEN {g + 1} ELSE {}
    BY <1>3, <2>1, OfOne
  <2>3. Failures(fs) = {}
    BY <1>3, <2>1, OfOne
  <2>4. open = {} /\ up = {} /\ timers = {}
    BY <1>2, <1>4 DEF Connects, Waits, StopEffect
  <2>5. reported' = reported
    BY <1>2, <2>3, NothingReported
  <2> HIDE DEF g, fs
  <2>6. open' = {g + 1} /\ up' = {} /\ timers' = {}
    BY <2>2, <2>4 DEF Perform, fs, g
  <2> QED
    BY <1>1, <2>5, <2>6 DEF Restarted, g
<1>5. CASE before = StopEffect(watch) /\ watch.status \notin {"stopped", "failed"}
  <2> DEFINE d == Effect(IF Waits THEN "cancel_retry" ELSE "disconnect", g, watch.topic)
  <2>1. fs = <<d>> \o <<c>>
    BY <1>1, <1>5 DEF StopEffect, Waits
  <2>2. d.generation = g /\ d.kind = IF Waits THEN "cancel_retry" ELSE "disconnect"
    BY DEF Effect
  <2> HIDE DEF c, d, fs
  <2>3. Failures(fs) = {}
    BY <1>3, <2>1, <2>2, OfTwo
  <2>4. reported' = reported
    BY <1>2, <2>3, NothingReported DEF fs
  <2> DEFINE of(kind) == (IF d.kind = kind THEN {g} ELSE {})
                           \union (IF c.kind = kind THEN {g + 1} ELSE {})
  <2>5. ASSUME NEW kind PROVE Of(fs, kind) = of(kind)
    <3>1. Of(<<d>> \o <<c>>, kind) = (IF d.kind = kind THEN {d.generation} ELSE {})
                                       \union (IF c.kind = kind THEN {c.generation} ELSE {})
      BY OfTwo
    <3> QED
      BY <1>3, <2>1, <2>2, <3>1
  <2>6. Of(fs, "connect") = {g + 1} /\ Of(fs, "schedule_retry") = {}
    BY <1>3, <2>5, <2>2
  <2>7. /\ Of(fs, "disconnect") = IF Waits THEN {} ELSE {g}
        /\ Of(fs, "cancel_retry") = IF Waits THEN {g} ELSE {}
    BY <1>3, <2>5, <2>2
  <2>8. /\ open' = (open \ Of(fs, "disconnect")) \union {g + 1} /\ up' = up \ Of(fs, "disconnect")
        /\ timers' = timers \ Of(fs, "cancel_retry")
    BY <2>6 DEF Perform, fs
  <2>9. open' = {g + 1} /\ up' = {} /\ timers' = {}
    BY <1>2, <1>5, <2>7, <2>8 DEF Connects, Waits
  <2> QED
    BY <1>1, <2>4, <2>9 DEF Restarted
<1>6. before = <<>> \/ (before = StopEffect(watch) /\ watch.status \notin {"stopped", "failed"})
  OBVIOUS
<1> QED
  BY <1>4, <1>5, <1>6

\* A runtime told to stop what it has, has nothing.
LEMMA PerformStop ==
    ASSUME WatchIInv, watch.status \notin {"stopped", "failed"}, Perform(StopEffect(watch))
    PROVE  open' = {} /\ up' = {} /\ timers' = {} /\ UNCHANGED reported
<1> DEFINE g == watch.generation
           d == Effect(IF Waits THEN "cancel_retry" ELSE "disconnect", g, watch.topic)
<1>1. /\ reported \in Seq(Nat) /\ up \subseteq open
      /\ open \subseteq (IF Connects THEN {g} ELSE {})
      /\ timers \subseteq (IF Waits THEN {g} ELSE {})
  BY DEF WatchIInv, WatchType, Held
<1>2. Perform(<<d>>)
  BY DEF StopEffect, Waits
<1>3. d.generation = g /\ d.kind = IF Waits THEN "cancel_retry" ELSE "disconnect"
  BY DEF Effect
<1> HIDE DEF d
<1>4. Failures(<<d>>) = {}
  BY <1>3, OfOne
<1>5. reported' = reported
  BY <1>1, <1>2, <1>4, NothingReported
<1>6. \A kind : Of(<<d>>, kind) = IF kind = d.kind THEN {g} ELSE {}
  BY <1>3, OfOne
<1>7. /\ open' = (open \ Of(<<d>>, "disconnect")) \union Of(<<d>>, "connect")
      /\ up' = up \ Of(<<d>>, "disconnect")
      /\ timers' = (timers \ Of(<<d>>, "cancel_retry")) \union Of(<<d>>, "schedule_retry")
  BY <1>2, Zenon DEF Perform
<1>8. Of(<<d>>, "connect") = {} /\ Of(<<d>>, "schedule_retry") = {}
  BY <1>3, <1>6, Zenon
<1>9. Waits => Of(<<d>>, "disconnect") = {} /\ Of(<<d>>, "cancel_retry") = {g}
  BY <1>3, <1>6, Zenon
<1>10. ~Waits => Of(<<d>>, "disconnect") = {g} /\ Of(<<d>>, "cancel_retry") = {}
  BY <1>3, <1>6, Zenon
<1> HIDE DEF g
<1>11. open' = {} /\ up' = {} /\ timers' = {}
  BY <1>1, <1>7, <1>8, <1>9, <1>10 DEF Connects, Waits
<1> QED
  BY <1>5, <1>11

\* A runtime told to wait has one timer more.
LEMMA PerformWait ==
    ASSUME WatchIInv, NEW s, Perform(ScheduleRetry(s))
    PROVE  /\ timers' = timers \union {s.generation}
           /\ Cardinality(Of(ScheduleRetry(s), "schedule_retry")) = 1
           /\ UNCHANGED <<open, up, reported>>
<1> DEFINE d == [Effect("schedule_retry", s.generation, s.topic) EXCEPT !.delay = Delay(s.retries)]
<1>1. d.kind = "schedule_retry" /\ d.generation = s.generation
  BY DEF Effect
<1>2. ScheduleRetry(s) = <<d>>
  BY DEF ScheduleRetry
<1> HIDE DEF d
<1>3. Failures(<<d>>) = {}
  BY <1>1, OfOne
<1>4. reported' = reported
  BY <1>2, <1>3, NothingReported DEF WatchIInv, WatchType
<1>5. \A kind : Of(<<d>>, kind) = IF kind = "schedule_retry" THEN {s.generation} ELSE {}
  BY <1>1, OfOne
<1>6. /\ open' = (open \ Of(<<d>>, "disconnect")) \union Of(<<d>>, "connect")
      /\ up' = up \ Of(<<d>>, "disconnect")
      /\ timers' = (timers \ Of(<<d>>, "cancel_retry")) \union Of(<<d>>, "schedule_retry")
  BY <1>2, Zenon DEF Perform
<1>7. /\ Of(<<d>>, "connect") = {} /\ Of(<<d>>, "disconnect") = {} /\ Of(<<d>>, "cancel_retry") = {}
      /\ Of(<<d>>, "schedule_retry") = {s.generation}
  BY <1>5, Zenon
<1>8. Cardinality({s.generation}) = 1
  BY FS_Singleton
<1>9. UNCHANGED <<open, up>> /\ timers' = timers \union {s.generation}
  BY <1>6, <1>7
<1> QED
  BY <1>2, <1>4, <1>7, <1>8, <1>9

\* A runtime told of a failure keeps what it has and reports it.
LEMMA PerformFail ==
    ASSUME WatchIInv, NEW s, Perform(EmitFailure(s))
    PROVE  /\ reported' = reported \o <<watch.generation>>
           /\ UNCHANGED <<open, up, timers>>
           /\ Of(EmitFailure(s), "schedule_retry") = {}
<1> DEFINE d == [Effect("emit_event", s.generation, s.topic) EXCEPT !.error = s.error]
<1>1. d.kind = "emit_event"
  BY DEF Effect
<1>2. EmitFailure(s) = <<d>>
  BY DEF EmitFailure
<1> HIDE DEF d
<1>3. Failures(<<d>>) = {1}
  BY <1>1, OfOne
<1>4. reported' = reported \o <<watch.generation>>
  BY <1>2, <1>3, OneReported
<1>5. \A kind : kind # "emit_event" => Of(<<d>>, kind) = {}
  BY <1>1, OfOne
<1>6. /\ open' = (open \ Of(<<d>>, "disconnect")) \union Of(<<d>>, "connect")
      /\ up' = up \ Of(<<d>>, "disconnect")
      /\ timers' = (timers \ Of(<<d>>, "cancel_retry")) \union Of(<<d>>, "schedule_retry")
  BY <1>2, Zenon DEF Perform
<1>7. /\ Of(<<d>>, "connect") = {} /\ Of(<<d>>, "disconnect") = {} /\ Of(<<d>>, "cancel_retry") = {}
      /\ Of(<<d>>, "schedule_retry") = {}
  BY <1>5, Zenon
<1>8. UNCHANGED <<open, up, timers>>
  BY <1>6, <1>7
<1> QED
  BY <1>2, <1>4, <1>7, <1>8

-----------------------------------------------------------------------------
(* Which event moves the watch how. *)

\* An event that changes nothing leaves the runtime alone.
LEMMA HandleStay ==
    ASSUME WatchIInv, NEW e, Handle(e), Oracle(step, watch, e) = Stay(watch)
    PROVE  Nothing
<1>1. watch' = watch /\ Perform(<<>>)
  BY DEF Handle, Stay, Go
<1>2. UNCHANGED <<open, up, timers, reported>>
  BY <1>1, PerformNone
<1>3. Cardinality(Of(<<>>, "schedule_retry")) = 0
  BY OfNone, FS_EmptySet, Zenon
<1>4. scheduled' = scheduled + Cardinality(Of(<<>>, "schedule_retry"))
  BY DEF Handle, Stay, Go
<1>5. scheduled' = scheduled
  BY <1>3, <1>4 DEF WatchIInv, WatchType
<1> QED
  BY <1>1, <1>2, <1>5 DEF Nothing

\* A subscription to another topic, or after a failure, gets a connection of its own.
LEMMA SubscribeMoves ==
    ASSUME WatchIInv, NEW e \in UserEvents, e.kind = "subscribe", Handle(e)
    PROVE  Nothing \/ Subscribed(e.topic)
<1> DEFINE g == watch.generation
           before == IF watch.status \in {"stopped", "failed"} THEN <<>> ELSE StopEffect(watch)
<1>1. e.topic \in Topics
  BY DEF UserEvents
<1>2. step \in {"implement", "review", "harden"} /\ Valid(step, watch) /\ g \in Nat
  BY DEF WatchIInv, WatchType
<1>3. \/ Oracle(step, watch, e) = Stay(watch)
      \/ Oracle(step, watch, e) = Connect(e.topic, g + 1, 0, before)
  <2>1. CASE step = "implement"
    BY <1>2, <2>1 DEF Oracle, ImplementOracle, Valid, ImplementValid, StopEffect
  <2>2. CASE step = "review"
    BY <1>2, <2>2 DEF Oracle, ReviewOracle, Valid, ReviewValid
  <2>3. CASE step = "harden"
    BY <1>2, <2>3 DEF Oracle, HardenOracle
  <2> QED
    BY <1>2, <2>1, <2>2, <2>3
<1>4. CASE Oracle(step, watch, e) = Connect(e.topic, g + 1, 0, before)
  <2>1. /\ Perform(Connect(e.topic, g + 1, 0, before).effects)
        /\ watch' = Connect(e.topic, g + 1, 0, before).state
    BY <1>4 DEF Handle
  <2>2. Restarted(e.topic, 0)
    <3>1. CASE watch.status \in {"stopped", "failed"}
      BY <2>1, <3>1, PerformConnect
    <3>2. CASE watch.status \notin {"stopped", "failed"}
      BY <2>1, <3>2, PerformConnect
    <3> QED
      BY <3>1, <3>2
  <2>3. watch' # watch
    BY <1>2, <2>2 DEF Restarted, WatchState
  <2>4. scheduled' = 0
    BY <1>4, <2>1, <2>3 DEF Handle
  <2> QED
    BY <1>1, <2>2, <2>4 DEF Subscribed
<1> QED
  BY <1>3, <1>4, HandleStay

\* Whoever unsubscribes keeps nothing.
LEMMA UnsubscribeMoves ==
    ASSUME WatchIInv, NEW e, e.kind = "unsubscribe", Handle(e)
    PROVE  Nothing \/ Unsubscribed
<1> DEFINE g == watch.generation
           after == IF watch.status = "failed" THEN <<>> ELSE StopEffect(watch)
<1>1. step \in {"implement", "review", "harden"} /\ Valid(step, watch) /\ scheduled \in Nat
  BY DEF WatchIInv, WatchType
<1>2. Oracle(step, watch, e) = IF watch.status = "stopped" THEN Stay(watch) ELSE Go(Stopped(g), after)
  <2>1. CASE step = "implement"
    BY <1>1, <2>1 DEF Oracle, ImplementOracle, Valid, ImplementValid, StopEffect
  <2>2. CASE step = "review"
    BY <1>1, <2>2 DEF Oracle, ReviewOracle, Valid, ReviewValid
  <2>3. CASE step = "harden"
    BY <1>1, <2>3 DEF Oracle, HardenOracle
  <2> QED
    BY <1>1, <2>1, <2>2, <2>3
<1>3. CASE watch.status # "stopped"
  <2>1. /\ watch' = Stopped(g) /\ Perform(after)
        /\ scheduled' = scheduled + Cardinality(Of(after, "schedule_retry"))
    BY <1>2, <1>3 DEF Handle, Go
  <2>2. open' = {} /\ up' = {} /\ timers' = {} /\ UNCHANGED reported
    <3>1. CASE watch.status = "failed"
      BY <2>1, <3>1, PerformNone DEF WatchIInv, Held, Connects, Waits
    <3>2. CASE watch.status # "failed"
      BY <1>3, <2>1, <3>2, PerformStop
    <3> QED
      BY <3>1, <3>2
  <2>3. Of(after, "schedule_retry") = {}
    <3>1. CASE watch.status = "failed"
      BY <3>1, OfNone
    <3>2. CASE watch.status # "failed"
      <4> DEFINE d == Effect(IF watch.status = "waiting" THEN "cancel_retry" ELSE "disconnect",
                             g, watch.topic)
      <4>1. after = <<d>> /\ d.kind # "schedule_retry"
        BY <3>2 DEF StopEffect, Effect
      <4> HIDE DEF d, after
      <4> QED
        BY <4>1, OfOne
    <3> QED
      BY <3>1, <3>2
  <2>4. scheduled' = scheduled
    <3>1. Cardinality({}) = 0
      BY FS_EmptySet
    <3> HIDE DEF after
    <3> QED
      BY <1>1, <2>1, <2>3, <3>1
  <2> QED
    BY <2>1, <2>2, <2>4 DEF Unsubscribed
<1> QED
  BY <1>2, <1>3, HandleStay

\* A connection is taken for open when the state waits for it.
LEMMA ConnectedMoves ==
    ASSUME WatchIInv, NEW e \in mail, e.kind = "connected", Handle(e)
    PROVE  Nothing \/ (Activated /\ e = Connected(watch.generation))
<1>1. /\ step \in {"implement", "review", "harden"}
      /\ e \in Reports(step, 0..watch.generation)
  BY DEF WatchIInv, WatchType
<1>2. e = Connected(e.generation)
  BY <1>1 DEF Reports, Connected
<1>3. Oracle(step, watch, e) = Activate(watch, e)
  BY <1>1 DEF Oracle, ImplementOracle, ReviewOracle, HardenOracle
<1>4. CASE Matches(watch, e, {"connecting"})
  <2>1. watch.status = "connecting" /\ e = Connected(watch.generation)
    BY <1>2, <1>4 DEF Matches
  <2>2. /\ watch' = WatchState("active", watch.topic, watch.generation, 0, NoError)
        /\ Perform(<<>>) /\ watch' # watch
    BY <1>3, <1>4 DEF Handle, Activate, Go, Matches, WatchState
  <2>3. scheduled' = 0
    BY <1>3, <2>2 DEF Handle
  <2> QED
    BY <2>1, <2>2, <2>3, PerformNone DEF Activated
<1>5. CASE ~Matches(watch, e, {"connecting"})
  BY <1>3, <1>5, HandleStay DEF Activate
<1> QED
  BY <1>4, <1>5

\* Whoever is to wait for a retry gets its timer and counts it.
LEMMA HandleWait ==
    ASSUME WatchIInv, NEW e, Handle(e), Connects, LossIn(watch.generation), step # "implement",
           step = "harden" => watch.retries < MaxRetries,
           e.kind \notin {"subscribe", "connected"},
           NEW waiting,
           waiting = WatchState("waiting", watch.topic, watch.generation, watch.retries + 1, NoError),
           Oracle(step, watch, e) = Go(waiting, ScheduleRetry(waiting))
    PROVE  Delayed
<1>1. waiting.generation = watch.generation /\ scheduled \in Nat
  BY DEF WatchState, WatchIInv, WatchType
<1>2. /\ watch' = waiting /\ Perform(ScheduleRetry(waiting))
      /\ scheduled' = scheduled + Cardinality(Of(ScheduleRetry(waiting), "schedule_retry"))
  BY DEF Handle, Go
<1>3. /\ timers' = timers \union {watch.generation}
      /\ scheduled' = scheduled + 1
      /\ UNCHANGED <<open, up, reported>>
  BY <1>1, <1>2, PerformWait
<1> QED
  BY <1>2, <1>3 DEF Delayed

\* Whoever gives up reports it.
LEMMA HandleFail ==
    ASSUME WatchIInv, NEW e, Handle(e), Connects, LossIn(watch.generation), step = "harden",
           e.kind \notin {"subscribe", "connected"},
           NEW error \in ErrorKinds, NEW failed,
           failed = WatchState("failed", watch.topic, watch.generation, watch.retries, error),
           Oracle(step, watch, e) = Go(failed, EmitFailure(failed))
    PROVE  Failed
<1>1. /\ watch' = failed /\ Perform(EmitFailure(failed))
      /\ scheduled' = scheduled + Cardinality(Of(EmitFailure(failed), "schedule_retry"))
  BY DEF Handle, Go
<1>2. /\ reported' = reported \o <<watch.generation>>
      /\ UNCHANGED <<open, up, timers>>
      /\ Of(EmitFailure(failed), "schedule_retry") = {}
  BY <1>1, PerformFail
<1>3. Cardinality(Of(EmitFailure(failed), "schedule_retry")) = 0
  BY <1>2, FS_EmptySet, Zenon
<1>4. scheduled' = scheduled
  BY <1>1, <1>3 DEF WatchIInv, WatchType
<1> QED
  BY <1>1, <1>2, <1>4 DEF Failed

\* The bounded retry of the last step either waits or gives up.
LEMMA RetryOrFailMoves ==
    ASSUME WatchIInv, NEW e, Handle(e), Connects, LossIn(watch.generation), step = "harden",
           e.kind \notin {"subscribe", "connected"}, NEW error \in ErrorKinds,
           Oracle(step, watch, e) = RetryOrFail(watch, watch.generation, error)
    PROVE  Delayed \/ Failed
<1> DEFINE g == watch.generation
           waiting == WatchState("waiting", watch.topic, g, watch.retries + 1, NoError)
           failed == WatchState("failed", watch.topic, g, watch.retries, error)
<1>1. watch.retries \in Nat /\ MaxRetries \in Nat
  BY WatchAssumption DEF WatchIInv, WatchType
<1>2. CASE error \notin Retryable \/ watch.retries >= MaxRetries
  <2>1. Oracle(step, watch, e) = Go(failed, EmitFailure(failed))
    BY <1>2 DEF RetryOrFail
  <2> QED
    BY <2>1, HandleFail
<1>3. CASE ~(error \notin Retryable \/ watch.retries >= MaxRetries)
  <2>1. Oracle(step, watch, e) = Go(waiting, ScheduleRetry(waiting)) /\ watch.retries < MaxRetries
    BY <1>1, <1>3 DEF RetryOrFail
  <2> QED
    BY <2>1, HandleWait
<1> QED
  BY <1>2, <1>3

\* A loss of the connection that the state relies on makes it wait or, at the bound, fail.
LEMMA LossMoves ==
    ASSUME WatchIInv, NEW e \in mail, e.kind \in {"connection_lost", "connection_failed"}, Handle(e)
    PROVE  \/ Nothing /\ ~(Connects /\ e.generation = watch.generation)
           \/ Delayed
           \/ Failed
<1> DEFINE g == watch.generation
           waiting == WatchState("waiting", watch.topic, g, watch.retries + 1, NoError)
<1>1. /\ step \in {"implement", "review", "harden"}
      /\ e \in Reports(step, 0..g)
      /\ FailureIn(g) => watch.status # "active"
  BY DEF WatchIInv, WatchType, News
<1>2. /\ step \in {"review", "harden"}
      /\ e.kind = "connection_failed" => step = "harden" /\ e.error \in ErrorKinds
  BY <1>1 DEF Reports
<1>3. "transient" \in ErrorKinds
  BY WatchAssumption DEF Retryable
<1>4. CASE Connects /\ e.generation = g
  <2>1. LossIn(g)
    BY <1>4 DEF LossIn
  <2>2. CASE step = "review"
    <3>1. Oracle(step, watch, e) = Go(waiting, ScheduleRetry(waiting))
      BY <1>2, <1>4, <2>2 DEF Oracle, ReviewOracle, Matches, Connects
    <3> QED
      BY <1>4, <2>1, <2>2, <3>1, HandleWait
  <2>3. CASE step = "harden" /\ e.kind = "connection_lost"
    <3>1. Oracle(step, watch, e) = RetryOrFail(watch, g, "transient")
      BY <1>4, <2>3 DEF Oracle, HardenOracle, Matches, Connects
    <3> QED
      BY <1>3, <1>4, <2>1, <2>3, <3>1, RetryOrFailMoves
  <2>4. CASE step = "harden" /\ e.kind = "connection_failed"
    <3>1. watch.status = "connecting"
      BY <1>1, <1>4, <2>4 DEF FailureIn, Connects
    <3>2. Oracle(step, watch, e) = RetryOrFail(watch, g, e.error)
      BY <1>4, <2>4, <3>1 DEF Oracle, HardenOracle, Matches
    <3> QED
      BY <1>2, <1>4, <2>1, <2>4, <3>2, RetryOrFailMoves
  <2> QED
    BY <1>2, <2>2, <2>3, <2>4
<1>5. CASE ~(Connects /\ e.generation = g)
  <2>1. Oracle(step, watch, e) = Stay(watch)
    <3>1. CASE step = "review"
      BY <1>2, <1>5, <3>1 DEF Oracle, ReviewOracle, Matches, Connects
    <3>2. CASE step = "harden"
      BY <1>2, <1>5, <3>2 DEF Oracle, HardenOracle, Matches, Connects
    <3> QED
      BY <1>2, <3>1, <3>2
  <2> QED
    BY <1>5, <2>1, HandleStay
<1> QED
  BY <1>4, <1>5

\* A retry that is due, and not over, connects again.
LEMMA RetryMoves ==
    ASSUME WatchIInv, NEW e \in mail, e.kind = "retry_due", Handle(e)
    PROVE  Retried \/ (Nothing /\ ~(Waits /\ e.generation = watch.generation))
<1> DEFINE g == watch.generation
<1>1. /\ step \in {"implement", "review", "harden"} /\ e \in Reports(step, 0..g)
      /\ scheduled \in Nat
  BY DEF WatchIInv, WatchType
<1>2. step \in {"review", "harden"} /\ e = RetryDue(e.generation)
  BY <1>1 DEF Reports, RetryDue
<1>3. Oracle(step, watch, e) = Reconnect(watch, e)
  BY <1>2 DEF Oracle, ReviewOracle, HardenOracle
<1>4. CASE Waits /\ e.generation = g
  <2> DEFINE c == Connect(watch.topic, g + 1, watch.retries, <<>>)
             x == Effect("connect", g + 1, watch.topic)
  <2>1. Waits /\ RetryDue(g) \in mail
    BY <1>2, <1>4
  <2>2. /\ watch' = c.state /\ Perform(c.effects)
        /\ scheduled' = scheduled + Cardinality(Of(c.effects, "schedule_retry"))
    BY <1>2, <1>3, <1>4 DEF Handle, Reconnect, Matches, Waits
  <2>3. Restarted(watch.topic, watch.retries)
    BY <2>1, <2>2, PerformConnect
  <2>4. c.effects = <<x>> /\ x.kind # "schedule_retry"
    BY DEF Connect, Go, Effect
  <2>5. Cardinality(Of(c.effects, "schedule_retry")) = 0
    <3> HIDE DEF c, x
    <3>1. Of(<<x>>, "schedule_retry") = {}
      BY <2>4, OfOne
    <3> QED
      BY <2>4, <3>1, FS_EmptySet, Zenon
  <2>6. scheduled' = scheduled
    BY <1>1, <2>2, <2>5
  <2> QED
    BY <2>1, <2>3, <2>6 DEF Retried
<1>5. CASE ~(Waits /\ e.generation = g)
  <2>1. Oracle(step, watch, e) = Stay(watch)
    BY <1>3, <1>5 DEF Reconnect, Matches, Waits
  <2> QED
    BY <1>5, <2>1, HandleStay
<1> QED
  BY <1>4, <1>5

-----------------------------------------------------------------------------
(* The moves keep the invariant. *)

\* The mail about older generations is mail about those up to a later one.
LEMMA ReportsGrow ==
    ASSUME NEW s, NEW a \in Nat, NEW b \in Nat, a <= b
    PROVE  Reports(s, 0..a) \subseteq Reports(s, 0..b)
<1>1. 0..a \subseteq 0..b
  OBVIOUS
<1> QED
  BY <1>1 DEF Reports

\* What a state has to satisfy depends on the step.
LEMMA ValidOf ==
    ASSUME NEW s, NEW st
    PROVE  /\ st = "implement" => (Valid(st, s) <=> ImplementValid(s))
           /\ st = "review" => (Valid(st, s) <=> ReviewValid(s))
           /\ st = "harden" => (Valid(st, s) <=> HardenValid(s))
BY DEF Valid

\* An event that changes nothing, and is no news that the state needs, may go.
LEMMA NothingKeeps ==
    ASSUME WatchIInv, Nothing, step' = step, mail' \subseteq mail,
           Connects /\ LossIn(watch.generation) => LossIn(watch.generation)',
           Waits /\ RetryDue(watch.generation) \in mail => RetryDue(watch.generation) \in mail'
    PROVE  WatchIInv'
<1>1. WatchType' /\ Valid(step, watch)'
  BY DEF WatchIInv, WatchType, Nothing
<1>2. Held'
  BY DEF WatchIInv, Held, Nothing, Connects, Waits, RetryDue
<1>3. News'
  BY DEF WatchIInv, News, Nothing, LossIn, FailureIn, Connected, RetryDue
<1>4. Counted' /\ Reported'
  BY DEF WatchIInv, Counted, Reported, Nothing, Connects, Waits
<1> QED
  BY <1>1, <1>2, <1>3, <1>4 DEF WatchIInv

\* Nothing is known yet about a new connection.
LEMMA RestartedKeeps ==
    ASSUME WatchIInv, NEW topic \in Topics, NEW retries \in Nat, Restarted(topic, retries),
           step' = step, mail' \subseteq mail,
           scheduled' = retries,
           step = "implement" => retries = 0,
           step = "harden" => retries <= MaxRetries
    PROVE  WatchIInv'
<1> DEFINE g == watch.generation
<1>1. /\ watch.generation \in Nat /\ mail \subseteq Reports(step, 0..g)
      /\ step \in {"implement", "review", "harden"} /\ reported \in Seq(Nat)
  BY DEF WatchIInv, WatchType
<1>2. /\ watch' = [status |-> "connecting", topic |-> topic, generation |-> g + 1,
                   retries |-> retries, error |-> NoError]
      /\ open' = {g + 1} /\ up' = {} /\ timers' = {} /\ reported' = reported
  BY DEF Restarted, WatchState
<1>3. MaxRetries \in Nat /\ NoTopic \notin Topics /\ NoError \notin ErrorKinds
  BY WatchAssumption
<1>4. WatchType'
  <2>1. mail' \subseteq Reports(step', 0..watch'.generation)
    BY <1>1, <1>2, ReportsGrow
  <2> QED
    BY <1>1, <1>2, <2>1 DEF WatchType
<1>5. Valid(step, watch)'
  <2>1. CASE step = "implement"
    BY <1>1, <1>2, <1>3, <2>1, ValidOf DEF ImplementValid
  <2>2. CASE step = "review"
    BY <1>1, <1>2, <1>3, <2>2, ValidOf DEF ReviewValid
  <2>3. CASE step = "harden"
    BY <1>1, <1>2, <1>3, <2>3, ValidOf DEF HardenValid
  <2> QED
    BY <1>1, <2>1, <2>2, <2>3
<1>6. Held'
  BY <1>2 DEF Held, Connects, Waits
<1>7. \A e \in mail' : e.generation \in 0..g
  BY <1>1 DEF Reports
<1>8. News'
  BY <1>1, <1>2, <1>7 DEF News, LossIn, FailureIn, Connected, RetryDue
<1>9. Counted'
  BY <1>2 DEF Counted
<1>10. Reported'
  BY <1>1, <1>2 DEF WatchIInv, Reported
<1> QED
  BY <1>4, <1>5, <1>6, <1>8, <1>9, <1>10 DEF WatchIInv

\* A connection that came up is the state's.
LEMMA ActivatedKeeps ==
    ASSUME WatchIInv, Activated, step' = step, mail' \subseteq mail,
           mail \ {Connected(watch.generation)} \subseteq mail'
    PROVE  WatchIInv'
<1> DEFINE g == watch.generation
<1>1. /\ watch.generation \in Nat /\ watch.topic \in Topics \union {NoTopic}
      /\ mail \subseteq Reports(step, 0..g)
      /\ step \in {"implement", "review", "harden"} /\ reported \in Seq(Nat)
  BY DEF WatchIInv, WatchType
<1>2. /\ watch' = [status |-> "active", topic |-> watch.topic, generation |-> g,
                   retries |-> 0, error |-> NoError]
      /\ UNCHANGED <<open, up, timers, reported>> /\ scheduled' = 0
      /\ watch.status = "connecting" /\ Connected(g) \in mail
  BY DEF Activated, WatchState
<1>3. MaxRetries \in Nat /\ NoTopic \notin Topics /\ NoError \notin ErrorKinds
  BY WatchAssumption
<1>4. WatchType'
  BY <1>1, <1>2 DEF WatchType
<1>5. Valid(step, watch)'
  <2>1. CASE step = "implement"
    BY <1>1, <1>2, <1>3, <2>1, ValidOf DEF WatchIInv, ImplementValid
  <2>2. CASE step = "review"
    BY <1>1, <1>2, <1>3, <2>2, ValidOf DEF WatchIInv, ReviewValid
  <2>3. CASE step = "harden"
    BY <1>1, <1>2, <1>3, <2>3, ValidOf DEF WatchIInv, HardenValid
  <2> QED
    BY <1>1, <2>1, <2>2, <2>3
<1>6. LossIn(g) => LossIn(g)'
  BY <1>2 DEF LossIn, Connected
<1>7. Held'
  BY <1>2, <1>6 DEF WatchIInv, Held, Connects, Waits
<1>8. News'
  BY <1>2 DEF WatchIInv, News, LossIn, FailureIn, RetryDue
<1>9. Counted'
  BY <1>2, <1>3 DEF Counted
<1>10. Reported'
  BY <1>2 DEF WatchIInv, Reported, Connects, Waits
<1> QED
  BY <1>4, <1>5, <1>7, <1>8, <1>9, <1>10 DEF WatchIInv

\* A retry that is scheduled is within the bound, and its timer the only one.
LEMMA DelayedKeeps ==
    ASSUME WatchIInv, Delayed, step' = step, mail' \subseteq mail
    PROVE  WatchIInv'
<1> DEFINE g == watch.generation
<1>1. /\ watch.generation \in Nat /\ watch.retries \in Nat /\ scheduled \in Nat
      /\ watch.topic \in Topics \union {NoTopic}
      /\ mail \subseteq Reports(step, 0..g)
      /\ step \in {"review", "harden"} /\ reported \in Seq(Nat)
  BY DEF WatchIInv, WatchType, Delayed
<1>2. /\ watch' = [status |-> "waiting", topic |-> watch.topic, generation |-> g,
                   retries |-> watch.retries + 1, error |-> NoError]
      /\ UNCHANGED <<open, up, reported>> /\ timers' = timers \union {g}
      /\ scheduled' = scheduled + 1
      /\ Connects /\ LossIn(g) /\ (step = "harden" => watch.retries < MaxRetries)
  BY DEF Delayed, WatchState
<1>3. MaxRetries \in Nat /\ NoTopic \notin Topics /\ NoError \notin ErrorKinds
  BY WatchAssumption
<1>4. WatchType'
  BY <1>1, <1>2 DEF WatchType
<1>5. Valid(step, watch)'
  <2>1. CASE step = "review"
    BY <1>1, <1>2, <1>3, <2>1, ValidOf DEF WatchIInv, Connects, ReviewValid
  <2>2. CASE step = "harden"
    BY <1>1, <1>2, <1>3, <2>2, ValidOf DEF WatchIInv, Connects, HardenValid
  <2> QED
    BY <1>1, <2>1, <2>2
<1>6. open = {} /\ timers = {} /\ RetryDue(g) \notin mail
  BY <1>2 DEF WatchIInv, Held, News, Connects, Waits
<1>7. Held'
  BY <1>2, <1>6 DEF WatchIInv, Held, Connects, Waits
<1>8. News'
  BY <1>2, <1>6 DEF WatchIInv, News, FailureIn, LossIn, Connected, RetryDue
<1>9. Counted'
  BY <1>1, <1>2, <1>3 DEF WatchIInv, Counted, Connects
<1>10. Reported'
  BY <1>2 DEF WatchIInv, Reported, Connects, Waits
<1> QED
  BY <1>4, <1>5, <1>7, <1>8, <1>9, <1>10 DEF WatchIInv

\* A failure is a new one, and the last.
LEMMA FailedKeeps ==
    ASSUME WatchIInv, Failed, step' = step, mail' \subseteq mail
    PROVE  WatchIInv'
<1> DEFINE g == watch.generation
<1>1. /\ watch.generation \in Nat /\ watch.retries \in Nat
      /\ watch.topic \in Topics \union {NoTopic}
      /\ mail \subseteq Reports(step, 0..g)
      /\ step = "harden" /\ reported \in Seq(Nat)
  BY DEF WatchIInv, WatchType, Failed
<1>2. PICK error \in ErrorKinds :
          watch' = [status |-> "failed", topic |-> watch.topic, generation |-> g,
                    retries |-> watch.retries, error |-> error]
  BY DEF Failed, WatchState
<1>3. /\ UNCHANGED <<open, up, timers, scheduled>> /\ reported' = reported \o <<g>>
      /\ Connects /\ LossIn(g)
  BY DEF Failed
<1>4. WatchType'
  BY <1>1, <1>2, <1>3 DEF WatchIInv, WatchType
<1>5. Valid(step, watch)'
  BY <1>1, <1>2, <1>3, ValidOf DEF WatchIInv, HardenValid, Connects
<1>6. open = {} /\ timers = {} /\ RetryDue(g) \notin mail
  BY <1>3 DEF WatchIInv, Held, News, Connects, Waits
<1>7. Held'
  BY <1>2, <1>3, <1>6 DEF WatchIInv, Held, Connects, Waits
<1>8. News'
  BY <1>2, <1>3, <1>6 DEF WatchIInv, News, FailureIn, LossIn, Connected, RetryDue
<1>9. Counted'
  BY <1>2, <1>3 DEF WatchIInv, Counted, Connects
<1>10. Reported'
  <2>1. \A n \in DOMAIN reported : reported[n] < g
    BY <1>3 DEF WatchIInv, Reported
  <2>2. /\ Len(reported') = Len(reported) + 1 /\ reported'[Len(reported')] = g
        /\ \A n \in DOMAIN reported : reported'[n] = reported[n]
    BY <1>1, <1>3
  <2>3. \A n \in DOMAIN reported' : n \in DOMAIN reported \/ n = Len(reported')
    BY <1>1, <1>3, <2>2
  <2>4. \A n, m \in DOMAIN reported' : reported'[n] = reported'[m] => n = m
    BY <1>1, <2>1, <2>2, <2>3 DEF WatchIInv, Reported
  <2>5. ASSUME NEW n \in DOMAIN reported' PROVE reported'[n] <= g
    <3>1. CASE n \in DOMAIN reported
      <4>1. reported'[n] = reported[n] /\ reported[n] < g
        BY <2>1, <2>2, <3>1
      <4>2. reported[n] \in Nat /\ g \in Nat
        BY <1>3, <3>1 DEF WatchIInv, WatchType
      <4> QED
        BY <4>1, <4>2
    <3>2. CASE n = Len(reported')
      <4>1. g \in Nat
        BY <1>3 DEF WatchIInv, WatchType
      <4> QED
        BY <2>2, <3>2, <4>1
    <3> QED
      BY <2>3, <3>1, <3>2
  <2>6. reported' # <<>>
    BY <1>1, <1>3
  <2> QED
    BY <1>2, <2>2, <2>4, <2>5, <2>6 DEF Reported, Connects, Waits
<1> QED
  BY <1>4, <1>5, <1>7, <1>8, <1>9, <1>10 DEF WatchIInv

\* Without a subscription there is nothing left to lose.
LEMMA UnsubscribedKeeps ==
    ASSUME WatchIInv, Unsubscribed, step' = step, mail' = mail
    PROVE  WatchIInv'
<1> DEFINE g == watch.generation
<1>1. /\ watch.generation \in Nat /\ mail \subseteq Reports(step, 0..g)
      /\ step \in {"implement", "review", "harden"}
  BY DEF WatchIInv, WatchType
<1>2. /\ watch' = [status |-> "stopped", topic |-> NoTopic, generation |-> g,
                   retries |-> 0, error |-> NoError]
      /\ open' = {} /\ up' = {} /\ timers' = {} /\ UNCHANGED <<scheduled, reported>>
  BY DEF Unsubscribed, Stopped, WatchState
<1>3. MaxRetries \in Nat
  BY WatchAssumption
<1>4. WatchType'
  BY <1>1, <1>2 DEF WatchIInv, WatchType
<1>5. Valid(step, watch)'
  BY <1>1, <1>2, <1>3, ValidOf, WatchAssumption DEF ImplementValid, ReviewValid, HardenValid
<1>6. Held'
  BY <1>2 DEF Held, Connects, Waits
<1>7. News'
  <2>1. FailureIn(g) => Connected(g) \notin mail
    BY DEF WatchIInv, News
  <2> QED
    BY <1>2, <2>1 DEF News, LossIn, FailureIn, Connected, RetryDue
<1>8. Counted'
  BY <1>2 DEF WatchIInv, Counted
<1>9. Reported'
  BY <1>2 DEF WatchIInv, Reported, Connects, Waits
<1> QED
  BY <1>4, <1>5, <1>6, <1>7, <1>8, <1>9 DEF WatchIInv

-----------------------------------------------------------------------------
(* The steps of the watch keep the invariant. *)

\* The initial states satisfy it.
LEMMA WatchInitIInv == WatchInit => WatchIInv
<1> SUFFICES ASSUME WatchInit PROVE WatchIInv
  OBVIOUS
<1>1. /\ watch = [status |-> "stopped", topic |-> NoTopic, generation |-> 0,
                  retries |-> 0, error |-> NoError]
      /\ open = {} /\ up = {} /\ timers = {} /\ mail = {} /\ scheduled = 0 /\ reported = <<>>
  BY DEF WatchInit, Stopped, WatchState
<1>2. step \in {"implement", "review", "harden"}
  BY DEF WatchInit, Steps
<1>3. MaxRetries \in Nat
  BY WatchAssumption
<1>4. WatchType
  BY <1>1, <1>2 DEF WatchType
<1>5. Valid(step, watch)
  BY <1>1, <1>2, <1>3, ValidOf, WatchAssumption DEF ImplementValid, ReviewValid, HardenValid
<1>6. Held /\ News
  BY <1>1 DEF Held, News, Connects, Waits, LossIn, FailureIn
<1>7. Counted /\ Reported
  BY <1>1, <1>3 DEF Counted, Reported
<1> QED
  BY <1>4, <1>5, <1>6, <1>7 DEF WatchIInv

\* A call of the user keeps it.
LEMMA UserActsIInv ==
    ASSUME WatchIInv, NEW e \in UserEvents, UserActs(e)
    PROVE  WatchIInv'
<1>1. Handle(e) /\ mail' = mail /\ step' = step
  BY DEF UserActs, Handle
<1>2. ASSUME Nothing PROVE WatchIInv'
  BY <1>1, <1>2, NothingKeeps DEF LossIn, RetryDue, Nothing
<1>3. CASE e.kind = "subscribe"
  <2>1. ASSUME Subscribed(e.topic) PROVE WatchIInv'
    <3>1. 0 \in Nat /\ 0 <= MaxRetries
      BY WatchAssumption
    <3> QED
      BY <1>1, <2>1, <3>1, RestartedKeeps DEF Subscribed
  <2> QED
    BY <1>1, <1>2, <1>3, <2>1, SubscribeMoves
<1>4. CASE e.kind = "unsubscribe"
  BY <1>1, <1>2, <1>4, UnsubscribeMoves, UnsubscribedKeeps
<1> QED
  BY <1>3, <1>4 DEF UserEvents

\* A report that is handed over keeps it, whether it comes again or not.
LEMMA DeliverIInv ==
    ASSUME WatchIInv, NEW e \in mail, NEW again, Deliver(e, again)
    PROVE  WatchIInv'
<1> DEFINE g == watch.generation
<1>1. Handle(e) /\ step' = step /\ mail' \subseteq mail /\ mail \ {e} \subseteq mail'
  BY DEF Deliver, Handle
<1>2. /\ mail \subseteq Reports(step, 0..g) /\ g \in Nat /\ watch.retries \in Nat
      /\ watch.topic \in Topics \union {NoTopic}
      /\ step \in {"implement", "review", "harden"}
  BY DEF WatchIInv, WatchType
<1>3. ASSUME Nothing,
             ~(Connects /\ e.kind \in {"connection_lost", "connection_failed"} /\ e.generation = g),
             ~(Waits /\ e = RetryDue(g))
      PROVE  WatchIInv'
  <2>1. watch' = watch
    BY <1>3 DEF Nothing
  <2>2. Connects /\ LossIn(g) => LossIn(g)'
    BY <1>1, <1>3, <2>1 DEF LossIn
  <2>3. Waits /\ RetryDue(g) \in mail => RetryDue(g) \in mail'
    BY <1>1, <1>3
  <2> QED
    BY <1>1, <1>3, <2>2, <2>3, NothingKeeps
<1>4. CASE e.kind = "connected"
  <2>1. e # RetryDue(g)
    BY <1>4 DEF RetryDue
  <2>2. ASSUME Activated, e = Connected(g) PROVE WatchIInv'
    BY <1>1, <2>2, ActivatedKeeps
  <2> QED
    BY <1>1, <1>3, <1>4, <2>1, <2>2, ConnectedMoves
<1>5. CASE e.kind \in {"connection_lost", "connection_failed"}
  <2>1. e # RetryDue(g)
    BY <1>5 DEF RetryDue
  <2> QED
    BY <1>1, <1>3, <1>5, <2>1, LossMoves, DelayedKeeps, FailedKeeps
<1>6. CASE e.kind = "retry_due"
  <2>1. ASSUME Retried PROVE WatchIInv'
    <3>1. step # "implement" /\ watch.topic \in Topics
      BY <1>2, <1>6, <2>1, ValidOf DEF Reports, Retried, Waits, WatchIInv, ReviewValid, HardenValid
    <3>2. step = "harden" => watch.retries <= MaxRetries
      BY ValidOf, WatchAssumption DEF WatchIInv, HardenValid
    <3>3. scheduled' = watch.retries
      BY <2>1 DEF Retried, Waits, WatchIInv, Counted
    <3> QED
      BY <1>1, <1>2, <2>1, <3>1, <3>2, <3>3, RestartedKeeps DEF Retried
  <2>2. e = RetryDue(g) => e.generation = g
    BY DEF RetryDue
  <2> QED
    BY <1>1, <1>3, <1>6, <2>1, <2>2, RetryMoves
<1> QED
  BY <1>2, <1>4, <1>5, <1>6 DEF Reports

\* A connection that comes up keeps it.
LEMMA ComesUpIInv ==
    ASSUME WatchIInv, NEW c \in open \ up, ComesUp(c)
    PROVE  WatchIInv'
<1> DEFINE g == watch.generation
<1>1. c = g /\ Connects /\ g \in open \ up /\ g \in Nat
  BY DEF WatchIInv, WatchType, Held
<1>2. /\ mail' = mail \union {Connected(g)} /\ up' = up \union {g}
      /\ UNCHANGED <<open, timers, step, watch, scheduled, reported>>
  BY <1>1 DEF ComesUp, Post, Connected
<1>3. Connected(g) \in Reports(step, 0..g)
  BY <1>1 DEF Reports, Connected
<1>4. WatchType' /\ Valid(step, watch)'
  BY <1>2, <1>3 DEF WatchIInv, WatchType
<1>5. LossIn(g) => LossIn(g)'
  BY <1>2 DEF LossIn
<1>6. Held'
  BY <1>1, <1>2, <1>5 DEF WatchIInv, Held, Connects, Waits
<1>7. ~LossIn(g)
  BY <1>1 DEF WatchIInv, News
<1>8. ~LossIn(g)' /\ ~FailureIn(g)'
  BY <1>2, <1>7 DEF LossIn, FailureIn, Connected
<1>9. RetryDue(g) \notin mail'
  BY <1>1, <1>2 DEF WatchIInv, News, Connects, RetryDue, Connected
<1>10. News'
  BY <1>2, <1>8, <1>9 DEF News, RetryDue
<1>11. Counted' /\ Reported'
  BY <1>2 DEF WatchIInv, Counted, Reported, Connects, Waits
<1> QED
  BY <1>4, <1>6, <1>10, <1>11 DEF WatchIInv

\* A connection that is lost, or that fails to open, keeps it: the news is in the mail.
LEMMA BreaksIInv ==
    ASSUME WatchIInv, NEW c \in open, NEW e \in Losses(c), Breaks(c, e)
    PROVE  WatchIInv'
<1> DEFINE g == watch.generation
<1>1. c = g /\ Connects /\ g \in open /\ g \in Nat /\ open \subseteq {g} /\ up \subseteq open
  BY DEF WatchIInv, WatchType, Held
<1>2. /\ mail' = mail \union {e} /\ open' = {} /\ up' = {}
      /\ UNCHANGED <<timers, step, watch, scheduled, reported>>
  BY <1>1 DEF Breaks, Post
<1>3. /\ e \in Reports(step, {g}) /\ e.kind \in {"connection_lost", "connection_failed"}
      /\ e.kind = "connection_failed" => g \notin up
  BY <1>1 DEF Losses, LossOf
<1>4. e \in Reports(step, 0..g) /\ e.generation = g
  BY <1>1, <1>3 DEF Reports
<1>5. WatchType' /\ Valid(step, watch)'
  BY <1>2, <1>4 DEF WatchIInv, WatchType
<1>6. LossIn(g)'
  BY <1>2, <1>3, <1>4 DEF LossIn
<1>7. Held'
  BY <1>1, <1>2, <1>6 DEF WatchIInv, Held, Connects, Waits
<1>8. RetryDue(g) \notin mail'
  BY <1>1, <1>2, <1>3 DEF WatchIInv, News, Connects, RetryDue
<1>9. FailureIn(g)' => Connected(g) \notin mail' /\ watch.status # "active"
  <2>1. ~FailureIn(g)
    BY <1>1 DEF WatchIInv, News, LossIn, FailureIn
  <2>2. CASE e.kind = "connection_failed"
    BY <1>1, <1>2, <1>3, <2>2 DEF WatchIInv, News, Connected
  <2>3. CASE e.kind = "connection_lost"
    BY <1>2, <2>1, <2>3 DEF FailureIn
  <2> QED
    BY <1>3, <2>2, <2>3
<1>10. News'
  BY <1>2, <1>8, <1>9 DEF News, Connected, RetryDue
<1>11. Counted' /\ Reported'
  BY <1>2 DEF WatchIInv, Counted, Reported, Connects, Waits
<1> QED
  BY <1>5, <1>7, <1>10, <1>11 DEF WatchIInv

\* A timer that fires keeps it.
LEMMA FiresIInv ==
    ASSUME WatchIInv, NEW c \in timers, Fires(c)
    PROVE  WatchIInv'
<1> DEFINE g == watch.generation
<1>1. c = g /\ Waits /\ g \in Nat /\ timers \subseteq {g} /\ open = {} /\ up = {}
  BY DEF WatchIInv, WatchType, Held, Connects, Waits
<1>2. /\ mail' = mail \union {RetryDue(g)} /\ timers' = {}
      /\ UNCHANGED <<open, up, step, watch, scheduled, reported>>
  BY <1>1 DEF Fires, Post, RetryDue
<1>3. step \in {"review", "harden"}
  BY <1>1, ValidOf DEF WatchIInv, WatchType, ImplementValid, Waits
<1>4. RetryDue(g) \in Reports(step, 0..g)
  <2>1. RetryDue(g) \in [kind : {"connection_lost", "retry_due"}, generation : 0..g]
    BY <1>1 DEF RetryDue
  <2> QED
    BY <1>3, <2>1, Zenon DEF Reports
<1>5. WatchType' /\ Valid(step, watch)'
  BY <1>2, <1>4 DEF WatchIInv, WatchType
<1>6. Held'
  BY <1>1, <1>2 DEF Held, Connects, Waits, RetryDue
<1>7. FailureIn(g)' => FailureIn(g)
  BY <1>2 DEF FailureIn, RetryDue
<1>8. News'
  BY <1>1, <1>2, <1>7 DEF WatchIInv, News, Connected, RetryDue, Waits
<1>9. Counted' /\ Reported'
  BY <1>2 DEF WatchIInv, Counted, Reported, Connects, Waits
<1> QED
  BY <1>5, <1>6, <1>8, <1>9 DEF WatchIInv

\* Where the watch rests, so does its invariant.
LEMMA WatchRests == WatchIInv /\ UNCHANGED watchVars => WatchIInv'
BY DEF watchVars, WatchIInv, WatchType, Held, News, Counted, Reported, Connects, Waits,
       LossIn, FailureIn, Connected, RetryDue

\* No step of the watch breaks its invariant.
LEMMA WatchNextIInv == WatchIInv /\ [WatchNext]_watchVars => WatchIInv'
<1> SUFFICES ASSUME WatchIInv, [WatchNext]_watchVars PROVE WatchIInv'
  OBVIOUS
<1>1. ASSUME NEW e \in UserEvents, UserActs(e) PROVE WatchIInv'
  BY <1>1, UserActsIInv
<1>2. ASSUME NEW e \in mail, NEW again \in BOOLEAN, Deliver(e, again) PROVE WatchIInv'
  BY <1>2, DeliverIInv
<1>3. ASSUME NEW c \in open \ up, ComesUp(c) PROVE WatchIInv'
  BY <1>3, ComesUpIInv
<1>4. ASSUME NEW c \in open, NEW e \in Losses(c), Breaks(c, e) PROVE WatchIInv'
  BY <1>4, BreaksIInv
<1>5. ASSUME NEW c \in timers, Fires(c) PROVE WatchIInv'
  BY <1>5, FiresIInv
<1>6. CASE UNCHANGED watchVars
  BY <1>6, WatchRests
<1> QED
  BY <1>1, <1>2, <1>3, <1>4, <1>5, <1>6 DEF WatchNext

\* The loss that the invariant finds in the mail is one the runtime tells.
LEMMA HeldMeans == WatchIInv => RuntimeHoldsTheState
<1> SUFFICES ASSUME WatchIInv PROVE RuntimeHoldsTheState
  OBVIOUS
<1> DEFINE g == watch.generation
<1>1. ASSUME LossIn(g) PROVE LossOf(g) \intersect mail # {}
  <2>1. PICK e \in mail : e.kind \in {"connection_lost", "connection_failed"} /\ e.generation = g
    BY <1>1 DEF LossIn
  <2>2. e \in Reports(step, 0..g)
    BY DEF WatchIInv, WatchType
  <2>3. e \in Reports(step, {g})
    BY <2>1, <2>2 DEF Reports
  <2> QED
    BY <2>1, <2>3 DEF LossOf
<1> QED
  BY <1>1 DEF WatchIInv, Held, RuntimeHoldsTheState, Connects, Waits, RetryDue

\* The counts of the invariant are those of the property.
LEMMA CountedMeans == WatchIInv => FailuresEnd
BY DEF WatchIInv, Counted, Reported, FailuresEnd

-----------------------------------------------------------------------------
(* The alternate solutions of the watch. *)

\* Appending a connection is putting it behind what comes before.
LEMMA Appended ==
    ASSUME NEW x, NEW d
    PROVE  Append(<<>>, x) = <<>> \o <<x>> /\ Append(<<d>>, x) = <<d>> \o <<x>>
<1>1. <<>> \in Seq({d, x}) /\ <<d>> \in Seq({d, x}) /\ x \in {d, x}
  OBVIOUS
<1> QED
  BY <1>1, AppendIsConcat

\* A new connection is the same, however its state is put together.
LEMMA ConnectAgrees ==
    ASSUME NEW topic, NEW before, NEW g, before = <<>> \/ \E d : before = <<d>>
    PROVE  Connect(topic, g, 0, before) =
               Go([Stopped(g) EXCEPT !.status = "connecting", !.topic = topic],
                  Append(before, Effect("connect", g, topic)))
<1>1. [Stopped(g) EXCEPT !.status = "connecting", !.topic = topic] =
          WatchState("connecting", topic, g, 0, NoError)
  <2> DEFINE r == [Stopped(g) EXCEPT !.status = "connecting", !.topic = topic]
  <2>1. r \in [status : {"connecting"}, topic : {topic}, generation : {g}, retries : {0},
              error : {NoError}]
    BY DEF Stopped, WatchState
  <2> HIDE DEF r
  <2>2. r = WatchState("connecting", topic, g, 0, NoError)
    BY <2>1 DEF WatchState
  <2> QED
    BY <2>2 DEF r
<1>2. Append(before, Effect("connect", g, topic)) = before \o <<Effect("connect", g, topic)>>
  BY Appended, Zenon
<1> QED
  BY <1>1, <1>2 DEF Connect, Go

\* A state that waits, or that failed, is the same, however it is put together.
LEMMA WaitingAgrees ==
    ASSUME WatchType, watch.error = NoError
    PROVE  WatchState("waiting", watch.topic, watch.generation, watch.retries + 1, NoError) =
               [watch EXCEPT !.status = "waiting", !.retries = @ + 1]
<1> DEFINE r == [watch EXCEPT !.status = "waiting", !.retries = @ + 1]
<1>1. r \in [status : {"waiting"}, topic : {watch.topic}, generation : {watch.generation},
            retries : {watch.retries + 1}, error : {NoError}]
  BY DEF WatchType
<1> HIDE DEF r
<1>2. r = WatchState("waiting", watch.topic, watch.generation, watch.retries + 1, NoError)
  BY <1>1 DEF WatchState
<1> QED
  BY <1>2 DEF r

LEMMA FailedAgrees ==
    ASSUME WatchType, NEW error
    PROVE  WatchState("failed", watch.topic, watch.generation, watch.retries, error) =
               [watch EXCEPT !.status = "failed", !.error = error]
<1> DEFINE r == [watch EXCEPT !.status = "failed", !.error = error]
<1>1. r \in [status : {"failed"}, topic : {watch.topic}, generation : {watch.generation},
            retries : {watch.retries}, error : {error}]
  BY DEF WatchType
<1> HIDE DEF r
<1>2. r = WatchState("failed", watch.topic, watch.generation, watch.retries, error)
  BY <1>1 DEF WatchState
<1> QED
  BY <1>2 DEF r

\* One step's two solutions give one answer.
LEMMA ImplementAgrees ==
    ASSUME NEW e \in Events("implement", 0..watch.generation), WatchType, ImplementValid(watch)
    PROVE  ImplementOracle(watch, e) = ImplementAlternate(watch, e)
<1>1. e.kind \in {"subscribe", "unsubscribe", "connected"}
  BY DEF Events, UserEvents, Reports
<1> USE DEF ImplementOracle, ImplementAlternate, ImplementValid, Stay, Go
<1>2. CASE e.kind = "subscribe"
  <2>1. CASE e.topic = watch.topic
    BY <1>2, <2>1
  <2>2. CASE e.topic # watch.topic
    <3> DEFINE before == IF watch.status = "stopped" THEN <<>>
                         ELSE <<Effect("disconnect", watch.generation, watch.topic)>>
    <3>1. before = <<>> \/ \E d : before = <<d>>
      OBVIOUS
    <3>2. Connect(e.topic, watch.generation + 1, 0, before) =
              Go([Stopped(watch.generation + 1) EXCEPT !.status = "connecting", !.topic = e.topic],
                 Append(before, Effect("connect", watch.generation + 1, e.topic)))
      BY <3>1, ConnectAgrees
    <3> QED
      BY <1>2, <2>2, <3>2 DEF Go
  <2> QED
    BY <2>1, <2>2
<1>3. CASE e.kind = "unsubscribe"
  BY <1>3 DEF Stopped
<1>4. CASE e.kind = "connected"
  BY <1>4 DEF Activate, Matches, WatchState, WatchType
<1> QED
  BY <1>1, <1>2, <1>3, <1>4

\* The second step's two solutions give one answer.
LEMMA ReviewAgrees ==
    ASSUME NEW e \in Events("review", 0..watch.generation), WatchType, ReviewValid(watch)
    PROVE  ReviewOracle(watch, e) = ReviewAlternate(watch, e)
<1>1. e.kind \in {"subscribe", "unsubscribe", "connected", "connection_lost", "retry_due"}
  BY DEF Events, UserEvents, Reports
<1> USE DEF ReviewOracle, ReviewAlternate, ReviewValid, Stay, Go
<1>2. CASE e.kind = "subscribe"
  <2>1. CASE e.topic = watch.topic
    BY <1>2, <2>1
  <2>2. CASE e.topic # watch.topic
    <3> DEFINE before == IF watch.status = "stopped" THEN <<>> ELSE StopEffect(watch)
    <3>1. before = <<>> \/ \E d : before = <<d>>
      BY DEF StopEffect
    <3>2. Connect(e.topic, watch.generation + 1, 0, before) =
              Go([Stopped(watch.generation + 1) EXCEPT !.status = "connecting", !.topic = e.topic],
                 Append(before, Effect("connect", watch.generation + 1, e.topic)))
      BY <3>1, ConnectAgrees
    <3> QED
      BY <1>2, <2>2, <3>2 DEF Go, StopEffect, StopAlternate
  <2> QED
    BY <2>1, <2>2
<1>3. CASE e.kind = "unsubscribe"
  BY <1>3 DEF Stopped, StopEffect, StopAlternate
<1>4. CASE e.kind = "connected"
  BY <1>4 DEF Activate, Matches, WatchState, WatchType
<1>5. CASE e.kind = "connection_lost"
  BY <1>5, WaitingAgrees DEF Matches
<1>6. CASE e.kind = "retry_due"
  <2>1. Connect(watch.topic, e.generation + 1, watch.retries, <<>>) =
            Go(WatchState("connecting", watch.topic, e.generation + 1, watch.retries, NoError),
               <<Effect("connect", e.generation + 1, watch.topic)>>)
    BY DEF Connect
  <2> QED
    BY <1>6, <2>1 DEF Reconnect, Matches, WatchState, WatchType
<1> QED
  BY <1>1, <1>2, <1>3, <1>4, <1>5, <1>6

\* The bounded retry is the same, whether the bound is passed or met.
LEMMA RetryAgrees ==
    ASSUME WatchType, HardenValid(watch), watch.status \in {"connecting", "active"}, NEW error
    PROVE  RetryOrFail(watch, watch.generation, error) = RetryAlternate(watch, error)
<1> DEFINE waiting == WatchState("waiting", watch.topic, watch.generation, watch.retries + 1, NoError)
           failed == WatchState("failed", watch.topic, watch.generation, watch.retries, error)
<1>1. waiting = [watch EXCEPT !.status = "waiting", !.retries = @ + 1]
  BY WaitingAgrees DEF HardenValid
<1>2. failed = [watch EXCEPT !.status = "failed", !.error = error]
  BY FailedAgrees
<1>3. (error \notin Retryable \/ watch.retries >= MaxRetries)
         <=> ~(error \in Retryable /\ watch.retries # MaxRetries)
  BY WatchAssumption DEF HardenValid
<1> QED
  BY <1>1, <1>2, <1>3 DEF RetryOrFail, RetryAlternate

\* The last step's two solutions give one answer.
LEMMA HardenAgrees ==
    ASSUME NEW e \in Events("harden", 0..watch.generation), WatchType, HardenValid(watch)
    PROVE  HardenOracle(watch, e) = HardenAlternate(watch, e)
<1>1. e.kind \in {"subscribe", "unsubscribe", "connected", "connection_lost", "connection_failed",
                  "retry_due"}
  BY DEF Events, UserEvents, Reports
<1> USE DEF HardenOracle, HardenAlternate, HardenValid, Stay, Go
<1>2. CASE e.kind = "subscribe"
  <2>1. CASE e.topic = watch.topic /\ watch.status # "failed"
    BY <1>2, <2>1
  <2>2. CASE e.topic # watch.topic \/ watch.status = "failed"
    <3> DEFINE before == IF watch.status \in {"stopped", "failed"} THEN <<>> ELSE StopEffect(watch)
    <3>1. before = <<>> \/ \E d : before = <<d>>
      BY DEF StopEffect
    <3>2. Connect(e.topic, watch.generation + 1, 0, before) =
              Go([Stopped(watch.generation + 1) EXCEPT !.status = "connecting", !.topic = e.topic],
                 Append(before, Effect("connect", watch.generation + 1, e.topic)))
      BY <3>1, ConnectAgrees
    <3> QED
      BY <1>2, <2>2, <3>2 DEF Go, StopEffect, StopAlternate
  <2> QED
    BY <2>1, <2>2
<1>3. CASE e.kind = "unsubscribe"
  BY <1>3 DEF Stopped, StopEffect, StopAlternate
<1>4. CASE e.kind = "connected"
  BY <1>4 DEF Activate, Matches, WatchState, WatchType
<1>5. CASE e.kind \in {"connection_lost", "connection_failed"}
  BY <1>5, RetryAgrees DEF Matches
<1>6. CASE e.kind = "retry_due"
  <2>1. Connect(watch.topic, e.generation + 1, watch.retries, <<>>) =
            Go(WatchState("connecting", watch.topic, e.generation + 1, watch.retries, NoError),
               <<Effect("connect", e.generation + 1, watch.topic)>>)
    BY DEF Connect
  <2> QED
    BY <1>6, <2>1 DEF Reconnect, Matches, WatchState, WatchType
<1> QED
  BY <1>1, <1>2, <1>3, <1>4, <1>5, <1>6

\* The second step answers what the first could be asked as the first did.
LEMMA ReviewKeeps ==
    ASSUME NEW e \in Events("implement", 0..watch.generation), WatchType, ImplementValid(watch)
    PROVE  ImplementOracle(watch, e) = ReviewOracle(watch, e)
<1>1. e.kind \in {"subscribe", "unsubscribe", "connected"}
  BY DEF Events, UserEvents, Reports
<1> QED
  BY <1>1 DEF ImplementOracle, ReviewOracle, ImplementValid, StopEffect

\* The last step answers what the second could be asked as the second did, below the bound.
LEMMA HardenKeeps ==
    ASSUME NEW e \in Events("review", 0..watch.generation), WatchType, ReviewValid(watch),
           watch.retries < MaxRetries
    PROVE  ReviewOracle(watch, e) = HardenOracle(watch, e)
<1>1. e.kind \in {"subscribe", "unsubscribe", "connected", "connection_lost", "retry_due"}
  BY DEF Events, UserEvents, Reports
<1>2. watch.status \in {"stopped", "connecting", "active", "waiting"}
  BY DEF ReviewValid
<1>3. RetryOrFail(watch, e.generation, "transient") =
          LET waiting == WatchState("waiting", watch.topic, e.generation, watch.retries + 1, NoError)
          IN  Go(waiting, ScheduleRetry(waiting))
  BY WatchAssumption DEF RetryOrFail, Retryable, WatchType
<1> QED
  BY <1>1, <1>2, <1>3 DEF ReviewOracle, HardenOracle

\* The solutions of the watch agree in every state of the invariant.
LEMMA WatchAgrees == WatchIInv => WatchSolutionsAgree
<1> SUFFICES ASSUME WatchIInv PROVE WatchSolutionsAgree
  OBVIOUS
<1> DEFINE all == 0..watch.generation
<1>1. WatchType /\ Valid(step, watch) /\ step \in {"implement", "review", "harden"}
  BY DEF WatchIInv, WatchType
<1>2. ASSUME NEW e \in Events(step, all) PROVE Oracle(step, watch, e) = Alternate(step, watch, e)
  <2>1. CASE step = "implement"
    BY <1>1, <1>2, <2>1, ValidOf, ImplementAgrees DEF Oracle, Alternate
  <2>2. CASE step = "review"
    BY <1>1, <1>2, <2>2, ValidOf, ReviewAgrees DEF Oracle, Alternate
  <2>3. CASE step = "harden"
    BY <1>1, <1>2, <2>3, ValidOf, HardenAgrees DEF Oracle, Alternate
  <2> QED
    BY <1>1, <2>1, <2>2, <2>3
<1>3. Events("implement", all) \subseteq Events("review", all)
  BY DEF Events, Reports
<1>4. ASSUME NEW n \in DOMAIN Steps, NEW m \in DOMAIN Steps,
             n < m, step = Steps[m], Valid(Steps[n], watch), watch.retries < MaxRetries,
             NEW e \in Events(Steps[n], all)
      PROVE  Oracle(Steps[n], watch, e) = Oracle(step, watch, e)
  <2>1. /\ DOMAIN Steps = 1..3
        /\ Steps[1] = "implement" /\ Steps[2] = "review" /\ Steps[3] = "harden"
    BY DEF Steps
  <2>2. CASE n = 1 /\ m = 2
    BY <1>1, <1>4, <2>1, <2>2, ValidOf, ReviewKeeps DEF Oracle
  <2>3. CASE n = 2 /\ m = 3
    BY <1>1, <1>4, <2>1, <2>3, ValidOf, HardenKeeps DEF Oracle
  <2>4. CASE n = 1 /\ m = 3
    <3>1. ImplementValid(watch) /\ HardenValid(watch) /\ e \in Events("implement", all)
      BY <1>1, <1>4, <2>1, <2>4, ValidOf
    <3>2. ReviewValid(watch)
      BY <1>1, <3>1 DEF ImplementValid, HardenValid, ReviewValid, WatchType
    <3>3. ImplementOracle(watch, e) = ReviewOracle(watch, e)
      BY <1>1, <3>1, ReviewKeeps
    <3>4. ReviewOracle(watch, e) = HardenOracle(watch, e)
      BY <1>1, <1>3, <1>4, <3>1, <3>2, HardenKeeps
    <3> QED
      BY <1>4, <2>1, <2>4, <3>3, <3>4 DEF Oracle
  <2> QED
    BY <1>4, <2>1, <2>2, <2>3, <2>4
<1> QED
  BY <1>2, <1>4 DEF WatchSolutionsAgree

-----------------------------------------------------------------------------
(* Leases. *)

\* Who relies on the lease now is the owner the store knows, until the expiry it knows.
Relying(o) ==
    until[o] > clock => lease # NoLease /\ lease.owner = o /\ lease.expires_at = until[o]

LeasesIInv ==
    /\ clock \in Nat
    /\ lease \in [owner : Owners \union {"nobody"}, expires_at : Nat]
    /\ seen \in [Owners -> 0..clock]
    /\ until \in [Owners -> Nat]
    /\ \A o \in Owners : Relying(o)

\* The initial states satisfy the invariant.
LEMMA LeasesInitIInv == LeasesInit => LeasesIInv
BY SMT DEF LeasesInit, LeasesIInv, Relying, NoLease

\* What acquire and renew share: nothing is granted while somebody else relies on the lease.
Careful(o, ttl, answer) ==
    \/ answer = Answer(FALSE, lease)
    \/ /\ answer = Answer(TRUE, Lease(o, seen[o] + ttl))
       /\ lease = NoLease \/ lease.owner = o \/ lease.expires_at <= seen[o]

\* Who acquires a lease finds it free.
LEMMA AcquireCareful ==
    ASSUME NEW o, NEW ttl, lease.expires_at \in Int, seen[o] \in Int
    PROVE  Careful(o, ttl, Acquire(lease, o, seen[o], ttl))
BY SMT DEF Careful, Acquire, Answer

\* Who renews it holds it.
LEMMA RenewCareful ==
    ASSUME NEW o, NEW ttl
    PROVE  Careful(o, ttl, Renew(o, ttl))
BY SMT DEF Careful, Renew, ReviewRenew, ImplementRenew, Answer

\* No call of an owner breaks the invariant.
LEMMA CallIInv ==
    ASSUME LeasesIInv, NEW o \in Owners, NEW ttl \in Ttls, NEW answer,
           Careful(o, ttl, answer), Call(o, ttl, answer)
    PROVE  LeasesIInv'
<1> USE DEF LeasesIInv
<1>1. ttl \in Nat /\ ttl > 0
  BY LeasesAssumption
<1>2. CASE answer = Answer(FALSE, lease)
  BY <1>2 DEF Call, Answer, Relying
<1>3. CASE /\ answer = Answer(TRUE, Lease(o, seen[o] + ttl))
           /\ lease = NoLease \/ lease.owner = o \/ lease.expires_at <= seen[o]
  <2>1. /\ lease' = [owner |-> o, expires_at |-> seen[o] + ttl]
        /\ until' = [until EXCEPT ![o] = seen[o] + ttl]
        /\ UNCHANGED <<clock, seen>>
    BY <1>3 DEF Call, Answer, Lease
  <2>2. seen[o] \in 0..clock /\ seen[o] + ttl \in Nat
    BY <1>1
  <2>3. Relying(o)'
    BY <1>1, <2>1, <2>2 DEF Relying, NoLease
  <2>4. ASSUME NEW p \in Owners, p # o PROVE until[p] <= clock
    BY <1>3, <2>2, <2>4 DEF Relying
  <2>5. ASSUME NEW p \in Owners, p # o PROVE Relying(p)'
    <3>1. until'[p] = until[p] /\ until[p] <= clock /\ until[p] \in Nat
      BY <2>1, <2>4, <2>5
    <3> QED
      BY <2>1, <3>1 DEF Relying
  <2>6. /\ lease' \in [owner : Owners \union {"nobody"}, expires_at : Nat]
        /\ until' \in [Owners -> Nat]
        /\ clock' \in Nat /\ seen' \in [Owners -> 0..clock']
    BY <2>1, <2>2
  <2> QED
    BY <2>3, <2>5, <2>6
<1> QED
  BY <1>2, <1>3 DEF Careful

\* No step breaks it.
LEMMA LeasesNextIInv == LeasesIInv /\ [LeasesNext]_leaseVars => LeasesIInv'
<1> SUFFICES ASSUME LeasesIInv, [LeasesNext]_leaseVars PROVE LeasesIInv'
  OBVIOUS
<1>1. CASE Tick
  <2>1. clock' = clock + 1 /\ UNCHANGED <<lease, seen, until>>
    BY <1>1 DEF Tick
  <2>2. \A o \in Owners : Relying(o)'
    BY <2>1, SMT DEF LeasesIInv, Relying
  <2> QED
    BY <2>1, <2>2, SMT DEF LeasesIInv
<1>2. ASSUME NEW o \in Owners, Look(o) PROVE LeasesIInv'
  BY <1>2, SMT DEF Look, LeasesIInv, Relying
<1>3. ASSUME NEW o \in Owners, NEW ttl \in Ttls,
             Call(o, ttl, Acquire(lease, o, seen[o], ttl))
      PROVE  LeasesIInv'
  <2>1. lease.expires_at \in Int /\ seen[o] \in Int
    BY DEF LeasesIInv
  <2> QED
    BY <1>3, <2>1, AcquireCareful, CallIInv
<1>4. ASSUME NEW o \in Owners, NEW ttl \in Ttls, Call(o, ttl, Renew(o, ttl)) PROVE LeasesIInv'
  BY <1>4, RenewCareful, CallIInv
<1>5. CASE UNCHANGED leaseVars
  BY <1>5 DEF leaseVars, LeasesIInv, Relying
<1> QED
  BY <1>1, <1>2, <1>3, <1>4, <1>5 DEF LeasesNext


-----------------------------------------------------------------------------
(* Pages: the order of events. *)

\* Newer is a strict order, and total on events with ids of their own.
LEMMA NewerOrders ==
    ASSUME NEW a \in AllEvents, NEW b \in AllEvents, NEW c \in AllEvents
    PROVE  /\ ~Newer(a, a)
           /\ Newer(a, b) => ~Newer(b, a)
           /\ Newer(a, b) /\ Newer(b, c) => Newer(a, c)
           /\ a # b => Newer(a, b) \/ Newer(b, a)
BY PagesAssumption DEF Newer

\* The newer of two events has fewer events before it, and everyone has fewer than all.
LEMMA RanksGrow ==
    ASSUME NEW S \in SUBSET AllEvents, NEW b \in S
    PROVE  /\ IsFiniteSet(NewerIn(S, b)) /\ Cardinality(NewerIn(S, b)) \in Nat
           /\ Cardinality(NewerIn(S, b)) < Cardinality(S)
           /\ \A a \in S : Newer(a, b) => Cardinality(NewerIn(S, a)) < Cardinality(NewerIn(S, b))
<1>1. IsFiniteSet(S)
  BY PagesAssumption, FS_Subset
<1>2. NewerIn(S, b) \subseteq S /\ b \notin NewerIn(S, b)
  BY NewerOrders DEF NewerIn
<1>3. /\ IsFiniteSet(NewerIn(S, b)) /\ Cardinality(NewerIn(S, b)) <= Cardinality(S)
      /\ Cardinality(NewerIn(S, b)) # Cardinality(S)
  BY <1>1, <1>2, FS_Subset
<1>4. Cardinality(NewerIn(S, b)) \in Nat /\ Cardinality(S) \in Nat
  BY <1>1, <1>3, FS_CardinalityType
<1>5. ASSUME NEW a \in S, Newer(a, b)
      PROVE  Cardinality(NewerIn(S, a)) < Cardinality(NewerIn(S, b))
  <2>1. NewerIn(S, a) \subseteq NewerIn(S, b) /\ a \in NewerIn(S, b) /\ a \notin NewerIn(S, a)
    BY <1>5, NewerOrders DEF NewerIn
  <2>2. /\ IsFiniteSet(NewerIn(S, a))
        /\ Cardinality(NewerIn(S, a)) <= Cardinality(NewerIn(S, b))
        /\ Cardinality(NewerIn(S, a)) # Cardinality(NewerIn(S, b))
    BY <1>3, <2>1, FS_Subset
  <2>3. Cardinality(NewerIn(S, a)) \in Nat
    BY <2>2, FS_CardinalityType
  <2> QED
    BY <1>4, <2>2, <2>3
<1> QED
  BY <1>3, <1>4, <1>5

\* list_recent returns every event once, newest first.
LEMMA OrderedSorts ==
    ASSUME NEW S \in SUBSET AllEvents
    PROVE  /\ Ordered(S) \in Seq(S) /\ Len(Ordered(S)) = Cardinality(S)
           /\ \A n, m \in DOMAIN Ordered(S) : n < m => Newer(Ordered(S)[n], Ordered(S)[m])
           /\ \A e \in S : \E n \in DOMAIN Ordered(S) : Ordered(S)[n] = e
<1> DEFINE size == Cardinality(S)
           rank == [e \in S |-> Cardinality(NewerIn(S, e)) + 1]
<1>1. IsFiniteSet(S) /\ size \in Nat
  BY PagesAssumption, FS_Subset, FS_CardinalityType
<1>2. rank \in [S -> 1..size]
  BY <1>1, RanksGrow
<1>3. \A a, b \in S : Newer(a, b) => rank[a] < rank[b]
  BY RanksGrow
<1>4. \A a, b \in S : rank[a] = rank[b] => a = b
  <2> SUFFICES ASSUME NEW a \in S, NEW b \in S, rank[a] = rank[b], a # b PROVE FALSE
    OBVIOUS
  <2>1. Newer(a, b) \/ Newer(b, a)
    BY NewerOrders
  <2>2. rank[a] \in Nat /\ rank[b] \in Nat
    BY <1>2
  <2> QED
    BY <1>3, <2>1, <2>2
<1>5. IsFiniteSet(1..size) /\ Cardinality(1..size) = size
  <2>1. 1 \in Int /\ size \in Int
    BY <1>1
  <2>2. Cardinality(1..size) = IF 1 > size THEN 0 ELSE size - 1 + 1
    BY <2>1, FS_Interval
  <2> QED
    BY <1>1, <2>1, <2>2, FS_Interval
<1>6. rank \in Injection(S, 1..size)
  BY <1>2, <1>4 DEF Injection, IsInjective
<1>7. rank \in Surjection(S, 1..size)
  BY <1>5, <1>6, FS_Injection
<1>8. \A n \in 1..size : \E e \in S : rank[e] = n
  BY <1>7 DEF Surjection
<1>9. \A n \in 1..size : Ordered(S)[n] \in S /\ rank[Ordered(S)[n]] = n
  <2> SUFFICES ASSUME NEW n \in 1..size PROVE Ordered(S)[n] \in S /\ rank[Ordered(S)[n]] = n
    OBVIOUS
  <2>1. Ordered(S)[n] = CHOOSE e \in S : Cardinality(NewerIn(S, e)) = n - 1
    BY DEF Ordered
  <2>2. \E e \in S : Cardinality(NewerIn(S, e)) = n - 1
    <3>1. PICK e \in S : rank[e] = n
      BY <1>8
    <3>2. Cardinality(NewerIn(S, e)) \in Nat
      BY RanksGrow
    <3> QED
      BY <3>1, <3>2
  <2>3. Ordered(S)[n] \in S /\ Cardinality(NewerIn(S, Ordered(S)[n])) = n - 1
    BY <2>1, <2>2, Zenon
  <2> QED
    BY <2>3
<1>10. Ordered(S) \in [1..size -> S]
  BY <1>9 DEF Ordered
<1>11. Ordered(S) \in Seq(S) /\ Len(Ordered(S)) = size /\ DOMAIN Ordered(S) = 1..size
  BY <1>1, <1>10
<1> HIDE DEF rank
<1>12. ASSUME NEW n \in 1..size, NEW m \in 1..size, n < m
       PROVE  Newer(Ordered(S)[n], Ordered(S)[m])
  <2> DEFINE a == Ordered(S)[n]
             b == Ordered(S)[m]
  <2>1. a \in S /\ b \in S /\ rank[a] = n /\ rank[b] = m
    BY <1>9
  <2>2. ~Newer(b, a)
    BY <1>3, <1>12, <2>1
  <2>3. a # b
    BY <1>12, <2>1
  <2> QED
    BY <2>1, <2>2, <2>3, NewerOrders
<1>13. ASSUME NEW e \in S PROVE \E n \in 1..size : Ordered(S)[n] = e
  <2>1. rank[e] \in 1..size
    BY <1>2
  <2> QED
    BY <1>4, <1>9, <2>1
<1> QED
  BY <1>11, <1>12, <1>13

-----------------------------------------------------------------------------
(* Pages: where a page starts and what is on it. *)

\* An order as list_recent gives it: what the pages are cut from.
SortedSeq(s) ==
    /\ s \in Seq(AllEvents)
    /\ \A n, m \in DOMAIN s : n < m => Newer(s[n], s[m])

\* list_recent gives such an order.
LEMMA OrderedSorted ==
    ASSUME NEW S \in SUBSET AllEvents
    PROVE  SortedSeq(Ordered(S))
<1>1. Ordered(S) \in Seq(S)
  BY OrderedSorts
<1>2. Ordered(S) \in Seq(AllEvents)
  BY <1>1
<1> QED
  BY <1>2, OrderedSorts DEF SortedSeq

\* What the search for a cursor relies on: each event of the order has one of its own.
Names(cursors, s) ==
    /\ Len(cursors) = Len(s) /\ DOMAIN cursors = 1..Len(s)
    /\ \A n \in 1..Len(s) : cursors[n] # NoCursor
    /\ \A n, m \in 1..Len(s) : cursors[n] = cursors[m] => n = m

\* Cursors that hold the id, with whatever else, name the events.
LEMMA IdsName ==
    ASSUME NEW s, SortedSeq(s), NEW cursors, DOMAIN cursors = DOMAIN s,
           \A n \in DOMAIN s : cursors[n] # NoCursor,
           \A n, m \in DOMAIN s : cursors[n] = cursors[m] => s[n].id = s[m].id,
           cursors = [n \in DOMAIN s |-> cursors[n]]
    PROVE  Names(cursors, s)
<1>1. DOMAIN s = 1..Len(s) /\ Len(s) \in Nat /\ \A n \in DOMAIN s : s[n] \in AllEvents
  BY DEF SortedSeq
<1>2. ASSUME NEW n \in DOMAIN s, NEW m \in DOMAIN s, cursors[n] = cursors[m]
      PROVE  n = m
  <2>1. s[n] = s[m]
    BY <1>1, <1>2, PagesAssumption
  <2>2. ~Newer(s[n], s[m]) /\ ~Newer(s[m], s[n])
    BY <1>1, <2>1, NewerOrders
  <2>3. n < m \/ m < n \/ n = m
    BY <1>1
  <2> QED
    BY <2>2, <2>3 DEF SortedSeq
<1>3. Len(cursors) = Len(s)
  <2> DEFINE C == {cursors[n] : n \in DOMAIN s}
  <2>1. cursors \in [1..Len(s) -> C]
    BY <1>1
  <2> HIDE DEF C
  <2> QED
    BY <1>1, <2>1
<1> QED
  BY <1>1, <1>2, <1>3 DEF Names

\* The cursors of each of the four solutions do.
LEMMA CursorsName ==
    ASSUME NEW s, SortedSeq(s), NEW kind
    PROVE  /\ Names(ImplementCursors(s), s) /\ Names(ImplementAlternateCursors(s), s)
           /\ Names(ReviewCursors(s, kind), s) /\ Names(ReviewAlternateCursors(s, kind), s)
<1>1. Names(ImplementCursors(s), s)
  <2> DEFINE cursors == ImplementCursors(s)
  <2>1. /\ DOMAIN cursors = DOMAIN s /\ cursors = [n \in DOMAIN s |-> cursors[n]]
        /\ \A n \in DOMAIN s : cursors[n] = <<"object", s[n].created_at, s[n].id>>
    BY DEF ImplementCursors, ImplementCursor
  <2> HIDE DEF cursors
  <2>2. /\ \A n \in DOMAIN s : cursors[n] # NoCursor
        /\ \A n, m \in DOMAIN s : cursors[n] = cursors[m] => s[n].id = s[m].id
    BY <2>1 DEF NoCursor
  <2> QED
    BY <2>1, <2>2, IdsName DEF cursors
<1>2. Names(ImplementAlternateCursors(s), s)
  <2> DEFINE cursors == ImplementAlternateCursors(s)
  <2>1. /\ DOMAIN cursors = DOMAIN s /\ cursors = [n \in DOMAIN s |-> cursors[n]]
        /\ \A n \in DOMAIN s : cursors[n] = <<"list", s[n].created_at, s[n].id>>
    BY DEF ImplementAlternateCursors, ImplementAlternateCursor
  <2> HIDE DEF cursors
  <2>2. /\ \A n \in DOMAIN s : cursors[n] # NoCursor
        /\ \A n, m \in DOMAIN s : cursors[n] = cursors[m] => s[n].id = s[m].id
    BY <2>1 DEF NoCursor
  <2> QED
    BY <2>1, <2>2, IdsName DEF cursors
<1>3. Names(ReviewCursors(s, kind), s)
  <2> DEFINE cursors == ReviewCursors(s, kind)
  <2>1. /\ DOMAIN cursors = DOMAIN s /\ cursors = [n \in DOMAIN s |-> cursors[n]]
        /\ \A n \in DOMAIN s : cursors[n] = <<"object", s[n].created_at, s[n].id, kind>>
    BY DEF ReviewCursors, ReviewCursor
  <2> HIDE DEF cursors
  <2>2. /\ \A n \in DOMAIN s : cursors[n] # NoCursor
        /\ \A n, m \in DOMAIN s : cursors[n] = cursors[m] => s[n].id = s[m].id
    BY <2>1 DEF NoCursor
  <2> QED
    BY <2>1, <2>2, IdsName DEF cursors
<1>4. Names(ReviewAlternateCursors(s, kind), s)
  <2> DEFINE cursors == ReviewAlternateCursors(s, kind)
  <2>1. /\ DOMAIN cursors = DOMAIN s /\ cursors = [n \in DOMAIN s |-> cursors[n]]
        /\ \A n \in DOMAIN s : cursors[n] = <<"list", kind, s[n].created_at, s[n].id>>
    BY DEF ReviewAlternateCursors, ReviewAlternateCursor
  <2> HIDE DEF cursors
  <2>2. /\ \A n \in DOMAIN s : cursors[n] # NoCursor
        /\ \A n, m \in DOMAIN s : cursors[n] = cursors[m] => s[n].id = s[m].id
    BY <2>1 DEF NoCursor
  <2> QED
    BY <2>1, <2>2, IdsName DEF cursors
<1> QED
  BY <1>1, <1>2, <1>3, <1>4

\* The page after an event starts behind it.
LEMMA StartAfter ==
    ASSUME NEW s, SortedSeq(s), NEW cursors, Names(cursors, s), NEW n \in DOMAIN s
    PROVE  Start(cursors, cursors[n]) = n + 1
<1> DEFINE after == cursors[n]
           found == {i \in 1..Len(cursors) : cursors[i] = after}
<1>1. DOMAIN s = 1..Len(s) /\ n \in 1..Len(s) /\ n \in Nat
  BY DEF SortedSeq
<1>2. found = {n}
  BY <1>1 DEF Names
<1>3. Min({n}) = n
  BY <1>1 DEF Min
<1>4. SelectInSeq(cursors, LAMBDA c : c = after) = n
  BY <1>2, <1>3 DEF SelectInSeq
<1>5. after # NoCursor
  BY <1>1 DEF Names
<1> QED
  BY <1>1, <1>4, <1>5 DEF Start

\* The end of a page is the end of the events, or the limit away from its start.
LEMMA UptoBounds ==
    ASSUME NEW s, Len(s) \in Nat, Limit \in Nat, Limit >= 1,
           NEW start \in Nat, start >= 1, start <= Len(s) + 1
    PROVE  LET last == Upto(start + Limit - 1, s)
           IN  /\ last \in Int /\ last <= Len(s) /\ last >= start - 1
               /\ last < Len(s) <=> start + Limit - 1 < Len(s)
               /\ last < Len(s) => last = start + Limit - 1
BY DEF Upto

\* A page is a run of the order, full unless it is the last one, and its cursor is that of
\* its last event.
LEMMA PageCut ==
    ASSUME NEW s, SortedSeq(s), NEW cursors, Names(cursors, s),
           NEW after, Start(cursors, after) \in 1..Len(s) + 1
    PROVE  LET start == Start(cursors, after)
               page == PageOf(s, cursors, after)
               last == Upto(start + Limit - 1, s)
           IN  /\ page = Page(SubSeq(s, start, last), IF last < Len(s) THEN cursors[last] ELSE NoCursor)
               /\ page.items \in Seq(AllEvents)
               /\ Len(page.items) = last - start + 1
               /\ \A k \in 1..Len(page.items) : page.items[k] = s[start + k - 1]
               /\ page.next # NoCursor <=> start + Limit - 1 < Len(s)
               /\ page.next # NoCursor => page.next = cursors[start + Limit - 1]
<1> DEFINE start == Start(cursors, after)
           page == PageOf(s, cursors, after)
           last == Upto(start + Limit - 1, s)
           items == SubSeq(s, start, last)
           more == start + Len(items) - 1 < Len(s)
<1>1. start \in Nat /\ Limit \in Nat /\ Len(s) \in Nat /\ start >= 1 /\ start <= Len(s) + 1 /\ Limit >= 1
  BY PagesAssumption DEF SortedSeq
<1>2. \A i \in 1..Len(s) : s[i] \in AllEvents
  BY DEF SortedSeq
<1>3. page = Page(items, IF items # <<>> /\ more THEN cursors[start + Len(items) - 1] ELSE NoCursor)
  BY DEF PageOf
<1> HIDE DEF page, start
<1>4. /\ last \in Int /\ last <= Len(s) /\ last >= start - 1
      /\ last < Len(s) <=> start + Limit - 1 < Len(s)
      /\ last < Len(s) => last = start + Limit - 1
  BY <1>1, UptoBounds
<1> HIDE DEF last
<1>5. start \in Int /\ \A i \in start..last : s[i] \in AllEvents
  BY <1>1, <1>2, <1>4
<1>6. /\ items \in Seq(AllEvents)
      /\ Len(items) = IF start <= last THEN last - start + 1 ELSE 0
      /\ \A i \in 1..last - start + 1 : items[i] = s[start + i - 1]
  BY <1>4, <1>5, SubSeqProperties
<1> HIDE DEF items
<1>7. Len(items) = last - start + 1
  BY <1>1, <1>4, <1>6
<1>8. \A k \in 1..Len(items) : items[k] = s[start + k - 1]
  BY <1>6, <1>7
<1>9. more <=> last < Len(s)
  BY <1>1, <1>4, <1>7
<1>10. ASSUME last < Len(s) PROVE items # <<>> /\ start + Len(items) - 1 = last /\ last \in 1..Len(s)
  <2>1. Len(items) = Limit
    BY <1>1, <1>4, <1>7, <1>10
  <2> QED
    BY <1>1, <1>4, <1>7, <1>10, <2>1
<1> HIDE DEF more
<1>11. page = Page(items, IF last < Len(s) THEN cursors[last] ELSE NoCursor)
  BY <1>3, <1>9, <1>10
<1>12. page.items = items /\ page.next = IF last < Len(s) THEN cursors[last] ELSE NoCursor
  BY <1>11 DEF Page
<1>13. last < Len(s) => cursors[last] # NoCursor
  BY <1>10 DEF Names
<1>14. page.next # NoCursor <=> last < Len(s)
  BY <1>12, <1>13
<1>15. page.next # NoCursor => page.next = cursors[start + Limit - 1]
  BY <1>4, <1>12, <1>14
<1> QED
  BY <1>4, <1>6, <1>7, <1>8, <1>11, <1>12, <1>14, <1>15 DEF page, start, last, items

\* Where the page after a known cursor starts.
LEMMA StartKnown ==
    ASSUME NEW s, SortedSeq(s), NEW cursors, Names(cursors, s), NEW after, Known(cursors, after)
    PROVE  /\ Start(cursors, after) \in 1..Len(s) + 1
           /\ after = NoCursor => Start(cursors, after) = 1
           /\ after # NoCursor =>
                \E n \in DOMAIN s : after = cursors[n] /\ Start(cursors, after) = n + 1
<1>1. DOMAIN s = 1..Len(s) /\ Len(s) \in Nat /\ DOMAIN cursors = DOMAIN s
  BY DEF SortedSeq, Names
<1>2. CASE after = NoCursor
  BY <1>1, <1>2 DEF Start
<1>3. CASE after # NoCursor
  <2>1. PICK n \in DOMAIN s : cursors[n] = after
    BY <1>1, <1>3 DEF Known
  <2>2. Start(cursors, after) = n + 1
    BY <2>1, StartAfter
  <2> QED
    BY <1>1, <1>3, <2>1, <2>2
<1> QED
  BY <1>2, <1>3

-----------------------------------------------------------------------------
(* Pages: the inductive invariant. *)

PagesType ==
    /\ events \subseteq AllEvents /\ stayed \subseteq events
    /\ pages \in Nat
    /\ SortedSeq(read)
    /\ pages = 0 => read = <<>> /\ cursor = NoCursor

\* The cursor is the position of the last event read, and all pages so far were full.
Placed ==
    cursor # NoCursor =>
        /\ read # <<>> /\ cursor = ReviewCursor(read[Len(read)], filter)
        /\ Len(read) = Limit * pages

\* What stayed is read, or the cursor has yet to come to it.
Covered ==
    pages # 0 =>
        \A e \in Matching(stayed, filter) :
            e \in ToSet(read) \/ (cursor # NoCursor /\ Newer(read[Len(read)], e))

PagesIInv == PagesType /\ Placed /\ Covered

\* The initial states satisfy it.
LEMMA PagesInitIInv == PagesInit => PagesIInv
<1> SUFFICES ASSUME PagesInit PROVE PagesIInv
  OBVIOUS
<1>1. SortedSeq(<<>>)
  BY DEF SortedSeq
<1> QED
  BY <1>1 DEF PagesInit, PagesIInv, PagesType, Placed, Covered

\* An event that comes or goes between two pages keeps it.
LEMMA ChangeIInv ==
    ASSUME PagesIInv, NEW e \in AllEvents, Change(e)
    PROVE  PagesIInv'
<1>1. /\ UNCHANGED <<filter, cursor, pages, read>>
      /\ events' = IF e \in events THEN events \ {e} ELSE events \union {e}
      /\ stayed' = IF pages = 0 THEN events' ELSE stayed \ {e}
  BY DEF Change
<1>2. PagesType'
  BY <1>1 DEF PagesIInv, PagesType, SortedSeq
<1>3. Placed'
  BY <1>1 DEF PagesIInv, Placed
<1>4. Covered'
  BY <1>1 DEF PagesIInv, Covered, Matching
<1> QED
  BY <1>2, <1>3, <1>4 DEF PagesIInv

\* A page that is read keeps it.
LEMMA ReadPageIInv ==
    ASSUME PagesIInv, ReadPage
    PROVE  PagesIInv'
<1> DEFINE M == Matching(events, filter)
           s == Ordered(M)
           cursors == ReviewCursors(s, filter)
           start == Start(cursors, cursor)
           page == PageOf(s, cursors, cursor)
           items == page.items
<1>1. /\ read' = read \o items /\ cursor' = page.next /\ pages' = pages + 1
      /\ UNCHANGED <<events, filter, stayed>>
      /\ Known(cursors, cursor)
      /\ pages = 0 \/ cursor # NoCursor
  BY DEF ReadPage, Reading
<1>2. /\ events \subseteq AllEvents /\ stayed \subseteq events /\ pages \in Nat
      /\ read \in Seq(AllEvents) /\ SortedSeq(read)
      /\ Limit \in Nat /\ Limit >= 1
  BY PagesAssumption DEF PagesIInv, PagesType, SortedSeq
<1>3. M \in SUBSET AllEvents
  BY <1>2 DEF Matching
<1>4. /\ SortedSeq(s) /\ s \in Seq(AllEvents) /\ DOMAIN s = 1..Len(s) /\ Len(s) \in Nat
      /\ \A e \in M : \E n \in DOMAIN s : s[n] = e
  <2>1. SortedSeq(s)
    BY <1>3, OrderedSorted
  <2>2. \A e \in M : \E n \in DOMAIN s : s[n] = e
    BY <1>3, OrderedSorts
  <2> HIDE DEF s, M
  <2>3. s \in Seq(AllEvents) /\ DOMAIN s = 1..Len(s) /\ Len(s) \in Nat
    BY <2>1 DEF SortedSeq
  <2> QED
    BY <2>1, <2>2, <2>3
<1>a. Names(cursors, s) /\ \A n \in 1..Len(s) : cursors[n] = ReviewCursor(s[n], filter)
  <2> HIDE DEF s
  <2> QED
    BY <1>4, CursorsName DEF ReviewCursors
<1> HIDE DEF cursors
<1>5. start \in 1..Len(s) + 1
  BY <1>1, <1>4, <1>a, StartKnown
<1>6. /\ items \in Seq(AllEvents) /\ Len(items) \in Nat
      /\ Len(items) = IF start + Limit - 1 > Len(s) THEN Len(s) - start + 1 ELSE Limit
      /\ \A k \in 1..Len(items) : items[k] = s[start + k - 1]
      /\ page.next # NoCursor <=> start + Limit - 1 < Len(s)
      /\ page.next # NoCursor => page.next = ReviewCursor(items[Limit], filter)
  <2>1. /\ items \in Seq(AllEvents)
        /\ Len(items) = Upto(start + Limit - 1, s) - start + 1
        /\ \A k \in 1..Len(items) : items[k] = s[start + k - 1]
        /\ page.next # NoCursor <=> start + Limit - 1 < Len(s)
        /\ page.next # NoCursor => page.next = cursors[start + Limit - 1]
    BY <1>4, <1>5, <1>a, PageCut
  <2> HIDE DEF page, start, s
  <2>2. Len(items) = IF start + Limit - 1 > Len(s) THEN Len(s) - start + 1 ELSE Limit
    BY <1>2, <1>4, <1>5, <2>1 DEF Upto
  <2>3. Len(items) \in Nat
    BY <2>1
  <2>4. ASSUME page.next # NoCursor PROVE page.next = ReviewCursor(items[Limit], filter)
    <3>1. start + Limit - 1 \in 1..Len(s) /\ Limit \in 1..Len(items)
      BY <1>2, <1>4, <1>5, <2>1, <2>2, <2>4
    <3>2. items[Limit] = s[start + Limit - 1]
      BY <2>1, <3>1
    <3> QED
      BY <1>a, <2>1, <2>4, <3>1, <3>2
  <2> QED
    BY <2>1, <2>2, <2>3, <2>4
<1>b. /\ cursor = NoCursor => start = 1
      /\ cursor # NoCursor => \E n \in DOMAIN s : cursor = cursors[n] /\ start = n + 1
  <2> HIDE DEF s
  <2> QED
    BY <1>1, <1>4, <1>a, StartKnown
<1>7. /\ pages = 0 => read = <<>> /\ cursor = NoCursor
      /\ cursor = NoCursor => start = 1 /\ read = <<>>
      /\ cursor # NoCursor => /\ read # <<>> /\ cursor = ReviewCursor(read[Len(read)], filter)
                              /\ Len(read) = Limit * pages /\ pages # 0
  BY <1>1, <1>b DEF PagesIInv, PagesType, Placed
<1>8. ASSUME cursor # NoCursor
      PROVE  /\ start - 1 \in DOMAIN s /\ s[start - 1] = read[Len(read)]
             /\ Len(read) \in DOMAIN read
  <2> HIDE DEF s, start
  <2>1. PICK n \in DOMAIN s : cursor = ReviewCursor(s[n], filter) /\ start = n + 1
    BY <1>4, <1>8, <1>a, <1>b
  <2>2. Len(read) \in DOMAIN read /\ read[Len(read)] \in AllEvents
    BY <1>2, <1>7, <1>8
  <2>3. s[n].id = read[Len(read)].id
    BY <1>7, <1>8, <2>1 DEF ReviewCursor
  <2>4. s[n] \in AllEvents
    BY <1>4
  <2>5. s[n] = read[Len(read)]
    BY <2>2, <2>3, <2>4, PagesAssumption
  <2> QED
    BY <2>1, <2>2, <2>5
<1> HIDE DEF M, s, start, page
<1>9. /\ read' \in Seq(AllEvents) /\ Len(read') = Len(read) + Len(items)
      /\ \A i \in 1..Len(read) + Len(items) :
           read'[i] = IF i <= Len(read) THEN read[i] ELSE items[i - Len(read)]
  BY <1>1, <1>2, <1>6, ConcatProperties
<1>10. Len(read) \in Nat /\ DOMAIN read = 1..Len(read) /\ DOMAIN read' = 1..Len(read')
  BY <1>2, <1>9
<1>11. ASSUME NEW k \in 1..Len(items) PROVE start + k - 1 \in DOMAIN s
  BY <1>4, <1>5, <1>6
<1>12. ASSUME NEW k \in 1..Len(items), NEW i \in DOMAIN read PROVE Newer(read[i], items[k])
  <2>1. cursor # NoCursor
    BY <1>7, <1>10
  <2>2. Newer(s[start - 1], s[start + k - 1])
    <3>1. start - 1 \in DOMAIN s /\ start + k - 1 \in DOMAIN s /\ start - 1 < start + k - 1
      BY <1>5, <1>6, <1>8, <1>11, <2>1
    <3> QED
      BY <1>4, <3>1 DEF SortedSeq
  <2>3. i = Len(read) \/ Newer(read[i], read[Len(read)])
    BY <1>2, <1>8, <1>10, <2>1 DEF SortedSeq
  <2>4. read[i] \in AllEvents /\ read[Len(read)] \in AllEvents /\ s[start + k - 1] \in AllEvents
    BY <1>2, <1>4, <1>8, <1>11, <2>1
  <2> QED
    BY <1>6, <1>8, <2>1, <2>2, <2>3, <2>4, NewerOrders
<1>13. SortedSeq(read')
  <2> SUFFICES ASSUME NEW i \in DOMAIN read', NEW j \in DOMAIN read', i < j
               PROVE  Newer(read'[i], read'[j])
    BY <1>9 DEF SortedSeq
  <2>1. i \in Nat /\ j \in Nat /\ i >= 1 /\ j <= Len(read) + Len(items)
    BY <1>9, <1>10
  <2>2. CASE j <= Len(read)
    BY <1>2, <1>9, <1>10, <2>1, <2>2 DEF SortedSeq
  <2>3. CASE i <= Len(read) /\ j > Len(read)
    <3>1. i \in DOMAIN read /\ j - Len(read) \in 1..Len(items)
      BY <1>6, <1>10, <2>1, <2>3
    <3>2. read'[i] = read[i] /\ read'[j] = items[j - Len(read)]
      BY <1>6, <1>9, <1>10, <2>1, <2>3
    <3> QED
      BY <1>12, <3>1, <3>2
  <2>4. CASE i > Len(read)
    <3>1. i - Len(read) \in 1..Len(items) /\ j - Len(read) \in 1..Len(items)
      BY <1>6, <1>10, <2>1, <2>4
    <3>2. read'[i] = items[i - Len(read)]
      BY <1>6, <1>9, <1>10, <2>1, <2>4
    <3>3. read'[j] = items[j - Len(read)]
      BY <1>6, <1>9, <1>10, <2>1, <2>4
    <3>4. /\ read'[i] = s[start + (i - Len(read)) - 1] /\ read'[j] = s[start + (j - Len(read)) - 1]
          /\ start + (i - Len(read)) - 1 \in DOMAIN s /\ start + (j - Len(read)) - 1 \in DOMAIN s
      BY <1>6, <1>11, <3>1, <3>2, <3>3
    <3>5. start + (i - Len(read)) - 1 < start + (j - Len(read)) - 1
      BY <1>5, <1>10, <2>1
    <3> QED
      BY <1>4, <3>4, <3>5 DEF SortedSeq
  <2> QED
    BY <1>10, <2>1, <2>2, <2>3, <2>4
<1>14. PagesType'
  BY <1>1, <1>2, <1>13 DEF PagesType
<1>15. ASSUME cursor' # NoCursor
       PROVE  /\ Len(items) = Limit /\ Len(read') = Len(read) + Limit
              /\ read'[Len(read')] = items[Limit] /\ items[Limit] = s[start + Limit - 1]
              /\ start + Limit - 1 \in DOMAIN s
  <2>1. start + Limit - 1 < Len(s) /\ Len(items) = Limit /\ Limit \in 1..Len(items)
    BY <1>1, <1>2, <1>4, <1>5, <1>6, <1>15
  <2>2. Len(read') = Len(read) + Limit /\ read'[Len(read) + Limit] = items[Limit]
    BY <1>2, <1>9, <1>10, <2>1
  <2>3. items[Limit] = s[start + Limit - 1] /\ start + Limit - 1 \in DOMAIN s
    BY <1>2, <1>4, <1>5, <1>6, <2>1
  <2> QED
    BY <2>1, <2>2, <2>3
<1>16. Placed'
  <2> SUFFICES ASSUME cursor' # NoCursor
               PROVE  /\ read' # <<>> /\ cursor' = ReviewCursor(read'[Len(read')], filter)
                      /\ Len(read') = Limit * pages'
    BY <1>1 DEF Placed
  <2>1. Len(read) = Limit * pages
    <3>1. Limit * 0 = 0
      BY <1>2
    <3> QED
      BY <1>1, <1>7, <3>1
  <2>2. Limit * (pages + 1) = Limit * pages + Limit
    BY <1>2
  <2>3. Len(read') = Limit * pages'
    BY <1>1, <1>15, <2>1, <2>2
  <2>4. read' # <<>>
    BY <1>2, <1>9, <1>10, <1>15
  <2> QED
    BY <1>1, <1>6, <1>15, <2>3, <2>4
<1>17. Covered'
  <2> SUFFICES ASSUME NEW e \in Matching(stayed, filter)
               PROVE  e \in ToSet(read') \/ (cursor' # NoCursor /\ Newer(read'[Len(read')], e))
    BY <1>1 DEF Covered
  <2>1. e \in M
    BY <1>2 DEF Matching, M
  <2>2. PICK n \in DOMAIN s : s[n] = e
    BY <1>4, <2>1
  <2>3. n \in Nat /\ n >= 1 /\ n <= Len(s) /\ e \in AllEvents
    BY <1>3, <1>4, <2>1
  <2>4. CASE n < start
    <3>1. cursor # NoCursor
      BY <1>7, <2>3, <2>4
    <3>2. e \in ToSet(read) \/ Newer(read[Len(read)], e)
      BY <1>7, <3>1 DEF PagesIInv, Covered
    <3>3. n = start - 1 \/ Newer(e, s[start - 1])
      BY <1>4, <1>5, <1>8, <2>2, <2>3, <2>4, <3>1 DEF SortedSeq
    <3>4. s[start - 1] = read[Len(read)] /\ read[Len(read)] \in AllEvents /\ Len(read) \in DOMAIN read
      BY <1>2, <1>8, <3>1
    <3>5. \E i \in DOMAIN read : read[i] = e
      BY <2>2, <2>3, <3>2, <3>3, <3>4, NewerOrders DEF ToSet
    <3>6. PICK i \in DOMAIN read : read[i] = e
      BY <3>5
    <3>7. i \in DOMAIN read' /\ read'[i] = e
      BY <1>6, <1>9, <1>10, <3>6
    <3> QED
      BY <3>7 DEF ToSet
  <2>5. CASE start <= n /\ n <= start + Len(items) - 1
    <3> DEFINE k == n - start + 1
    <3>1. k \in 1..Len(items) /\ start + k - 1 = n
      BY <1>5, <1>6, <2>3, <2>5
    <3> HIDE DEF k
    <3>2. items[k] = e
      BY <1>6, <2>2, <3>1
    <3>3. Len(read) + k \in DOMAIN read' /\ read'[Len(read) + k] = items[k]
      BY <1>6, <1>9, <1>10, <3>1
    <3> QED
      BY <3>2, <3>3 DEF ToSet
  <2>6. CASE n > start + Len(items) - 1
    <3>1. start + Limit - 1 < Len(s) /\ n > start + Limit - 1
      BY <1>2, <1>4, <1>5, <1>6, <2>3, <2>6
    <3>2. cursor' # NoCursor
      BY <1>1, <1>6, <3>1
    <3>3. Newer(s[start + Limit - 1], e)
      BY <1>4, <1>15, <2>2, <3>1, <3>2 DEF SortedSeq
    <3> QED
      BY <1>15, <3>2, <3>3
  <2> QED
    BY <1>5, <1>6, <2>3, <2>4, <2>5, <2>6
<1> QED
  BY <1>14, <1>16, <1>17 DEF PagesIInv

\* No step of the reader or of the events breaks it.
LEMMA PagesNextIInv == PagesIInv /\ [PagesNext]_pageVars => PagesIInv'
<1> SUFFICES ASSUME PagesIInv, [PagesNext]_pageVars PROVE PagesIInv'
  OBVIOUS
<1>1. CASE ReadPage
  BY <1>1, ReadPageIInv
<1>2. ASSUME NEW e \in AllEvents, Change(e) PROVE PagesIInv'
  BY <1>2, ChangeIInv
<1>3. CASE UNCHANGED pageVars
  BY <1>3 DEF pageVars, PagesIInv, PagesType, Placed, Covered, SortedSeq
<1> QED
  BY <1>1, <1>2, <1>3 DEF PagesNext

\* The invariant is what the property asks for, and more.
LEMMA PagesMean == PagesIInv => PagesAreComplete
BY DEF PagesIInv, PagesType, SortedSeq, Placed, Covered, PagesAreComplete, Reading

-----------------------------------------------------------------------------
(* The alternate solutions of the pages. *)

\* The page behind the n-th event: what both ways of finding it come to.
PageBehind(s, cursors, n) ==
    Page(SubSeq(s, n + 1, Upto(n + Limit, s)),
         At(cursors, IF Upto(n + Limit, s) < Len(s) THEN Upto(n + Limit, s) ELSE 0))

\* The search and the index come to it.
LEMMA FoundBehind ==
    ASSUME NEW s, SortedSeq(s), NEW cursors, Names(cursors, s), NEW n \in 0..Len(s)
    PROVE  /\ PageOf(s, cursors, At(cursors, n)) = PageBehind(s, cursors, n)
           /\ AlternatePage(s, cursors, At(cursors, n)) = PageBehind(s, cursors, n)
<1> DEFINE after == At(cursors, n)
           start == Start(cursors, after)
           last == Upto(n + Limit, s)
<1>1. /\ DOMAIN s = 1..Len(s) /\ Len(s) \in Nat /\ n \in Nat /\ n <= Len(s)
      /\ DOMAIN cursors = 1..Len(s) /\ Limit \in Nat /\ Limit >= 1
  BY PagesAssumption DEF SortedSeq, Names
<1>2. /\ n = 0 => after = NoCursor
      /\ n # 0 => after = cursors[n] /\ n \in DOMAIN s /\ after # NoCursor
  BY <1>1 DEF At, Names
<1>3. start = n + 1
  <2>1. CASE n = 0
    BY <1>2, <2>1 DEF Start
  <2>2. CASE n # 0
    BY <1>2, <2>2, StartAfter
  <2> QED
    BY <2>1, <2>2
<1>4. last \in Int /\ last <= Len(s) /\ (last < Len(s) => last >= 1)
  BY <1>1 DEF Upto
<1>5. At(cursors, IF last < Len(s) THEN last ELSE 0) = IF last < Len(s) THEN cursors[last] ELSE NoCursor
  BY <1>4 DEF At
<1>6. PageBehind(s, cursors, n) =
          Page(SubSeq(s, n + 1, last), IF last < Len(s) THEN cursors[last] ELSE NoCursor)
  BY <1>5 DEF PageBehind
<1>7. PageOf(s, cursors, after) = PageBehind(s, cursors, n)
  <2>1. start \in 1..Len(s) + 1 /\ start + Limit - 1 = n + Limit
    BY <1>1, <1>3
  <2>2. PageOf(s, cursors, after) =
            Page(SubSeq(s, start, Upto(start + Limit - 1, s)),
                 IF Upto(start + Limit - 1, s) < Len(s) THEN cursors[Upto(start + Limit - 1, s)]
                 ELSE NoCursor)
    BY <2>1, PageCut
  <2> HIDE DEF start
  <2> QED
    BY <1>3, <1>6, <2>1, <2>2
<1>8. AlternatePage(s, cursors, after) = PageBehind(s, cursors, n)
  <2> DEFINE offset == IF after = NoCursor THEN 0
                       ELSE CHOOSE m \in DOMAIN cursors : cursors[m] = after
  <2>1. offset = n
    <3>1. CASE n = 0
      BY <1>2, <3>1
    <3>2. CASE n # 0
      <4>1. n \in DOMAIN cursors /\ \A m \in DOMAIN cursors : cursors[m] = after => m = n
        BY <1>1, <1>2, <3>2 DEF Names
      <4> HIDE DEF after
      <4> QED
        BY <1>2, <3>2, <4>1
    <3> QED
      BY <3>1, <3>2
  <2>2. AlternatePage(s, cursors, after) =
            Page(SubSeq(s, offset + 1, Upto(offset + Limit, s)),
                 IF Upto(offset + Limit, s) < Len(s) THEN cursors[Upto(offset + Limit, s)]
                 ELSE NoCursor)
    BY Zenon DEF AlternatePage
  <2> HIDE DEF offset
  <2> QED
    BY <1>6, <2>1, <2>2
<1> QED
  BY <1>7, <1>8

\* Two solutions with cursors of their own continue alike behind every event.
LEMMA BehindAlike ==
    ASSUME NEW s, SortedSeq(s), NEW a, Names(a, s), NEW b, Names(b, s), NEW n \in 0..Len(s)
    PROVE  /\ Alike(PageOf(s, a, At(a, n)), a, PageOf(s, b, At(b, n)), b)
           /\ Alike(PageOf(s, a, At(a, n)), a, AlternatePage(s, b, At(b, n)), b)
<1> DEFINE last == Upto(n + Limit, s)
           m == IF last < Len(s) THEN last ELSE 0
<1>1. Len(s) \in Nat /\ n \in Nat /\ Limit \in Nat /\ Limit >= 1 /\ Len(a) = Len(s)
  BY PagesAssumption DEF SortedSeq, Names
<1>2. m \in 0..Len(a)
  BY <1>1 DEF Upto
<1>3. PageBehind(s, a, n).items = PageBehind(s, b, n).items
  BY DEF PageBehind, Page
<1>4. PageBehind(s, a, n).next = At(a, m) /\ PageBehind(s, b, n).next = At(b, m)
  BY DEF PageBehind, Page
<1>5. Alike(PageBehind(s, a, n), a, PageBehind(s, b, n), b)
  <2> HIDE DEF m
  <2> QED
    BY <1>2, <1>3, <1>4 DEF Alike
<1> QED
  BY <1>5, FoundBehind

\* The formats have different lengths or tags, or different filters.
LEMMA FormatsApart ==
    ASSUME NEW s, SortedSeq(s), NEW t, SortedSeq(t), NEW kind, NEW other
    PROVE  /\ Apart(ImplementCursors(s), ReviewCursors(s, kind))
           /\ Apart(ImplementAlternateCursors(s), ReviewAlternateCursors(s, kind))
           /\ Apart(ReviewCursors(s, kind), ReviewAlternateCursors(s, kind))
           /\ kind # other => \A n \in DOMAIN s : ~Known(ReviewCursors(t, other), ReviewCursors(s, kind)[n])
<1>1. /\ DOMAIN ImplementCursors(s) = DOMAIN s /\ DOMAIN ImplementAlternateCursors(s) = DOMAIN s
      /\ DOMAIN ReviewCursors(s, kind) = DOMAIN s /\ DOMAIN ReviewAlternateCursors(s, kind) = DOMAIN s
      /\ DOMAIN ReviewCursors(t, other) = DOMAIN t
  BY DEF ImplementCursors, ImplementAlternateCursors, ReviewCursors, ReviewAlternateCursors
<1>2. \A n \in DOMAIN s :
        /\ ImplementCursors(s)[n] = <<"object", s[n].created_at, s[n].id>>
        /\ ImplementAlternateCursors(s)[n] = <<"list", s[n].created_at, s[n].id>>
        /\ ReviewCursors(s, kind)[n] = <<"object", s[n].created_at, s[n].id, kind>>
        /\ ReviewAlternateCursors(s, kind)[n] = <<"list", kind, s[n].created_at, s[n].id>>
  BY DEF ImplementCursors, ImplementAlternateCursors, ReviewCursors, ReviewAlternateCursors,
         ImplementCursor, ImplementAlternateCursor, ReviewCursor, ReviewAlternateCursor
<1>3. \A n \in DOMAIN t : ReviewCursors(t, other)[n] = <<"object", t[n].created_at, t[n].id, other>>
  BY DEF ReviewCursors, ReviewCursor
<1>4. ASSUME NEW n \in DOMAIN s, NEW m \in DOMAIN s
      PROVE  /\ ImplementCursors(s)[n] # ReviewCursors(s, kind)[m]
             /\ ImplementAlternateCursors(s)[n] # ReviewAlternateCursors(s, kind)[m]
             /\ ReviewCursors(s, kind)[n] # ReviewAlternateCursors(s, kind)[m]
  BY <1>2
<1>5. ASSUME kind # other, NEW n \in DOMAIN s, NEW m \in DOMAIN t
      PROVE  ReviewCursors(t, other)[m] # ReviewCursors(s, kind)[n]
  BY <1>2, <1>3, <1>5
<1>6. \A n \in DOMAIN s :
        /\ ImplementCursors(s)[n] # NoCursor /\ ImplementAlternateCursors(s)[n] # NoCursor
        /\ ReviewCursors(s, kind)[n] # NoCursor /\ ReviewAlternateCursors(s, kind)[n] # NoCursor
  BY <1>2 DEF NoCursor
<1> QED
  BY <1>1, <1>4, <1>5, <1>6 DEF Apart, Known

\* The solutions of both steps agree on every page of the events there are.
LEMMA PagesSolutionsAgree == PagesIInv => PagesAgree
<1> SUFFICES ASSUME PagesIInv PROVE PagesAgree
  OBVIOUS
<1> DEFINE ordered == Ordered(events)
           first == ImplementCursors(ordered)
           second == ReviewCursors(ordered, NoKind)
           firstAlternate == ImplementAlternateCursors(ordered)
           secondAlternate == ReviewAlternateCursors(ordered, NoKind)
<1>1. SortedSeq(ordered) /\ \A kind : SortedSeq(Ordered(Matching(events, kind)))
  <2>1. events \in SUBSET AllEvents /\ \A kind : Matching(events, kind) \in SUBSET AllEvents
    BY DEF PagesIInv, PagesType, Matching
  <2> QED
    BY <2>1, OrderedSorted
<1> HIDE DEF ordered
<1>2. Names(first, ordered) /\ Names(second, ordered) /\ Names(firstAlternate, ordered)
  BY <1>1, CursorsName
<1>3. Apart(first, second) /\ Apart(firstAlternate, secondAlternate)
  BY <1>1, FormatsApart
<1>4. \A n \in 0..Len(ordered) :
        /\ Alike(PageOf(ordered, first, At(first, n)), first,
                 PageOf(ordered, second, At(second, n)), second)
        /\ Alike(PageOf(ordered, first, At(first, n)), first,
                 AlternatePage(ordered, firstAlternate, At(firstAlternate, n)), firstAlternate)
  <2> HIDE DEF first, second, firstAlternate
  <2> QED
    BY <1>1, <1>2, BehindAlike
<1>5. ASSUME NEW kind \in Kinds \union {NoKind}
      PROVE  LET matching == Ordered(Matching(events, kind))
                 oracle == ReviewCursors(matching, kind)
                 alternate == ReviewAlternateCursors(matching, kind)
             IN  /\ \A n \in 0..Len(matching) :
                      Alike(PageOf(matching, oracle, At(oracle, n)), oracle,
                            AlternatePage(matching, alternate, At(alternate, n)), alternate)
                 /\ Apart(oracle, alternate)
                 /\ kind # NoKind => \A n \in DOMAIN matching : ~Known(second, oracle[n])
                 /\ kind # NoKind => \A n \in DOMAIN ordered : ~Known(oracle, second[n])
  <2> DEFINE matching == Ordered(Matching(events, kind))
             oracle == ReviewCursors(matching, kind)
             alternate == ReviewAlternateCursors(matching, kind)
  <2>1. SortedSeq(matching)
    BY <1>1
  <2> HIDE DEF matching
  <2>2. Names(oracle, matching) /\ Names(alternate, matching)
    BY <2>1, CursorsName
  <2>3. Apart(oracle, alternate)
    BY <2>1, FormatsApart
  <2>4. kind # NoKind => \A n \in DOMAIN matching : ~Known(second, oracle[n])
    BY <1>1, <2>1, FormatsApart
  <2>5. kind # NoKind => \A n \in DOMAIN ordered : ~Known(oracle, second[n])
    BY <1>1, <2>1, FormatsApart
  <2> HIDE DEF oracle, alternate
  <2>6. \A n \in 0..Len(matching) :
          Alike(PageOf(matching, oracle, At(oracle, n)), oracle,
                AlternatePage(matching, alternate, At(alternate, n)), alternate)
    BY <2>1, <2>2, BehindAlike
  <2> QED
    BY <2>3, <2>4, <2>5, <2>6 DEF matching, oracle, alternate
<1> QED
  BY <1>3, <1>4, <1>5 DEF PagesAgree, ordered

-----------------------------------------------------------------------------
(* The three tasks together. *)

IInv == WatchIInv /\ PagesIInv /\ LeasesIInv

\* The initial states satisfy the invariants.
LEMMA InitIInv == Init => IInv
BY WatchInitIInv, PagesInitIInv, LeasesInitIInv DEF Init, IInv

\* Whatever a step leaves alone keeps its invariant.
LEMMA PagesRest == PagesIInv /\ UNCHANGED pageVars => PagesIInv'
BY PagesNextIInv

LEMMA LeasesRest == LeasesIInv /\ UNCHANGED leaseVars => LeasesIInv'
BY LeasesNextIInv

\* No step of any task breaks them.
LEMMA NextIInv == IInv /\ [Next]_vars => IInv'
<1> SUFFICES ASSUME IInv, [Next]_vars PROVE IInv'
  OBVIOUS
<1> USE DEF IInv
<1>1. CASE WatchStep
  BY <1>1, WatchNextIInv, PagesRest, LeasesRest DEF WatchStep
<1>2. CASE PagesStep
  BY <1>2, PagesNextIInv, WatchRests, LeasesRest DEF PagesStep
<1>3. CASE LeasesStep
  BY <1>3, LeasesNextIInv, WatchRests, PagesRest DEF LeasesStep
<1>4. CASE UNCHANGED vars
  BY <1>4, WatchRests, PagesRest, LeasesRest DEF vars
<1> QED
  BY <1>1, <1>2, <1>3, <1>4 DEF Next

LEMMA Inductive == Spec => []IInv
BY InitIInv, NextIInv, PTL DEF Spec

\* However late, often and disordered the reports about connections and timers come, the
\* runtime of state/watch-subscription holds what the state says and nothing besides.
THEOREM RuntimeHolds == Spec => []RuntimeHoldsTheState
BY Inductive, HeldMeans, PTL DEF IInv

\* The retries of a watch end within the bound and its failures are reported once each, for
\* any bound and any order of reports: _retry_or_fail and _terminal_failure.
THEOREM FailuresDoEnd == Spec => []FailuresEnd
BY Inductive, CountedMeans, PTL DEF IInv

\* Whatever comes and goes between its pages, a client of feature/event-pagination gets
\* what stayed, once, newest first, on full pages, for any limit and any events.
THEOREM PagesComplete == Spec => []PagesAreComplete
BY Inductive, PagesMean, PTL DEF IInv

\* However late the owners call the store of either step, no two of them rely on the lease
\* at one instant: leases.py of diagnosis/lease-expiry.
THEOREM NeverTwoHolders == Spec => []OneHolder
<1>1. LeasesIInv => OneHolder
  BY SMT DEF LeasesIInv, Relying, OneHolder
<1> QED
  BY <1>1, Inductive, PTL DEF IInv

\* The alternate solutions of a watch and of the pages answer as the oracles do in every
\* state that any history brings them to, and later steps of a task keep what the earlier
\* ones asked for, but that each refuses the cursors of the others, for any limit, any
\* events and any bound of retries.
THEOREM AlternatesAgree == Spec => []SolutionsAgree
<1>1. IInv => SolutionsAgree
  BY WatchAgrees, PagesSolutionsAgree DEF IInv, SolutionsAgree
<1> QED
  BY <1>1, Inductive, PTL
=============================================================================
