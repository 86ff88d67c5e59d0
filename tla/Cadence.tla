------------------------------ MODULE Cadence -------------------------------
(***************************************************************************)
(* The sampling loop in time: the ticks of the interval, the deadline of   *)
(* every collect() and the backoff of the driver, against a broker that    *)
(* comes and goes.  Timers hold what is left of them, and Elapse runs them *)
(* down by one unit when no task of the process has anything to do.        *)
(***************************************************************************)
EXTENDS Scheduler, Backoff, FiniteSets

CONSTANTS
    Interval,       \* metrics.collection_interval
    CollectTimeout, \* COLLECT_TIMEOUT
    AttemptTimeout  \* rumqttc's connection timeout

ASSUME CadenceAssumption ==
    /\ Interval \in Nat \ {0}
    /\ CollectTimeout \in Nat
    /\ AttemptTimeout \in Nat \ {0}
    /\ Shortest(Initial) > 0

VARIABLES
    tick,       \* time to the deadline of the ticker; negative when it is missed
    spent,      \* how long the running collect() has been awaited
    wait,       \* what is left of the backoff sleep; 0 outside it
    trying,     \* how long the attempt has been under way
    doomed,     \* the attempt began while the broker was away
    broker,     \* "there" or "away"
    phase,      \* history: time to the next multiple of the interval
    due,        \* history: such a multiple has passed since the last tick
    quiet,      \* history: time without a new cycle although connected
    blank       \* history: time without a connection although the broker is there

timers == <<tick, spent, wait, trying, doomed, broker, next>>
history == <<phase, due, quiet, blank>>
vars == <<schedVars, timers, history>>

LongestCycle == Cardinality(Suspending) * CollectTimeout

LongestOutage == Longest(max) + 2 * AttemptTimeout

\* Types of the loop, the backoff and the timers; a tick is never more than the
\* longest cycle late.
CadenceTypeOK ==
    /\ SchedulerTypeOK
    /\ BackoffTypeOK
    /\ tick \in (-LongestCycle)..Interval
    /\ spent \in 0..CollectTimeout
    /\ wait \in 0..Longest(max)
    /\ trying \in 0..AttemptTimeout
    /\ doomed \in BOOLEAN
    /\ broker \in {"there", "away"}
    /\ phase \in 1..Interval
    /\ due \in BOOLEAN
    /\ quiet \in Nat
    /\ blank \in Nat

\* interval(): the first tick completes at once.
CadenceInit ==
    /\ SchedulerInit
    /\ BackoffInit
    /\ tick = 0
    /\ spent = 0
    /\ wait = 0
    /\ trying = 0
    /\ broker \in {"there", "away"}
    /\ doomed = (broker = "away")
    /\ phase = Interval
    /\ due = TRUE
    /\ quiet = 0
    /\ blank = 0

-----------------------------------------------------------------------------
MutRearmed == tick + Interval

\* MissedTickBehavior::Skip: the deadline after a late tick is the next
\* multiple of the interval.
Rearmed == IF tick = 0 THEN Interval ELSE Interval - ((-tick) % Interval)

CycleBegins == cur = 0 /\ cur' # 0

Quiet == quiet' = IF CycleBegins THEN 0 ELSE quiet

Ticks ==
    /\ tick <= 0
    /\ TickWake
    /\ tick' = Rearmed
    /\ due' = FALSE
    /\ UNCHANGED phase

\* ticker.reset(): the multiples are counted from here.
Wakes ==
    /\ LinkWake
    /\ tick' = Interval
    /\ due' = FALSE
    /\ phase' = Interval

Closes == LinkClosed /\ UNCHANGED <<tick, due, phase>>

Loop ==
    /\ Ticks \/ Wakes \/ Closes
    /\ Quiet
    /\ UNCHANGED <<spent, wait, trying, doomed, broker, next, blank>>

\* timeout(COLLECT_TIMEOUT, collect()): whatever happened, the next entry
\* starts with a deadline of its own.  A sequence of synchronous collectors
\* takes no time worth counting.
Runs ==
    /\ RunEntry
    /\ spent' = 0
    /\ UNCHANGED <<tick, wait, trying, doomed, broker, next, history>>

-----------------------------------------------------------------------------
(* Driver::run in time *)

Attempting == attached /\ Unreachable /\ wait = 0

\* backoff.next_delay() and the sleep that follows.
BacksOff == \E delay \in Shortest(next)..Longest(next) : NextDelay(delay) /\ wait' = delay

\* CONNACK Success; the backoff starts again.
Connects ==
    /\ Attempting
    /\ broker = "there"
    /\ EnvConnects
    /\ Reset
    /\ quiet' = 0
    /\ blank' = 0
    /\ UNCHANGED wait

\* An attempt fails when the broker was away at any time of it.
Retries ==
    /\ Attempting
    /\ doomed
    /\ EnvRetries
    /\ BacksOff
    /\ UNCHANGED <<quiet, blank>>

Loses ==
    /\ EnvLoses
    /\ BacksOff
    /\ quiet' = 0
    /\ UNCHANGED blank

\* A request is written; a fatal error or a panic ends the driver.
Others ==
    /\ EnvTakes \/ EnvFails \/ EnvPanics
    /\ quiet' = IF link' = "connected" THEN quiet ELSE 0
    /\ blank' = IF attached' THEN blank ELSE 0
    /\ UNCHANGED <<wait, next>>

Driving ==
    /\ attached
    /\ AtAwait
    /\ Connects \/ Retries \/ Loses \/ Others
    /\ UNCHANGED <<loopVars, tick, spent, trying, doomed, broker, phase, due>>

\* The broker becomes unreachable or comes back.
BrokerTurns ==
    /\ attached
    /\ broker' = IF broker = "there" THEN "away" ELSE "there"
    /\ doomed' = (doomed \/ broker = "there")
    /\ blank' = 0
    /\ UNCHANGED <<schedVars, tick, spent, wait, trying, next, phase, due, quiet>>

-----------------------------------------------------------------------------
\* A task of the process is ready to run, or an attempt is at its end.
Busy ==
    \/ Waiting /\ (tick <= 0 \/ (paused /\ (unseen \/ ~attached)))
    \/ cur # 0 /\ (cur \notin Suspending \/ spent = CollectTimeout)
    \/ Attempting /\ trying = AttemptTimeout

\* A unit of time passes; a sleep that ends is followed by an attempt.
Elapse ==
    /\ task = "running"
    /\ ~Busy
    /\ tick' = tick - 1
    /\ spent' = IF cur = 0 THEN 0 ELSE spent + 1
    /\ wait' = IF wait = 0 THEN 0 ELSE wait - 1
    /\ trying' = IF Attempting THEN trying + 1 ELSE 0
    /\ doomed' = IF wait = 1 THEN broker = "away" ELSE doomed
    /\ phase' = IF phase = 1 THEN Interval ELSE phase - 1
    /\ due' = (due \/ phase = 1)
    /\ quiet' = IF link = "connected" /\ attached THEN quiet + 1 ELSE 0
    /\ blank' = IF Unreachable /\ attached /\ broker = "there" THEN blank + 1 ELSE 0
    /\ UNCHANGED <<schedVars, broker, next>>

Stopped == SchedulerDone /\ UNCHANGED <<timers, history>>

CadenceNext == Loop \/ Runs \/ Driving \/ BrokerTurns \/ Elapse \/ Stopped

\* The clock gets on, and ready tasks are polled.
CadenceFairness ==
    /\ WF_vars(Elapse)
    /\ WF_vars(Loop)
    /\ WF_vars(Runs)

CadenceSpec == CadenceInit /\ [][CadenceNext]_vars /\ CadenceFairness

-----------------------------------------------------------------------------
(* Properties *)

\* scheduler.rs:9-10: a slow collector delays the rest of the cycle but never
\* stalls the process.  However long collectors take and whenever the link came
\* up, a connected loop starts a cycle within one interval or, when a cycle
\* overruns it, as soon as that one ends.
NeverQuiet == quiet <= (IF LongestCycle > Interval THEN LongestCycle ELSE Interval)

\* The cap, the scatter on top of it and an attempt that was under way bound
\* the time to a new connection once the broker can be reached, however long it
\* was away (backoff.rs:3-7, 58-68).
RecoversInTime == blank <= LongestOutage

\* scheduler.rs:11-12: "missed ticks are skipped rather than replayed in a
\* burst".  Between two cycles that the ticker starts a multiple of the
\* interval goes by, and a tick that comes in time comes on one.
NoBurst ==
    [][Ticks => due /\ (tick = 0 => phase = Interval)]_vars

\* The delay after a connection that was established starts again at the first
\* one: outages do not add up (connection.rs:230, backoff.rs:53-55).
OutagesDoNotAddUp == [][Loses => wait' <= Longest(Initial)]_vars

=============================================================================
