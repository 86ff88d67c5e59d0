---------------------------- MODULE CadenceProofs ----------------------------
(***************************************************************************)
(* The sampling loop in time, for every interval, deadline and backoff:    *)
(* it is an implementation of Scheduler, it is never quiet for longer than *)
(* an interval or an overrunning cycle, it replays no ticks, and it is     *)
(* connected again within a bounded time.                                  *)
(***************************************************************************)
EXTENDS Cadence, SchedulerProofs, FiniteSetTheorems

USE BackoffAssumption, CadenceAssumption, SchedulerAssumption
    DEF BackoffAssumption, CadenceAssumption, SchedulerAssumption

-----------------------------------------------------------------------------
(* Backoff *)

LEMMA SettingsClamped ==
    /\ max \in Nat /\ Initial <= max
    /\ factor \in Int /\ factor >= 100
    /\ jitter \in 0..50
  BY DEF max, factor, jitter

\* Products of what is not negative keep an order.
LEMMA ProductsGrow ==
    ASSUME NEW a \in Nat, NEW b \in Nat, NEW c \in Nat, a <= b
    PROVE  a * c \in Nat /\ a * c <= b * c
  OBVIOUS

\* Backoff::next_delay: the delay never shrinks and never passes the cap.
LEMMA GrownTyped ==
    ASSUME NEW base \in Initial..max
    PROVE  Grown(base) \in base..max
  <1>1. base \in Nat /\ 100 \in Nat /\ factor \in Nat /\ 100 <= factor
    BY SettingsClamped
  <1>2. 100 * base \in Nat /\ 100 * base <= factor * base
    BY <1>1, ProductsGrow
  <1>3. factor * base = base * factor
    BY <1>1
  <1>4. (base * factor) \div 100 \in Int /\ (base * factor) \div 100 >= base
    BY <1>1, <1>2, <1>3
  <1> QED
    BY <1>4, SettingsClamped DEF Grown

\* The scatter keeps the order of the delays.
LEMMA ScatterGrows ==
    ASSUME NEW a \in Nat, NEW b \in Nat, a <= b
    PROVE  /\ Longest(a) \in Nat /\ Longest(a) <= Longest(b)
           /\ Shortest(a) \in Nat /\ Shortest(a) <= Shortest(b)
  <1>1. 100 + jitter \in Nat /\ 100 - jitter \in Nat
    BY SettingsClamped
  <1>2. a * (100 + jitter) \in Nat /\ a * (100 + jitter) <= b * (100 + jitter)
    BY <1>1, ProductsGrow
  <1>3. a * (100 - jitter) \in Nat /\ a * (100 - jitter) <= b * (100 - jitter)
    BY <1>1, ProductsGrow
  <1>4. b * (100 + jitter) \in Nat /\ b * (100 - jitter) \in Nat
    BY <1>1
  <1> QED
    BY <1>2, <1>3, <1>4 DEF Longest, Shortest

\* A failed attempt: the sleep is not empty, and stays within what the jitter
\* adds to the delay and to the cap.
LEMMA BacksOffTyped ==
    ASSUME BackoffTypeOK, BacksOff
    PROVE  /\ BackoffTypeOK'
           /\ wait' \in 1..Longest(max)
           /\ wait' <= Longest(next)
  <1>1. next \in Nat /\ Initial <= next /\ next <= max
    BY SettingsClamped DEF BackoffTypeOK
  <1>2. Shortest(Initial) <= Shortest(next) /\ Shortest(Initial) \in Nat
    BY <1>1, ScatterGrows
  <1>3. Longest(next) <= Longest(max) /\ Longest(next) \in Nat /\ Longest(max) \in Nat
    BY <1>1, SettingsClamped, ScatterGrows
  <1>4. Shortest(next) \in Nat
    BY <1>1, ScatterGrows
  <1>5. PICK delay \in Shortest(next)..Longest(next) : NextDelay(delay) /\ wait' = delay
    BY DEF BacksOff
  <1>6. wait' \in 1..Longest(max) /\ wait' <= Longest(next)
    BY <1>2, <1>3, <1>4, <1>5
  <1>7. next' \in next..max
    BY <1>5, GrownTyped DEF NextDelay, BackoffTypeOK
  <1> QED
    BY <1>1, <1>6, <1>7, SettingsClamped DEF BackoffTypeOK

-----------------------------------------------------------------------------
(* Cadence implements Scheduler *)

LEMMA StepsAreTheLoops ==
    ASSUME [CadenceNext]_vars
    PROVE  [SchedulerNext]_schedVars
  <1>1. CASE Loop
    BY <1>1 DEF Loop, Ticks, Wakes, Closes, SchedulerNext, SchedulerStep
  <1>2. CASE Runs
    BY <1>2 DEF Runs, SchedulerNext, SchedulerStep
  <1>3. CASE Driving
    BY <1>3 DEF Driving, Connects, Retries, Loses, Others, SchedulerNext, Environment
  <1>4. CASE BrokerTurns
    BY <1>4 DEF BrokerTurns
  <1>5. CASE Elapse
    BY <1>5 DEF Elapse
  <1>6. CASE Stopped
    BY <1>6 DEF Stopped, SchedulerNext
  <1>7. CASE UNCHANGED vars
    BY <1>7 DEF vars
  <1> QED
    BY <1>1, <1>2, <1>3, <1>4, <1>5, <1>6, <1>7 DEF CadenceNext

\* Whatever is shown of the loop without time holds with time.
THEOREM Refines == CadenceSpec => SchedulerSpec
  BY StepsAreTheLoops, PTL DEF CadenceSpec, CadenceInit, SchedulerSpec

-----------------------------------------------------------------------------
(* The inductive invariants *)

\* The collectors of the running cycle that came before the current one and may
\* have taken time, and how long the cycle can have lasted so far.
Sooner(c) == {e \in Suspending : e < c}
Taken(c, s) == Cardinality(Sooner(c)) * CollectTimeout + s

\* A cycle lasts no longer than the deadlines it has used up, and neither does
\* the delay of a tick; what is left to the next tick and the time since the
\* last cycle are one interval together.
CycleInv ==
    /\ cur \notin Suspending => spent = 0
    /\ cur # 0 => tick + Taken(cur, spent) >= 0 /\ quiet <= Taken(cur, spent)
    /\ cur = 0 => tick >= 0 \/ (tick + LongestCycle >= 0 /\ quiet <= LongestCycle)
    /\ quiet + tick <= Interval
    /\ link # "connected" => quiet = 0

\* The deadline of the ticker and the multiples of the interval.
GridInv ==
    IF tick > 0 THEN phase = tick
    ELSE due /\ phase = Interval - ((-tick) % Interval)

\* What an attempt, the sleep before it and the one before that have used up of
\* the time since the broker can be reached.
RecoveryInv ==
    /\ broker = "away" \/ ~Unreachable \/ ~attached => blank = 0
    /\ wait > 0 => blank + wait <= AttemptTimeout + Longest(max)
    /\ wait = 0 /\ doomed /\ Unreachable => blank <= trying
    /\ wait = 0 /\ ~doomed => blank <= AttemptTimeout + Longest(max) + trying
    /\ broker = "away" => doomed \/ wait > 0
    /\ link = "connected" => next = Initial /\ wait = 0

\* The types of the timers.
TimersTyped ==
    /\ BackoffTypeOK
    /\ tick \in Int /\ tick <= Interval
    /\ spent \in 0..CollectTimeout
    /\ wait \in 0..Longest(max)
    /\ trying \in 0..AttemptTimeout
    /\ doomed \in BOOLEAN
    /\ broker \in {"there", "away"}
    /\ phase \in 1..Interval
    /\ due \in BOOLEAN
    /\ quiet \in Nat
    /\ blank \in Nat

LEMMA RearmedTyped ==
    ASSUME tick \in Int, tick <= 0
    PROVE  Rearmed \in 1..Interval
  <1>1. (-tick) % Interval \in 0..(Interval - 1)
    OBVIOUS
  <1> QED
    BY <1>1 DEF Rearmed

LEMMA TimersTypedStarts ==
    ASSUME CadenceInit
    PROVE  TimersTyped
  <1>1. Longest(max) \in Nat
    BY SettingsClamped, ScatterGrows
  <1> QED
    BY <1>1, SettingsClamped DEF CadenceInit, BackoffInit, TimersTyped, BackoffTypeOK

LEMMA TimersTypedKept ==
    ASSUME SchedulerTypeOK, TimersTyped, [CadenceNext]_vars
    PROVE  TimersTyped'
  <1> USE DEF TimersTyped
  <1>1. CASE Loop
    <2>0. due' \in BOOLEAN
      BY <1>1 DEF Loop, Ticks, Wakes, Closes
    <2>1. tick' \in Int /\ tick' <= Interval /\ phase' \in 1..Interval
      <3>1. CASE Ticks
        BY <3>1, RearmedTyped DEF Ticks
      <3>2. CASE Wakes
        BY <3>2 DEF Wakes
      <3>3. CASE Closes
        BY <3>3 DEF Closes
      <3> QED
        BY <1>1, <3>1, <3>2, <3>3 DEF Loop
    <2>2. quiet' \in Nat
      BY <1>1 DEF Loop, Quiet
    <2> QED
      BY <1>1, <2>0, <2>1, <2>2 DEF Loop, BackoffTypeOK
  <1>2. CASE Runs
    BY <1>2 DEF Runs, history, BackoffTypeOK
  <1>3. CASE Driving
    <2>1. UNCHANGED <<tick, spent, trying, doomed, broker, phase, due>>
      BY <1>3 DEF Driving
    <2>2. BackoffTypeOK' /\ wait' \in 0..Longest(max)
      <3>1. CASE Connects
        BY <3>1, SettingsClamped DEF Connects, Reset, BackoffTypeOK
      <3>2. CASE Retries \/ Loses
        BY <3>2, BacksOffTyped DEF Retries, Loses
      <3>3. CASE Others
        BY <3>3 DEF Others, BackoffTypeOK
      <3> QED
        BY <1>3, <3>1, <3>2, <3>3 DEF Driving
    <2>3. quiet' \in Nat /\ blank' \in Nat
      BY <1>3 DEF Driving, Connects, Retries, Loses, Others
    <2> QED
      BY <2>1, <2>2, <2>3
  <1>4. CASE BrokerTurns
    BY <1>4 DEF BrokerTurns, BackoffTypeOK
  <1>5. CASE Elapse
    <2>1. spent' \in 0..CollectTimeout
      <3>1. cur # 0 => spent # CollectTimeout
        BY <1>5 DEF Elapse, Busy
      <3> QED
        BY <1>5, <3>1 DEF Elapse
    <2>2. trying' \in 0..AttemptTimeout
      <3>1. Attempting => trying # AttemptTimeout
        BY <1>5 DEF Elapse, Busy
      <3> QED
        BY <1>5, <3>1 DEF Elapse
    <2>3. Longest(max) \in Nat
      BY SettingsClamped, ScatterGrows
    <2>4. wait' \in 0..Longest(max)
      BY <1>5, <2>3 DEF Elapse
    <2>5. doomed' \in BOOLEAN /\ due' \in BOOLEAN
      BY <1>5 DEF Elapse
    <2>6. tick' \in Int /\ tick' <= Interval /\ phase' \in 1..Interval
      BY <1>5 DEF Elapse
    <2>7. quiet' \in Nat /\ blank' \in Nat
      BY <1>5 DEF Elapse
    <2> QED
      BY <1>5, <2>1, <2>2, <2>4, <2>5, <2>6, <2>7 DEF Elapse, BackoffTypeOK
  <1>6. CASE Stopped \/ UNCHANGED vars
    BY <1>6 DEF Stopped, vars, timers, history, BackoffTypeOK
  <1> QED
    BY <1>1, <1>2, <1>3, <1>4, <1>5, <1>6 DEF CadenceNext

-----------------------------------------------------------------------------
(* Cycles *)

LEMMA SoonerCounted ==
    ASSUME NEW c \in 1..N
    PROVE  /\ IsFiniteSet(Sooner(c)) /\ Cardinality(Sooner(c)) \in Nat
           /\ IsFiniteSet(Suspending) /\ Cardinality(Suspending) \in Nat
  <1>1. IsFiniteSet(1..N)
    BY FS_Interval
  <1>2. IsFiniteSet(Suspending)
    BY <1>1, FS_Subset
  <1>3. IsFiniteSet(Sooner(c))
    BY <1>2, FS_Subset DEF Sooner
  <1> QED
    BY <1>2, <1>3, FS_CardinalityType

LEMMA TakenTyped ==
    ASSUME NEW c \in 1..N, NEW s \in 0..CollectTimeout
    PROVE  Taken(c, s) \in Nat /\ LongestCycle \in Nat
  <1>1. Cardinality(Sooner(c)) * CollectTimeout \in Nat
    BY SoonerCounted
  <1>2. Cardinality(Suspending) * CollectTimeout \in Nat
    BY SoonerCounted
  <1> QED
    BY <1>1, <1>2 DEF Taken, LongestCycle

LEMMA TakenFirst == Taken(1, 0) = 0
  <1>0. \A e \in Suspending : ~(e < 1)
    OBVIOUS
  <1>1. Sooner(1) = {}
    BY <1>0, Zenon DEF Sooner
  <1>2. Cardinality(Sooner(1)) = 0
    BY <1>1, FS_EmptySet
  <1> QED
    BY <1>2 DEF Taken

\* The next entry has all of this one's deadline behind it.
LEMMA DeadlinesAdd ==
    ASSUME NEW c \in 1..N, NEW later \in SUBSET Suspending, IsFiniteSet(later),
           Sooner(c) \subseteq later, c \in Suspending => c \in later,
           NEW s \in 0..CollectTimeout, c \notin Suspending => s = 0
    PROVE  Taken(c, s) <= Cardinality(later) * CollectTimeout
  <1> DEFINE k == Cardinality(Sooner(c))
             l == Cardinality(later)
  <1>1. k \in Nat /\ l \in Nat /\ k <= l
    BY SoonerCounted, FS_Subset, FS_CardinalityType
  <1>2. CASE c \in Suspending
    <2>1. IsFiniteSet(Sooner(c) \cup {c}) /\ Cardinality(Sooner(c) \cup {c}) = k + 1
      <3>1. c \notin Sooner(c)
        BY DEF Sooner
      <3> QED
        BY <3>1, SoonerCounted, FS_AddElement
    <2>2. k + 1 <= l
      BY <1>2, <2>1, FS_Subset
    <2> HIDE DEF k, l
    <2>3. (k + 1) * CollectTimeout <= l * CollectTimeout
      BY <1>1, <2>2, ProductsGrow
    <2>4. (k + 1) * CollectTimeout = k * CollectTimeout + CollectTimeout
      BY <1>1
    <2>5. k * CollectTimeout \in Nat /\ l * CollectTimeout \in Nat
      BY <1>1
    <2>6. k * CollectTimeout + s <= l * CollectTimeout
      BY <2>3, <2>4, <2>5
    <2> QED
      BY <2>6 DEF k, l, Taken
  <1>3. CASE c \notin Suspending
    <2> HIDE DEF k, l
    <2>1. k * CollectTimeout <= l * CollectTimeout /\ k * CollectTimeout \in Nat
      BY <1>1, ProductsGrow
    <2> QED
      BY <1>3, <2>1 DEF k, l, Taken
  <1> QED
    BY <1>2, <1>3

LEMMA TakenNext ==
    ASSUME NEW c \in 1..N, c # N,
           NEW s \in 0..CollectTimeout, c \notin Suspending => s = 0
    PROVE  Taken(c, s) <= Taken(c + 1, 0)
  <1>1. c + 1 \in 1..N
    OBVIOUS
  <1>2. Sooner(c + 1) \in SUBSET Suspending /\ IsFiniteSet(Sooner(c + 1))
    BY <1>1, SoonerCounted DEF Sooner
  <1>3. Sooner(c) \subseteq Sooner(c + 1)
    <2>1. \A e \in Suspending : e \in Nat /\ (e < c => e < c + 1)
      OBVIOUS
    <2> QED
      BY <2>1 DEF Sooner
  <1>4. c \in Suspending => c \in Sooner(c + 1)
    BY DEF Sooner
  <1>5. Taken(c, s) <= Cardinality(Sooner(c + 1)) * CollectTimeout
    BY <1>2, <1>3, <1>4, DeadlinesAdd
  <1>6. Cardinality(Sooner(c + 1)) * CollectTimeout \in Nat
    BY <1>1, SoonerCounted
  <1> QED
    BY <1>5, <1>6 DEF Taken

LEMMA TakenLast ==
    ASSUME NEW c \in 1..N, NEW s \in 0..CollectTimeout, c \notin Suspending => s = 0
    PROVE  Taken(c, s) <= LongestCycle
  <1>1. Sooner(c) \subseteq Suspending
    BY DEF Sooner
  <1> QED
    BY <1>1, SoonerCounted, DeadlinesAdd DEF LongestCycle

LEMMA CycleInvStarts ==
    ASSUME CadenceInit
    PROVE  CycleInv
  BY DEF CadenceInit, SchedulerInit, ChannelsInit, LoopInit, CycleInv

\* A tick and a wake-up by the link start a cycle or find no connection.
LEMMA LoopKeepsCycles ==
    ASSUME SchedulerTypeOK, TimersTyped, CycleInv, Loop
    PROVE  CycleInv'
  <1>1. cur = 0 /\ spent' = spent /\ link' = link
    BY DEF Loop, Ticks, Wakes, Closes, TickWake, LinkWake, LinkClosed, Waiting, Examine,
           channelVars
  <1>2. spent = 0
    <2>1. 0 \notin Suspending
      OBVIOUS
    <2> QED
      BY <1>1, <2>1 DEF CycleInv
  <1>3. quiet' = IF cur' # 0 THEN 0 ELSE quiet
    BY <1>1 DEF Loop, Quiet, CycleBegins
  <1>4. /\ tick \in Int /\ quiet \in Nat /\ quiet + tick <= Interval
        /\ tick >= 0 \/ (tick + LongestCycle >= 0 /\ quiet <= LongestCycle)
        /\ link # "connected" => quiet = 0
    BY <1>1 DEF CycleInv, TimersTyped
  <1>5. CASE Closes
    <2>1. cur' = 0 /\ tick' = tick
      BY <1>1, <1>5 DEF Closes, LinkClosed, Return
    <2> QED
      BY <1>1, <1>2, <1>3, <1>4, <2>1 DEF CycleInv
  <1>6. CASE Ticks \/ Wakes
    <2>1. PICK t \in 1..Interval : tick' = t
      BY <1>6, RearmedTyped DEF TimersTyped, Ticks, Wakes
    <2>2. Examine
      BY <1>6 DEF Ticks, Wakes, TickWake, LinkWake
    <2>3. CASE link = "connected"
      <3>1. cur' = 1
        BY <2>2, <2>3 DEF Examine, StartCycle
      <3>2. quiet' = 0 /\ spent' = 0
        BY <1>1, <1>2, <1>3, <3>1
      <3>3. Taken(cur', spent') = 0
        BY <3>1, <3>2, TakenFirst
      <3>4. tick' + 0 >= 0 /\ 0 + tick' <= Interval
        BY <2>1
      <3>5. cur' # 0
        BY <3>1
      <3> QED
        BY <3>2, <3>3, <3>4, <3>5 DEF CycleInv
    <2>4. CASE link # "connected"
      <3>1. cur' = 0
        BY <1>1, <2>2, <2>4 DEF Examine, Return, Skip
      <3>2. quiet' = 0
        BY <1>3, <1>4, <2>4, <3>1
      <3>3. tick' >= 0 /\ 0 + tick' <= Interval
        BY <2>1
      <3> QED
        BY <1>1, <1>2, <3>1, <3>2, <3>3 DEF CycleInv
    <2> QED
      BY <2>3, <2>4
  <1> QED
    BY <1>5, <1>6 DEF Loop

\* An entry hands what it has used up of its deadline to the rest of the cycle.
LEMMA RunsKeepCycles ==
    ASSUME SchedulerTypeOK, TimersTyped, CycleInv, Runs
    PROVE  CycleInv'
  <1>0. cur \in 1..N
    <2>1. cur # 0
      BY DEF Runs, RunEntry, EntryFails, EntryPublishes
    <2>2. cur \in 0..N
      BY DEF SchedulerTypeOK
    <2> QED
      BY <2>1, <2>2
  <1>1. cur' = (IF cur = N THEN 0 ELSE cur + 1) /\ spent' = 0
    BY DEF Runs, RunEntry, EntryFails, EntryPublishes, Advance
  <1>2. tick' = tick /\ quiet' = quiet /\ link' = link
    BY DEF Runs, RunEntry, EntryFails, EntryPublishes, channelVars, history
  <1>3. spent \in 0..CollectTimeout /\ (cur \notin Suspending => spent = 0)
    BY DEF TimersTyped, CycleInv
  <1>4. tick \in Int /\ quiet \in Nat /\ Taken(cur, spent) \in Nat /\ LongestCycle \in Nat
    BY <1>0, <1>3, TakenTyped DEF TimersTyped
  <1>5. /\ tick + Taken(cur, spent) >= 0 /\ quiet <= Taken(cur, spent)
        /\ quiet + tick <= Interval
        /\ link # "connected" => quiet = 0
    BY <1>0 DEF CycleInv
  <1>6. CASE cur = N
    <2>1. Taken(cur, spent) <= LongestCycle
      BY <1>0, <1>3, TakenLast
    <2>2. cur' = 0
      BY <1>1, <1>6
    <2>3. tick + LongestCycle >= 0 /\ quiet <= LongestCycle
      BY <1>4, <1>5, <2>1
    <2> QED
      BY <1>1, <1>2, <1>5, <2>2, <2>3 DEF CycleInv
  <1>7. CASE cur # N
    <2>1. Taken(cur, spent) <= Taken(cur + 1, 0)
      BY <1>0, <1>3, <1>7, TakenNext
    <2>2. cur' = cur + 1 /\ cur' # 0 /\ cur + 1 \in 1..N
      BY <1>0, <1>1, <1>7
    <2>3. Taken(cur + 1, 0) \in Nat
      BY <2>2, TakenTyped
    <2>4. tick + Taken(cur + 1, 0) >= 0 /\ quiet <= Taken(cur + 1, 0)
      BY <1>4, <1>5, <2>1, <2>3
    <2> QED
      BY <1>1, <1>2, <1>5, <2>2, <2>4 DEF CycleInv
  <1> QED
    BY <1>6, <1>7

\* While time passes a cycle uses up its deadline, or there is none and no tick
\* is due.
LEMMA ElapseKeepsCycles ==
    ASSUME SchedulerTypeOK, TimersTyped, CycleInv, Elapse
    PROVE  CycleInv'
  <1>1. cur' = cur /\ link' = link /\ tick' = tick - 1
    BY DEF Elapse, schedVars, loopVars, channelVars
  <1>2. quiet' = 0 \/ quiet' = quiet + 1
    BY DEF Elapse
  <1>3. link' # "connected" => quiet' = 0
    BY <1>1 DEF Elapse
  <1>4. /\ tick \in Int /\ tick <= Interval /\ quiet \in Nat /\ spent \in 0..CollectTimeout
        /\ quiet + tick <= Interval
    BY DEF TimersTyped, CycleInv
  <1>5. tick' = tick - 1
    BY <1>1
  <1>6. quiet' + tick' <= Interval
    BY <1>2, <1>4, <1>5
  <1>7. CASE cur = 0
    <2>1. spent' = 0 /\ cur' = 0
      BY <1>1, <1>7 DEF Elapse
    <2>2. tick > 0
      <3>1. task = "running" /\ ~(tick <= 0)
        BY <1>7 DEF Elapse, Busy, Waiting
      <3> QED
        BY <1>4, <3>1
    <2>3. tick' >= 0
      BY <1>4, <1>5, <2>2
    <2> QED
      BY <1>3, <1>6, <2>1, <2>3 DEF CycleInv
  <1>8. CASE cur # 0
    <2>1. cur \in Suspending /\ spent # CollectTimeout /\ spent' = spent + 1
      BY <1>8 DEF Elapse, Busy
    <2>2. cur \in 1..N /\ Taken(cur, spent) \in Nat
      BY <1>4, <1>8, TakenTyped DEF SchedulerTypeOK
    <2>3. Cardinality(Sooner(cur)) * CollectTimeout \in Nat
      BY <2>2, SoonerCounted
    <2>4. Taken(cur, spent + 1) = Taken(cur, spent) + 1
      BY <1>4, <2>3 DEF Taken
    <2>5. Taken(cur', spent') = Taken(cur, spent) + 1
      BY <1>1, <2>1, <2>4
    <2>6. tick + Taken(cur, spent) >= 0 /\ quiet <= Taken(cur, spent)
      BY <1>8 DEF CycleInv
    <2>7. tick' + (Taken(cur, spent) + 1) >= 0 /\ quiet' <= Taken(cur, spent) + 1
      BY <1>2, <1>4, <1>5, <2>2, <2>6
    <2> QED
      BY <1>1, <1>3, <1>6, <1>8, <2>1, <2>5, <2>7 DEF CycleInv
  <1> QED
    BY <1>7, <1>8

LEMMA DrivingKeepsCycles ==
    ASSUME SchedulerTypeOK, TimersTyped, CycleInv, Driving
    PROVE  CycleInv'
  <1>1. cur' = cur /\ tick' = tick /\ spent' = spent
    BY DEF Driving, loopVars
  <1>2. quiet' \in {0, quiet} /\ (link' # "connected" => quiet' = 0)
    BY DEF Driving, Connects, Retries, Loses, Others, Attempting, Unreachable, CycleInv
  <1>3. cur # 0 => Taken(cur, spent) \in Nat
    BY TakenTyped DEF SchedulerTypeOK, TimersTyped
  <1>4. tick \in Int /\ tick <= Interval /\ quiet \in Nat /\ quiet + tick <= Interval
    BY DEF TimersTyped, CycleInv
  <1>5. LongestCycle \in Nat
    BY TakenTyped
  <1>6. quiet' + tick' <= Interval
    <2>1. tick' = tick /\ (quiet' = 0 \/ quiet' = quiet)
      BY <1>1, <1>2
    <2> QED
      BY <1>4, <2>1
  <1>7. CASE cur = 0
    <2>1. tick >= 0 \/ (tick + LongestCycle >= 0 /\ quiet <= LongestCycle)
      BY <1>7 DEF CycleInv
    <2>2. tick >= 0 \/ (tick + LongestCycle >= 0 /\ quiet' <= LongestCycle)
      BY <1>2, <1>5, <2>1
    <2>3. cur \notin Suspending => spent = 0
      BY DEF CycleInv
    <2> QED
      BY <1>1, <1>2, <1>6, <1>7, <2>2, <2>3 DEF CycleInv
  <1>8. CASE cur # 0
    <2>1. tick + Taken(cur, spent) >= 0 /\ quiet' <= Taken(cur, spent)
      BY <1>2, <1>3, <1>8 DEF CycleInv
    <2>2. cur \notin Suspending => spent = 0
      BY DEF CycleInv
    <2> QED
      BY <1>1, <1>2, <1>6, <1>8, <2>1, <2>2 DEF CycleInv
  <1> QED
    BY <1>7, <1>8

LEMMA CycleInvKept ==
    ASSUME SchedulerTypeOK, TimersTyped, CycleInv, [CadenceNext]_vars
    PROVE  CycleInv'
  <1>1. CASE BrokerTurns \/ Stopped \/ UNCHANGED vars
    BY <1>1 DEF BrokerTurns, Stopped, SchedulerDone, vars, timers, history,
                schedVars, loopVars, channelVars, CycleInv
  <1> QED
    BY <1>1, LoopKeepsCycles, RunsKeepCycles, ElapseKeepsCycles, DrivingKeepsCycles
    DEF CadenceNext

\* The types of the loop in time, and that a tick is late by a cycle at most.
THEOREM TimedTypeCorrect == CadenceSpec => []CadenceTypeOK
  <1>1. SchedulerTypeOK /\ TimersTyped /\ CycleInv => CadenceTypeOK
    <2> SUFFICES ASSUME SchedulerTypeOK, TimersTyped, CycleInv
                 PROVE  CadenceTypeOK
      OBVIOUS
    <2>1. LongestCycle \in Nat
      BY TakenTyped
    <2>2. cur # 0 => Taken(cur, spent) \in Nat /\ Taken(cur, spent) <= LongestCycle
      BY TakenTyped, TakenLast DEF SchedulerTypeOK, TimersTyped, CycleInv
    <2>3. tick \in (-LongestCycle)..Interval
      BY <2>1, <2>2 DEF TimersTyped, CycleInv
    <2> QED
      BY <2>3 DEF CadenceTypeOK, TimersTyped
  <1>2. CadenceInit => SchedulerTypeOK /\ TimersTyped /\ CycleInv
    BY LoopStartsTyped, TimersTypedStarts, CycleInvStarts DEF CadenceInit
  <1>3. SchedulerTypeOK /\ TimersTyped /\ CycleInv /\ [CadenceNext]_vars
            => SchedulerTypeOK' /\ TimersTyped' /\ CycleInv'
    BY StepsAreTheLoops, LoopStepsTyped, TimersTypedKept, CycleInvKept
  <1> QED
    BY <1>1, <1>2, <1>3, PTL DEF CadenceSpec

\* scheduler.rs:9-10: while it is connected the loop is never without a new
\* cycle for longer than the interval or the longest cycle.
THEOREM NeverQuietForLong == CadenceSpec => []NeverQuiet
  <1>1. SchedulerTypeOK /\ TimersTyped /\ CycleInv => NeverQuiet
    <2> SUFFICES ASSUME SchedulerTypeOK, TimersTyped, CycleInv
                 PROVE  NeverQuiet
      OBVIOUS
    <2>1. LongestCycle \in Nat
      BY TakenTyped
    <2>2. cur # 0 => Taken(cur, spent) \in Nat /\ Taken(cur, spent) <= LongestCycle
      BY TakenTyped, TakenLast DEF SchedulerTypeOK, TimersTyped, CycleInv
    <2>3. quiet <= LongestCycle \/ quiet <= Interval
      BY <2>1, <2>2 DEF TimersTyped, CycleInv
    <2> QED
      BY <2>1, <2>3 DEF NeverQuiet, TimersTyped
  <1>2. CadenceInit => SchedulerTypeOK /\ TimersTyped /\ CycleInv
    BY LoopStartsTyped, TimersTypedStarts, CycleInvStarts DEF CadenceInit
  <1>3. SchedulerTypeOK /\ TimersTyped /\ CycleInv /\ [CadenceNext]_vars
            => SchedulerTypeOK' /\ TimersTyped' /\ CycleInv'
    BY StepsAreTheLoops, LoopStepsTyped, TimersTypedKept, CycleInvKept
  <1> QED
    BY <1>1, <1>2, <1>3, PTL DEF CadenceSpec

-----------------------------------------------------------------------------
(* The multiples of the interval *)

LEMMA NextRemainder ==
    ASSUME NEW a \in Nat
    PROVE  /\ a % Interval \in 0..(Interval - 1)
           /\ (a + 1) % Interval = IF a % Interval = Interval - 1 THEN 0 ELSE (a % Interval) + 1
  <1> DEFINE r == a % Interval
             q == a \div Interval
  <1>1. r \in 0..(Interval - 1) /\ q \in Int /\ a = Interval * q + r
    OBVIOUS
  <1> HIDE DEF r, q
  <1>2. CASE r = Interval - 1
    <2>1. a + 1 = Interval * (q + 1) + 0
      BY <1>1, <1>2
    <2>2. (a + 1) % Interval = 0
      BY <1>1, <2>1
    <2> QED
      BY <1>1, <1>2, <2>2 DEF r
  <1>3. CASE r # Interval - 1
    <2>1. a + 1 = Interval * q + (r + 1) /\ r + 1 \in 0..(Interval - 1)
      BY <1>1, <1>3
    <2>2. (a + 1) % Interval = r + 1
      BY <1>1, <2>1
    <2> QED
      BY <1>1, <1>3, <2>2 DEF r
  <1> QED
    BY <1>2, <1>3

LEMMA GridInvStarts ==
    ASSUME CadenceInit
    PROVE  GridInv
  <1>1. (-0) % Interval = 0
    OBVIOUS
  <1>2. tick = 0 /\ due /\ phase = Interval
    BY DEF CadenceInit
  <1> QED
    BY <1>1, <1>2 DEF GridInv

\* A late tick moves its deadline to the multiple that comes next.
LEMMA TicksKeepGrid ==
    ASSUME TimersTyped, GridInv, Ticks
    PROVE  GridInv'
  <1>1. tick \in Int /\ tick <= 0 /\ tick' = Rearmed /\ phase' = phase
    BY DEF Ticks, TimersTyped
  <1>2. phase = Interval - ((-tick) % Interval)
    BY <1>1 DEF GridInv
  <1>3. (-0) % Interval = 0
    OBVIOUS
  <1>4. Rearmed = phase
    BY <1>1, <1>2, <1>3 DEF Rearmed
  <1>5. Rearmed \in 1..Interval
    BY <1>1, RearmedTyped
  <1> QED
    BY <1>1, <1>4, <1>5 DEF GridInv

LEMMA ElapseKeepsGrid ==
    ASSUME TimersTyped, GridInv, Elapse
    PROVE  GridInv'
  <1>1. /\ tick \in Int /\ phase \in 1..Interval /\ tick' = tick - 1
        /\ phase' = IF phase = 1 THEN Interval ELSE phase - 1
    BY DEF Elapse, TimersTyped
  <1>2. due' = (due \/ phase = 1)
    BY DEF Elapse
  <1>3. CASE tick > 1
    <2>1. phase = tick
      BY <1>1, <1>3 DEF GridInv
    <2>2. phase' = tick - 1 /\ tick - 1 > 0
      BY <1>1, <1>3, <2>1
    <2> QED
      BY <1>1, <2>2 DEF GridInv
  <1>4. CASE tick = 1
    <2>1. phase = 1
      BY <1>4 DEF GridInv
    <2>2. due'
      BY <1>2, <2>1, Zenon
    <2>3. tick' = 0 /\ phase' = Interval /\ (-0) % Interval = 0
      BY <1>1, <1>4, <2>1
    <2> QED
      BY <2>2, <2>3 DEF GridInv
  <1>5. CASE tick <= 0
    <2>1. PICK a \in Nat : a = -tick
      BY <1>1, <1>5
    <2>2. phase = Interval - (a % Interval)
      BY <1>1, <1>5, <2>1 DEF GridInv
    <2>3. a % Interval \in 0..(Interval - 1)
      BY NextRemainder
    <2>4. (a + 1) % Interval = IF phase = 1 THEN 0 ELSE (a % Interval) + 1
      <3>1. phase = 1 <=> a % Interval = Interval - 1
        BY <2>2, <2>3
      <3> QED
        BY <3>1, NextRemainder
    <2>5. phase' = Interval - ((a + 1) % Interval)
      BY <1>1, <2>2, <2>3, <2>4
    <2>6. -(tick - 1) = a + 1 /\ ~(tick - 1 > 0)
      BY <1>1, <1>5, <2>1
    <2>7. due'
      <3>1. due
        BY <1>1, <1>5 DEF GridInv
      <3> QED
        BY <1>2, <3>1, Zenon
    <2> QED
      BY <1>1, <2>5, <2>6, <2>7 DEF GridInv
  <1> QED
    BY <1>1, <1>3, <1>4, <1>5

LEMMA GridInvKept ==
    ASSUME TimersTyped, GridInv, [CadenceNext]_vars
    PROVE  GridInv'
  <1>1. CASE Ticks
    BY <1>1, TicksKeepGrid
  <1>2. CASE Wakes
    <2>1. tick' = Interval /\ phase' = Interval /\ Interval > 0
      BY <1>2 DEF Wakes
    <2> QED
      BY <2>1 DEF GridInv
  <1>3. CASE Closes \/ Runs \/ Driving \/ BrokerTurns \/ Stopped \/ UNCHANGED vars
    <2>1. UNCHANGED <<tick, due, phase>>
      BY <1>3 DEF Closes, Runs, Driving, BrokerTurns, Stopped, vars, timers, history
    <2> QED
      BY <2>1 DEF GridInv
  <1>4. CASE Elapse
    BY <1>4, ElapseKeepsGrid
  <1> QED
    BY <1>1, <1>2, <1>3, <1>4 DEF CadenceNext, Loop

\* scheduler.rs:11-12: ticks that were missed are skipped, not replayed in a
\* burst, and a tick that comes in time comes on a multiple of the interval.
THEOREM NoTicksReplayed == CadenceSpec => NoBurst
  <1>1. TimersTyped /\ GridInv /\ Ticks => due /\ (tick = 0 => phase = Interval)
    <2> SUFFICES ASSUME TimersTyped, GridInv, Ticks
                 PROVE  due /\ (tick = 0 => phase = Interval)
      OBVIOUS
    <2>1. ~(tick > 0)
      BY DEF Ticks, TimersTyped
    <2>2. due /\ phase = Interval - ((-tick) % Interval)
      BY <2>1 DEF GridInv
    <2>3. (-0) % Interval = 0
      OBVIOUS
    <2>4. tick = 0 => phase = Interval
      BY <2>2, <2>3
    <2> QED
      BY <2>2, <2>4
  <1>2. CadenceInit => SchedulerTypeOK /\ TimersTyped /\ GridInv
    BY LoopStartsTyped, TimersTypedStarts, GridInvStarts DEF CadenceInit
  <1>3. SchedulerTypeOK /\ TimersTyped /\ GridInv /\ [CadenceNext]_vars
            => SchedulerTypeOK' /\ TimersTyped' /\ GridInv'
    BY StepsAreTheLoops, LoopStepsTyped, TimersTypedKept, GridInvKept
  <1> QED
    BY <1>1, <1>2, <1>3, PTL DEF CadenceSpec, NoBurst

-----------------------------------------------------------------------------
(* The way back to a connection *)

LEMMA RecoveryInvStarts ==
    ASSUME CadenceInit
    PROVE  RecoveryInv
  <1>1. blank = 0 /\ wait = 0 /\ trying = 0 /\ next = Initial
    BY DEF CadenceInit, BackoffInit
  <1>2. doomed <=> broker = "away"
    <2>1. doomed = (broker = "away")
      BY DEF CadenceInit
    <2> QED
      BY <2>1, Zenon
  <1>3. Longest(max) \in Nat
    BY SettingsClamped, ScatterGrows
  <1>4. 0 <= AttemptTimeout + Longest(max) + 0 /\ 0 <= 0 /\ ~(0 > 0)
    BY <1>3
  <1> QED
    BY <1>1, <1>2, <1>4 DEF RecoveryInv

\* A failed attempt and a lost connection: the sleep begins with no more time
\* gone by than the attempt took.
LEMMA SleepsKeepRecovery ==
    ASSUME TimersTyped, RecoveryInv, Driving, Retries \/ Loses
    PROVE  RecoveryInv'
  <1>1. Longest(max) \in Nat /\ wait' \in 1..Longest(max)
    BY BacksOffTyped, SettingsClamped, ScatterGrows DEF TimersTyped, Retries, Loses
  <1>2. blank' = blank /\ broker' = broker /\ doomed' = doomed /\ trying' = trying
    BY DEF Driving, Retries, Loses
  <1>3. Unreachable' /\ attached' = attached /\ link' # "connected"
    BY DEF Retries, Loses, EnvRetries, EnvLoses, SetLost, SetState, Unreachable
  <1>4. blank \in Nat /\ trying \in Nat /\ trying <= AttemptTimeout
    BY DEF TimersTyped
  <1>5. blank <= trying
    <2>1. CASE Retries
      <3>1. wait = 0 /\ doomed /\ Unreachable
        BY <2>1 DEF Retries, Attempting
      <3> QED
        BY <3>1 DEF RecoveryInv
    <2>2. CASE Loses
      <3>1. ~Unreachable
        BY <2>2 DEF Loses, EnvLoses, Unreachable
      <3>2. blank = 0
        BY <3>1 DEF RecoveryInv
      <3> QED
        BY <1>4, <3>2
    <2> QED
      BY <2>1, <2>2
  <1>6. blank + wait' <= AttemptTimeout + Longest(max) /\ wait' > 0 /\ wait' # 0
    BY <1>1, <1>4, <1>5
  <1>7. broker = "away" \/ ~attached => blank = 0
    BY DEF RecoveryInv
  <1> QED
    BY <1>2, <1>3, <1>6, <1>7 DEF RecoveryInv

LEMMA OthersKeepRecovery ==
    ASSUME TimersTyped, RecoveryInv, Driving, Connects \/ Others
    PROVE  RecoveryInv'
  <1>1. broker' = broker /\ doomed' = doomed /\ trying' = trying /\ wait' = wait /\ attached
    BY DEF Driving, Connects, Others
  <1>2. /\ Longest(max) \in Nat /\ blank \in Nat /\ trying \in Nat
        /\ wait \in Nat /\ wait <= Longest(max)
    BY SettingsClamped, ScatterGrows DEF TimersTyped
  <1>3. CASE Connects \/ ~attached'
    <2>1. blank' = 0
      BY <1>3 DEF Driving, Connects, Others
    <2>2. link' = "connected" => next' = Initial /\ wait = 0
      BY <1>3 DEF Driving, Connects, Others, Reset, Attempting, EnvTakes, EnvFails,
                  EnvPanics, SetState, RecoveryInv
    <2>3. /\ 0 + wait <= AttemptTimeout + Longest(max)
          /\ 0 <= trying /\ 0 <= AttemptTimeout + Longest(max) + trying
      BY <1>2
    <2>4. broker = "away" => doomed \/ wait > 0
      BY DEF RecoveryInv
    <2> QED
      BY <1>1, <2>1, <2>2, <2>3, <2>4 DEF RecoveryInv
  <1>4. CASE Others /\ attached'
    <2>1. link' = link /\ attached' = attached /\ blank' = blank /\ next' = next
      BY <1>1, <1>4 DEF Others, EnvTakes, EnvFails, EnvPanics
    <2>2. Unreachable' <=> Unreachable
      BY <2>1 DEF Unreachable
    <2> QED
      BY <1>1, <2>1, <2>2 DEF RecoveryInv
  <1> QED
    BY <1>3, <1>4

LEMMA BrokerTurnsKeepsRecovery ==
    ASSUME TimersTyped, RecoveryInv, BrokerTurns
    PROVE  RecoveryInv'
  <1>1. /\ blank' = 0 /\ wait' = wait /\ trying' = trying /\ next' = next
        /\ link' = link /\ attached' = attached
    BY DEF BrokerTurns, schedVars, channelVars
  <1>2. broker' = "away" => doomed'
    BY DEF BrokerTurns, TimersTyped
  <1>3. /\ Longest(max) \in Nat /\ trying \in Nat /\ wait \in Nat /\ wait <= Longest(max)
    BY SettingsClamped, ScatterGrows DEF TimersTyped
  <1>4. /\ 0 + wait <= AttemptTimeout + Longest(max)
        /\ 0 <= trying /\ 0 <= AttemptTimeout + Longest(max) + trying
    BY <1>3
  <1>5. link = "connected" => next = Initial /\ wait = 0
    BY DEF RecoveryInv
  <1> QED
    BY <1>1, <1>2, <1>4, <1>5 DEF RecoveryInv

\* While time passes the sleep runs down as fast as the time without a
\* connection grows, and an attempt grows with it.
LEMMA ElapseKeepsRecovery ==
    ASSUME TimersTyped, RecoveryInv, Elapse
    PROVE  RecoveryInv'
  <1>1. /\ link' = link /\ attached' = attached /\ broker' = broker /\ next' = next
        /\ wait' = IF wait = 0 THEN 0 ELSE wait - 1
        /\ trying' = IF Attempting THEN trying + 1 ELSE 0
        /\ doomed' = IF wait = 1 THEN broker = "away" ELSE doomed
        /\ blank' = IF Unreachable /\ attached /\ broker = "there" THEN blank + 1 ELSE 0
    BY DEF Elapse, schedVars, channelVars
  <1>2. /\ Longest(max) \in Nat /\ blank \in Nat /\ trying \in Nat
        /\ wait \in Nat /\ wait <= Longest(max)
    BY SettingsClamped, ScatterGrows DEF TimersTyped
  <1>3. broker' = "away" \/ ~Unreachable' \/ ~attached' => blank' = 0
    <2>1. broker = "away" => broker # "there"
      OBVIOUS
    <2> QED
      BY <1>1, <2>1 DEF Unreachable
  <1>4. link' = "connected" => next' = Initial /\ wait' = 0
    BY <1>1 DEF RecoveryInv
  <1>5. blank' = 0 \/ blank' = blank + 1
    BY <1>1
  <1>6. CASE wait > 1
    <2>1. blank + wait <= AttemptTimeout + Longest(max)
      BY <1>2, <1>6 DEF RecoveryInv
    <2>2. PICK w \in Nat : wait' = w /\ w > 0 /\ wait = w + 1
      <3>1. wait' = wait - 1 /\ wait - 1 \in Nat /\ wait - 1 > 0 /\ wait = (wait - 1) + 1
        BY <1>1, <1>2, <1>6
      <3> QED
        BY <3>1
    <2>3. blank' + w <= AttemptTimeout + Longest(max) /\ w # 0
      BY <1>2, <1>5, <2>1, <2>2
    <2> QED
      BY <1>3, <1>4, <2>2, <2>3 DEF RecoveryInv
  <1>7. CASE wait = 1
    <2>1. blank + 1 <= AttemptTimeout + Longest(max)
      BY <1>2, <1>7 DEF RecoveryInv
    <2>2. wait' = 0 /\ trying' = 0
      BY <1>1, <1>7 DEF Attempting
    <2>3. doomed' <=> broker' = "away"
      BY <1>1, <1>7
    <2>4. PICK b \in Nat : blank' = b /\ b <= AttemptTimeout + Longest(max) + 0
      <3>1. blank + 1 \in Nat /\ 0 <= AttemptTimeout + Longest(max) + 0
        BY <1>2
      <3>2. blank + 1 <= AttemptTimeout + Longest(max) + 0
        BY <1>2, <2>1
      <3> QED
        BY <1>5, <3>1, <3>2
    <2>5. doomed' => blank' <= 0
      BY <1>3, <2>3
    <2>6. 0 + 0 <= AttemptTimeout + Longest(max) /\ ~(0 > 0)
      BY <1>2
    <2> QED
      BY <1>3, <1>4, <2>2, <2>3, <2>4, <2>5, <2>6 DEF RecoveryInv
  <1>8. CASE wait = 0
    <2>1. wait' = 0 /\ doomed' = doomed /\ ~(0 > 0)
      BY <1>1, <1>8
    <2>2. broker' = "away" => doomed'
      <3>1. ~(wait > 0)
        BY <1>8
      <3> QED
        BY <1>1, <2>1, <3>1 DEF RecoveryInv
    <2>3. CASE Attempting
      <3>1. trying' = trying + 1
        BY <1>1, <2>3
      <3>2. doomed => blank <= trying
        BY <1>8, <2>3 DEF RecoveryInv, Attempting
      <3>3. ~doomed => blank <= AttemptTimeout + Longest(max) + trying
        BY <1>8 DEF RecoveryInv
      <3>4. blank <= trying => blank' <= trying + 1
        BY <1>2, <1>5
      <3>5. blank <= AttemptTimeout + Longest(max) + trying
                => blank' <= AttemptTimeout + Longest(max) + (trying + 1)
        BY <1>2, <1>5
      <3> QED
        BY <1>3, <1>4, <2>1, <2>2, <3>1, <3>2, <3>3, <3>4, <3>5 DEF RecoveryInv
    <2>4. CASE ~Attempting
      <3>1. blank' = 0 /\ trying' = 0
        BY <1>1, <1>8, <2>4 DEF Attempting
      <3>2. 0 <= 0 /\ 0 <= AttemptTimeout + Longest(max) + 0
        BY <1>2
      <3> QED
        BY <1>3, <1>4, <2>1, <2>2, <3>1, <3>2 DEF RecoveryInv
    <2> QED
      BY <2>3, <2>4
  <1> QED
    BY <1>2, <1>6, <1>7, <1>8

LEMMA RecoveryInvKept ==
    ASSUME TimersTyped, RecoveryInv, [CadenceNext]_vars
    PROVE  RecoveryInv'
  <1>1. CASE Loop \/ Runs \/ Stopped \/ UNCHANGED vars
    <2>1. UNCHANGED <<wait, trying, doomed, broker, next, blank>>
      BY <1>1 DEF Loop, Runs, Stopped, vars, timers, history
    <2>2. UNCHANGED <<link, attached>>
      BY <1>1 DEF Loop, Ticks, Wakes, Closes, TickWake, LinkWake, LinkClosed, Examine,
                  Runs, RunEntry, EntryFails, EntryPublishes, Stopped, SchedulerDone,
                  vars, schedVars, channelVars
    <2> QED
      BY <2>1, <2>2 DEF RecoveryInv, Unreachable
  <1> QED
    BY <1>1, SleepsKeepRecovery, OthersKeepRecovery, BrokerTurnsKeepsRecovery,
       ElapseKeepsRecovery DEF CadenceNext, Driving

LEMMA RecoveryInvariant ==
    CadenceSpec => [](TimersTyped /\ RecoveryInv)
  <1>1. CadenceInit => SchedulerTypeOK /\ TimersTyped /\ RecoveryInv
    BY LoopStartsTyped, TimersTypedStarts, RecoveryInvStarts DEF CadenceInit
  <1>2. SchedulerTypeOK /\ TimersTyped /\ RecoveryInv /\ [CadenceNext]_vars
            => SchedulerTypeOK' /\ TimersTyped' /\ RecoveryInv'
    BY StepsAreTheLoops, LoopStepsTyped, TimersTypedKept, RecoveryInvKept
  <1> QED
    BY <1>1, <1>2, PTL DEF CadenceSpec

\* backoff.rs:3-7, 58-68: once the broker can be reached a connection comes
\* within the longest delay and two attempts, however long it was away.
THEOREM ConnectedAgainInTime == CadenceSpec => []RecoversInTime
  <1>1. TimersTyped /\ RecoveryInv => RecoversInTime
    <2> SUFFICES ASSUME TimersTyped, RecoveryInv
                 PROVE  blank <= Longest(max) + 2 * AttemptTimeout
      BY DEF RecoversInTime, LongestOutage
    <2>1. /\ Longest(max) \in Nat /\ blank \in Nat /\ trying \in Nat /\ wait \in Nat
          /\ trying <= AttemptTimeout
      BY SettingsClamped, ScatterGrows DEF TimersTyped
    <2>2. \/ blank + wait <= AttemptTimeout + Longest(max)
          \/ blank <= trying
          \/ blank <= AttemptTimeout + Longest(max) + trying
          \/ blank = 0
      <3>1. wait > 0 \/ wait = 0
        BY <2>1
      <3> QED
        BY <3>1 DEF RecoveryInv
    <2> QED
      BY <2>1, <2>2
  <1> QED
    BY <1>1, RecoveryInvariant, PTL

\* connection.rs:230: the delay after an established connection starts again at
\* the first one, however long the outage before was.
THEOREM OutagesStartAfresh == CadenceSpec => OutagesDoNotAddUp
  <1>1. TimersTyped /\ RecoveryInv /\ Loses => wait' <= Longest(Initial)
    <2> SUFFICES ASSUME TimersTyped, RecoveryInv, Loses
                 PROVE  wait' <= Longest(Initial)
      OBVIOUS
    <2>1. next = Initial
      BY DEF Loses, EnvLoses, RecoveryInv
    <2> QED
      BY <2>1, BacksOffTyped DEF Loses, TimersTyped
  <1> QED
    BY <1>1, RecoveryInvariant, PTL DEF CadenceSpec, OutagesDoNotAddUp

=============================================================================
