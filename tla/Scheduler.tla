----------------------------- MODULE Scheduler ------------------------------
(***************************************************************************)
(* Scheduler::run: the sampling loop.  It sleeps until the next tick (or,  *)
(* while paused, until the link changes), looks at the link, and either    *)
(* skips the cycle or runs every collector in turn and hands each sample   *)
(* to the bounded queue.                                                   *)
(*                                                                         *)
(* The agent runs on one thread.  Another task runs only while the loop is *)
(* at an await point: between cycles, or inside a collector that suspends. *)
(***************************************************************************)
EXTENDS Channels

CONSTANTS
    N,          \* number of enabled collectors
    MaxFrames,  \* most messages one sample becomes; 1 without framing
    Suspending, \* the collectors whose collect() awaits (filesystem, systemd)
    SkipCap,    \* bound: the count of skipped cycles saturates here
    FailCap     \* the counters of consecutive failures saturate here

ASSUME SchedulerAssumption ==
    /\ N \in Nat \ {0}
    /\ MaxFrames \in Nat \ {0}
    /\ Suspending \subseteq 1..N
    /\ SkipCap \in Nat
    /\ FailCap \in Nat

\* Config::validate: room for one sample of every collector and the status.
ASSUME ConfigAssumption == Capacity >= N + 1

VARIABLES
    task,           \* the future of Scheduler::run: running, returned or dropped
    cur,            \* 0 between cycles, else the entry that is being run
    paused,
    ever_connected,
    skipped,
    failures        \* per entry, consecutive failures

loopVars == <<task, cur, paused, ever_connected, skipped, failures>>
schedVars == <<channelVars, loopVars>>

\* Types of the channels and of the loop; the queue respects its bound.
SchedulerTypeOK ==
    /\ ChannelsTypeOK
    /\ task \in {"running", "returned", "dropped"}
    /\ cur \in 0..N
    /\ paused \in BOOLEAN
    /\ ever_connected \in BOOLEAN
    /\ skipped \in 0..SkipCap
    /\ failures \in [1..N -> 0..FailCap]

LoopInit ==
    /\ task = "running"
    /\ cur = 0
    /\ paused = FALSE
    /\ ever_connected = FALSE
    /\ skipped = 0
    /\ failures = [e \in 1..N |-> 0]

-----------------------------------------------------------------------------
Bump(n, cap) == IF n < cap THEN n + 1 ELSE cap

\* Other tasks of the runtime get the thread only here.
AtAwait == cur = 0 \/ cur \in Suspending

MutSkipReturns == task' = "returned" /\ UNCHANGED <<cur, paused, ever_connected, skipped>>

Skip ==
    /\ paused' = TRUE
    /\ skipped' = Bump(skipped, SkipCap)
    /\ UNCHANGED <<task, cur, ever_connected>>

Return == task' = "returned" /\ UNCHANGED <<cur, paused, ever_connected, skipped>>

MutStartIgnoredWhilePaused ==
    /\ cur' = IF paused THEN 0 ELSE 1
    /\ ever_connected' = TRUE
    /\ UNCHANGED <<task, paused, skipped>>

StartCycle ==
    /\ cur' = 1
    /\ paused' = FALSE
    /\ skipped' = IF paused THEN 0 ELSE skipped
    /\ ever_connected' = TRUE
    /\ UNCHANGED task

\* The part of the loop body before the cycle: the link is read and marked as
\* seen, and decides whether the loop ends, skips or runs.
Examine ==
    /\ unseen' = FALSE
    /\ CASE link = "fatal" -> Return
         [] link = "connected" -> StartCycle
         [] OTHER -> Skip
    /\ UNCHANGED <<link, queue, attached, failures>>

Waiting == task = "running" /\ cur = 0

\* The ticker fires.  Ticks missed during a long cycle are skipped, so there
\* is never more than one to take.
TickWake ==
    /\ Waiting
    /\ Examine

\* link.changed() in the paused select; the ticker is reset.
LinkWake ==
    /\ Waiting
    /\ paused
    /\ unseen
    /\ Examine

\* link.changed() fails: the sender is gone and its last value was seen.
LinkClosed ==
    /\ Waiting
    /\ paused
    /\ ~unseen
    /\ ~attached
    /\ Return
    /\ UNCHANGED <<channelVars, failures>>

-----------------------------------------------------------------------------
MutAdvanceRestarts(outcome) ==
    /\ cur' = IF cur = N THEN 1 ELSE cur + 1
    /\ failures' = [failures EXCEPT ![cur] =
                        IF outcome = "ok" THEN 0 ELSE Bump(@, FailCap)]

\* The bookkeeping at the end of run_entry, and the for loop's next entry.
Advance(outcome) ==
    /\ cur' = IF cur = N THEN 0 ELSE cur + 1
    /\ failures' = [failures EXCEPT ![cur] =
                        IF outcome = "ok" THEN 0 ELSE Bump(@, FailCap)]

\* collect() failed or ran into COLLECT_TIMEOUT, or the sample could not be
\* encoded or was larger than a packet: nothing was queued.
EntryFails ==
    /\ task = "running"
    /\ cur # 0
    /\ Advance("failed")
    /\ UNCHANGED <<channelVars, task, paused, ever_connected, skipped>>

MutRoom(frames) == frames

\* How many of the frames the queue takes before it refuses one.
Room(frames) ==
    IF ~attached THEN 0
    ELSE IF Capacity - Len(queue) < frames THEN Capacity - Len(queue) ELSE frames

\* collect() answered and publish() queues the frames one by one, stopping at
\* the first that is refused; those before it stay queued.
EntryPublishes(frames) ==
    /\ task = "running"
    /\ cur # 0
    /\ queue' = queue \o [i \in 1..Room(frames) |-> "sample"]
    /\ Advance(IF Room(frames) = frames THEN "ok" ELSE "refused")
    /\ UNCHANGED <<link, unseen, attached, task, paused, ever_connected, skipped>>

RunEntry == EntryFails \/ \E frames \in 1..MaxFrames : EntryPublishes(frames)

SchedulerStep == TickWake \/ LinkWake \/ LinkClosed \/ RunEntry

-----------------------------------------------------------------------------
(***************************************************************************)
(* The rest of the process as this task sees it: what Driver::run does to  *)
(* the two channels.  Agent.tla replaces this by the driver itself.        *)
(***************************************************************************)
Unreachable == link \in {"connecting", "reconnecting"}

EnvConnects ==
    /\ Unreachable
    /\ SetState("connected")
    /\ queue' = TrySend(queue, "online")
    /\ UNCHANGED attached

\* A failed attempt.
EnvRetries ==
    /\ Unreachable
    /\ SetLost
    /\ UNCHANGED <<queue, attached>>

\* A lost connection; rumqttc moves the queued requests to its replay list.
EnvLoses ==
    /\ link = "connected"
    /\ SetLost
    /\ queue' = <<>>
    /\ UNCHANGED attached

\* A request is taken and written.
EnvTakes ==
    /\ link = "connected"
    /\ queue # <<>>
    /\ queue' = Tail(queue)
    /\ UNCHANGED <<link, unseen, attached>>

EnvFails ==
    /\ Unreachable \/ link = "connected"
    /\ SetState("fatal")
    /\ queue' = <<>>
    /\ attached' = FALSE

\* The driver task panics: the channels close, the last state stays readable.
EnvPanics ==
    /\ link # "fatal"
    /\ attached' = FALSE
    /\ queue' = <<>>
    /\ UNCHANGED <<link, unseen>>

Environment ==
    /\ attached
    /\ AtAwait
    /\ \/ EnvConnects \/ EnvRetries \/ EnvLoses
       \/ EnvTakes \/ EnvFails \/ EnvPanics
    /\ UNCHANGED loopVars

\* The loop has returned; main takes over.
SchedulerDone == task = "returned" /\ UNCHANGED schedVars

SchedulerInit == ChannelsInit /\ LoopInit

SchedulerNext == SchedulerStep \/ Environment \/ SchedulerDone

\* Without time and fairness; Cadence.tla adds both.
SchedulerSpec == SchedulerInit /\ [][SchedulerNext]_schedVars

-----------------------------------------------------------------------------
(* Properties *)

\* No wake-up is lost between the read of the link and the next wait: a paused
\* loop has never already consumed the news that ends its pause
\* (scheduler.rs:112-114, the order of changed() and borrow_and_update()).
NoLostWakeup ==
    Waiting /\ paused /\ link \in {"connected", "fatal"} => unseen

\* What an outage leaves in the queue is at most the rest of the cycle it
\* interrupted, so the backlog never outgrows one cycle however long or often
\* the broker is away (scheduler.rs:147-152 does not look at the link again).
Backlog(c) == (IF c = 0 THEN N ELSE c - 1) * MaxFrames

OutageBacklog == Unreachable => Len(queue) <= Backlog(cur)

\* The figure logged at a resume belongs to the pause that ends there: the
\* count is zero outside a pause and at least one inside.
SkippedBelongsToPause == paused <=> skipped > 0

\* A cycle cannot outlive an outage: when the broker stays away the loop comes
\* to rest between cycles, paused.
OutagePauses == <>[](Unreachable /\ attached) => <>[](cur = 0 /\ paused)

=============================================================================
