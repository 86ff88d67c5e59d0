--------------------------- MODULE SchedulerProofs ---------------------------
(***************************************************************************)
(* What holds of the sampling loop for every number of collectors, frames  *)
(* and queue slots, whatever the connection does: its types, that no       *)
(* wake-up is lost and no count of skipped cycles survives its pause, and  *)
(* that the backlog of an outage is less than a cycle.                     *)
(***************************************************************************)
EXTENDS Scheduler, TLAPS

USE CapacityAssumption, SchedulerAssumption
    DEF CapacityAssumption, SchedulerAssumption

-----------------------------------------------------------------------------
(* The queue *)

\* AsyncClient::try_publish: the queue stays a queue of requests within its
\* bound, and grows by one request at most.
LEMMA TrySendTyped ==
    ASSUME NEW q \in Seq(Request), Len(q) <= Capacity, NEW r \in Request
    PROVE  /\ TrySend(q, r) \in Seq(Request)
           /\ Len(TrySend(q, r)) <= Capacity
           /\ Len(TrySend(q, r)) <= Len(q) + 1
  BY DEF TrySend

\* Publisher::publish: of a sample's frames the queue takes as many as fit.
LEMMA RoomFits ==
    ASSUME SchedulerTypeOK, NEW frames \in 1..MaxFrames
    PROVE  /\ Room(frames) \in 0..frames
           /\ Len(queue) + Room(frames) <= Capacity
  BY DEF Room, SchedulerTypeOK, ChannelsTypeOK

LEMMA SamplesTyped ==
    ASSUME SchedulerTypeOK, NEW frames \in 1..MaxFrames
    PROVE  LET q == queue \o [i \in 1..Room(frames) |-> "sample"]
           IN  /\ q \in Seq(Request)
               /\ Len(q) = Len(queue) + Room(frames)
  <1> DEFINE new == [i \in 1..Room(frames) |-> "sample"]
  <1>1. Room(frames) \in Nat
    BY RoomFits
  <1>2. new \in Seq(Request)
    BY <1>1 DEF Request
  <1>3. Len(new) = Room(frames)
    BY <1>1
  <1>4. queue \in Seq(Request)
    BY DEF SchedulerTypeOK, ChannelsTypeOK
  <1> HIDE DEF new
  <1>5. queue \o new \in Seq(Request) /\ Len(queue \o new) = Len(queue) + Len(new)
    BY <1>2, <1>4
  <1> QED
    BY <1>3, <1>5 DEF new

-----------------------------------------------------------------------------
(* Types *)

LEMMA BumpTyped ==
    ASSUME NEW cap \in Nat, NEW n \in 0..cap
    PROVE  Bump(n, cap) \in 0..cap
  BY DEF Bump

LEMMA ExamineTyped ==
    ASSUME SchedulerTypeOK, Waiting, Examine
    PROVE  SchedulerTypeOK'
  <1>1. ChannelsTypeOK'
    BY DEF Examine, SchedulerTypeOK, ChannelsTypeOK, ConnectionState
  <1>2. failures' \in [1..N -> 0..FailCap]
    BY DEF Examine, SchedulerTypeOK
  <1>3. CASE Return
    BY <1>1, <1>2, <1>3 DEF Return, SchedulerTypeOK
  <1>4. CASE StartCycle
    <2>1. 1 \in 0..N /\ 0 \in 0..SkipCap
      OBVIOUS
    <2> QED
      BY <1>1, <1>2, <1>4, <2>1 DEF StartCycle, SchedulerTypeOK
  <1>5. CASE Skip
    BY <1>1, <1>2, <1>5, BumpTyped DEF Skip, SchedulerTypeOK
  <1> QED
    BY <1>3, <1>4, <1>5 DEF Examine

LEMMA AdvanceTyped ==
    ASSUME SchedulerTypeOK, cur # 0, NEW outcome_, Advance(outcome_)
    PROVE  cur' \in 0..N /\ failures' \in [1..N -> 0..FailCap]
  <1>1. cur' \in 0..N
    BY DEF Advance, SchedulerTypeOK
  <1>2. FailCap \in Nat /\ failures[cur] \in 0..FailCap
    BY DEF SchedulerTypeOK
  <1>3. Bump(failures[cur], FailCap) \in 0..FailCap
    BY <1>2, BumpTyped
  <1> QED
    BY <1>1, <1>2, <1>3 DEF Advance, SchedulerTypeOK

\* A step of Scheduler::run keeps the types of the channels and the loop.
LEMMA SchedulerStepTyped ==
    ASSUME SchedulerTypeOK, SchedulerStep
    PROVE  SchedulerTypeOK'
  <1>1. CASE TickWake
    BY <1>1, ExamineTyped DEF TickWake
  <1>2. CASE LinkWake
    BY <1>2, ExamineTyped DEF LinkWake
  <1>3. CASE LinkClosed
    BY <1>3 DEF LinkClosed, Return, SchedulerTypeOK, ChannelsTypeOK, channelVars
  <1>4. CASE EntryFails
    BY <1>4, AdvanceTyped DEF EntryFails, SchedulerTypeOK, ChannelsTypeOK, channelVars
  <1>5. ASSUME NEW frames \in 1..MaxFrames, EntryPublishes(frames)
        PROVE  SchedulerTypeOK'
    <2>1. queue' \in Seq(Request) /\ Len(queue') <= Capacity
      BY <1>5, SamplesTyped, RoomFits DEF EntryPublishes
    <2>2. ChannelsTypeOK'
      BY <1>5, <2>1 DEF EntryPublishes, SchedulerTypeOK, ChannelsTypeOK
    <2>3. cur' \in 0..N /\ failures' \in [1..N -> 0..FailCap]
      BY <1>5, AdvanceTyped DEF EntryPublishes
    <2> QED
      BY <1>5, <2>2, <2>3 DEF EntryPublishes, SchedulerTypeOK
  <1> QED
    BY <1>1, <1>2, <1>3, <1>4, <1>5 DEF SchedulerStep, RunEntry

\* Neither does what the driver does to the channels disturb them.
LEMMA EnvironmentTyped ==
    ASSUME SchedulerTypeOK, Environment
    PROVE  SchedulerTypeOK'
  <1> USE DEF Unreachable, SetState, SetLost, loopVars, ConnectionState
  <1>1. "online" \in Request /\ queue \in Seq(Request) /\ Len(queue) <= Capacity
    BY DEF Request, SchedulerTypeOK, ChannelsTypeOK
  <1>2. <<>> \in Seq(Request) /\ Len(<<>>) <= Capacity
    OBVIOUS
  <1>3. ChannelsTypeOK'
    <2>1. CASE EnvConnects
      BY <2>1, <1>1, TrySendTyped DEF EnvConnects, SchedulerTypeOK, ChannelsTypeOK
    <2>2. CASE EnvRetries
      BY <2>2 DEF EnvRetries, SchedulerTypeOK, ChannelsTypeOK
    <2>3. CASE EnvLoses
      BY <2>3, <1>2 DEF EnvLoses, SchedulerTypeOK, ChannelsTypeOK
    <2>4. CASE EnvTakes
      <3>1. Tail(queue) \in Seq(Request) /\ Len(Tail(queue)) <= Len(queue)
        BY <2>4, <1>1 DEF EnvTakes
      <3> QED
        BY <2>4, <1>1, <3>1 DEF EnvTakes, SchedulerTypeOK, ChannelsTypeOK
    <2>5. CASE EnvFails
      BY <2>5, <1>2 DEF EnvFails, SchedulerTypeOK, ChannelsTypeOK
    <2>6. CASE EnvPanics
      BY <2>6, <1>2 DEF EnvPanics, SchedulerTypeOK, ChannelsTypeOK
    <2> QED
      BY <2>1, <2>2, <2>3, <2>4, <2>5, <2>6 DEF Environment
  <1> QED
    BY <1>3 DEF Environment, SchedulerTypeOK

LEMMA LoopStartsTyped ==
    ASSUME SchedulerInit
    PROVE  SchedulerTypeOK
  <1>1. <<>> \in Seq(Request) /\ Len(<<>>) <= Capacity
    OBVIOUS
  <1>2. ChannelsTypeOK
    BY <1>1 DEF SchedulerInit, ChannelsInit, ChannelsTypeOK, ConnectionState
  <1>3. 0 \in 0..N /\ 0 \in 0..SkipCap /\ [e \in 1..N |-> 0] \in [1..N -> 0..FailCap]
    OBVIOUS
  <1> QED
    BY <1>2, <1>3 DEF SchedulerInit, LoopInit, SchedulerTypeOK

LEMMA LoopStepsTyped ==
    ASSUME SchedulerTypeOK, [SchedulerNext]_schedVars
    PROVE  SchedulerTypeOK'
  <1>1. CASE UNCHANGED schedVars
    BY <1>1 DEF schedVars, channelVars, loopVars, SchedulerTypeOK, ChannelsTypeOK
  <1> QED
    BY <1>1, SchedulerStepTyped, EnvironmentTyped DEF SchedulerNext, SchedulerDone

\* The types of the channels and the loop; the queue keeps within its bound.
THEOREM LoopTypeCorrect == SchedulerSpec => []SchedulerTypeOK
  BY LoopStartsTyped, LoopStepsTyped, PTL DEF SchedulerSpec

-----------------------------------------------------------------------------
(* Pauses *)

\* A cycle is never run during a pause, and the news that ends a pause is still
\* to be seen.
PauseInv ==
    /\ cur # 0 => ~paused
    /\ NoLostWakeup

LEMMA PauseInvKept ==
    ASSUME SchedulerTypeOK, PauseInv, [SchedulerNext]_schedVars
    PROVE  PauseInv'
  <1> USE DEF PauseInv, NoLostWakeup, Waiting
  <1>1. CASE TickWake \/ LinkWake
    <2>1. Examine /\ Waiting
      BY <1>1 DEF TickWake, LinkWake
    <2> QED
      BY <2>1 DEF Examine, Return, StartCycle, Skip
  <1>2. CASE LinkClosed
    BY <1>2 DEF LinkClosed, Return
  <1>3. CASE RunEntry
    <2>1. cur # 0 /\ UNCHANGED <<link, unseen, paused>>
      BY <1>3 DEF RunEntry, EntryFails, EntryPublishes, channelVars
    <2> QED
      BY <2>1
  <1>4. CASE Environment
    <2>1. UNCHANGED <<task, cur, paused>>
      BY <1>4 DEF Environment, loopVars
    <2>2. CASE EnvConnects
      BY <2>1, <2>2 DEF EnvConnects, Unreachable, SetState
    <2>3. CASE EnvRetries \/ EnvLoses
      BY <2>1, <2>3 DEF EnvRetries, EnvLoses, SetLost
    <2>4. CASE EnvTakes \/ EnvPanics
      BY <2>1, <2>4 DEF EnvTakes, EnvPanics
    <2>5. CASE EnvFails
      BY <2>1, <2>5 DEF EnvFails, Unreachable, SetState
    <2> QED
      BY <1>4, <2>2, <2>3, <2>4, <2>5 DEF Environment
  <1>5. CASE UNCHANGED schedVars
    BY <1>5 DEF schedVars, channelVars, loopVars
  <1> QED
    BY <1>1, <1>2, <1>3, <1>4, <1>5 DEF SchedulerNext, SchedulerStep, SchedulerDone

LEMMA PauseInvStarts ==
    ASSUME SchedulerInit
    PROVE  PauseInv
  BY DEF SchedulerInit, ChannelsInit, LoopInit, PauseInv, NoLostWakeup

\* scheduler.rs:112-114: the read of the link and the wait for its next change
\* leave no gap, so a paused loop never sleeps through a reconnect or a fatal
\* error.
THEOREM WakeUpsAreKept == SchedulerSpec => []NoLostWakeup
  <1>1. PauseInv => NoLostWakeup
    BY DEF PauseInv
  <1> QED
    BY <1>1, PauseInvStarts, PauseInvKept, LoopTypeCorrect, PTL DEF SchedulerSpec

\* scheduler.rs:126-139: the count that is logged at a resume was counted in
\* the pause that ends there, as long as the count is kept at all.
THEOREM SkipsAreCountedPerPause ==
    ASSUME SkipCap > 0
    PROVE  SchedulerSpec => []SkippedBelongsToPause
  <1>1. SchedulerInit => SkippedBelongsToPause
    BY DEF SchedulerInit, LoopInit, SkippedBelongsToPause
  <1>2. ASSUME SchedulerTypeOK, PauseInv, SkippedBelongsToPause, [SchedulerNext]_schedVars
        PROVE  SkippedBelongsToPause'
    <2> USE <1>2 DEF SkippedBelongsToPause
    <2>0. skipped \in 0..SkipCap /\ paused \in BOOLEAN
      BY DEF SchedulerTypeOK
    <2>1. CASE TickWake \/ LinkWake
      <3>1. Return \/ StartCycle \/ Skip
        BY <2>1 DEF TickWake, LinkWake, Examine
      <3>2. CASE Skip
        BY <3>2, <2>0, SkipCap > 0 DEF Skip, Bump
      <3> QED
        BY <3>1, <3>2, <2>0 DEF Return, StartCycle
    <2>2. CASE LinkClosed
      BY <2>2 DEF LinkClosed, Return
    <2>3. CASE RunEntry
      <3>1. UNCHANGED <<paused, skipped>>
        BY <2>3 DEF RunEntry, EntryFails, EntryPublishes
      <3> QED
        BY <3>1
    <2>4. CASE Environment \/ UNCHANGED schedVars
      BY <2>4 DEF Environment, schedVars, loopVars
    <2> QED
      BY <2>1, <2>2, <2>3, <2>4 DEF SchedulerNext, SchedulerStep, SchedulerDone
  <1> QED
    BY <1>1, <1>2, LoopTypeCorrect, PauseInvStarts, PauseInvKept, PTL DEF SchedulerSpec

-----------------------------------------------------------------------------
(* Backlog *)

LEMMA SchedulerStepLeavesLink == SchedulerStep => link' = link
  BY DEF SchedulerStep, TickWake, LinkWake, LinkClosed, RunEntry, EntryFails,
         EntryPublishes, Examine, channelVars

\* Backlog(c): what the entries before the current one may have queued.
LEMMA BacklogBounds ==
    ASSUME NEW c \in 0..N
    PROVE  /\ Backlog(c) \in Nat
           /\ Backlog(c) <= Backlog(0)
           /\ c # 0 => Backlog(IF c = N THEN 0 ELSE c + 1) = Backlog(c) + MaxFrames
  <1>1. \A a, b \in Nat : a <= b => a * MaxFrames \in Nat /\ a * MaxFrames <= b * MaxFrames
    OBVIOUS
  <1>2. \A a \in Nat : (a + 1) * MaxFrames = a * MaxFrames + MaxFrames
    OBVIOUS
  <1>3. CASE c = 0
    BY <1>1, <1>3 DEF Backlog
  <1>4. CASE c # 0
    <2>1. c - 1 \in Nat /\ c - 1 <= N /\ (c - 1) + 1 = c
      BY <1>4
    <2>2. (c - 1) * MaxFrames \in Nat /\ (c - 1) * MaxFrames <= N * MaxFrames
      BY <1>1, <2>1
    <2>3. c * MaxFrames = (c - 1) * MaxFrames + MaxFrames
      BY <1>2, <2>1
    <2>4. Backlog(IF c = N THEN 0 ELSE c + 1) = c * MaxFrames
      <3>1. CASE c = N
        BY <1>4, <3>1 DEF Backlog
      <3>2. CASE c # N
        <4>1. c + 1 # 0 /\ (c + 1) - 1 = c
          BY <1>4
        <4> QED
          BY <3>2, <4>1 DEF Backlog
      <3> QED
        BY <3>1, <3>2
    <2> QED
      BY <1>4, <2>2, <2>3, <2>4 DEF Backlog
  <1> QED
    BY <1>3, <1>4

\* A step of the loop during an outage: only the entries of the cycle that is
\* under way add to the queue, each at most its frames.
LEMMA SchedulerStepBacklog ==
    ASSUME SchedulerTypeOK, OutageBacklog, SchedulerStep
    PROVE  OutageBacklog'
  <1> SUFFICES ASSUME Unreachable PROVE Len(queue') <= Backlog(cur')
    BY SchedulerStepLeavesLink DEF OutageBacklog, Unreachable, Backlog
  <1>0. /\ cur \in 0..N /\ cur' \in 0..N
        /\ Len(queue) \in Nat
        /\ Len(queue) <= Backlog(cur)
    BY SchedulerStepTyped DEF OutageBacklog, SchedulerTypeOK, ChannelsTypeOK
  <1>1. CASE TickWake \/ LinkWake
    <2>1. Skip /\ queue' = queue
      BY <1>1 DEF TickWake, LinkWake, Examine, Unreachable
    <2> QED
      BY <1>0, <2>1 DEF Skip
  <1>2. CASE LinkClosed
    BY <1>0, <1>2 DEF LinkClosed, Return, channelVars
  <1>3. ASSUME cur # 0, cur' = IF cur = N THEN 0 ELSE cur + 1,
               Len(queue') <= Len(queue) + MaxFrames, Len(queue') \in Nat
        PROVE  Len(queue') <= Backlog(cur')
    BY <1>0, <1>3, BacklogBounds
  <1>4. CASE EntryFails
    BY <1>0, <1>3, <1>4 DEF EntryFails, Advance, channelVars
  <1>5. ASSUME NEW frames \in 1..MaxFrames, EntryPublishes(frames)
        PROVE  Len(queue') <= Backlog(cur')
    <2>1. Len(queue') = Len(queue) + Room(frames) /\ Room(frames) \in 0..frames
      BY <1>5, SamplesTyped, RoomFits DEF EntryPublishes
    <2> QED
      BY <1>0, <1>3, <1>5, <2>1 DEF EntryPublishes, Advance
  <1> QED
    BY <1>1, <1>2, <1>4, <1>5 DEF SchedulerStep, RunEntry

LEMMA OutageBacklogKept ==
    ASSUME SchedulerTypeOK, OutageBacklog, [SchedulerNext]_schedVars
    PROVE  OutageBacklog'
  <1>1. CASE SchedulerStep
    BY <1>1, SchedulerStepBacklog
  <1>2. CASE Environment
    <2>1. cur' = cur
      BY <1>2 DEF Environment, loopVars
    <2>2. CASE EnvConnects \/ EnvFails \/ EnvTakes
      BY <2>2 DEF EnvConnects, EnvFails, EnvTakes, SetState, Unreachable, OutageBacklog
    <2>3. CASE EnvRetries
      BY <2>1, <2>3 DEF EnvRetries, OutageBacklog, Backlog
    <2>4. CASE EnvLoses \/ EnvPanics
      <3>1. queue' = <<>> /\ Len(<<>>) = 0
        BY <2>4 DEF EnvLoses, EnvPanics
      <3>2. Backlog(cur) \in Nat
        BY BacklogBounds DEF SchedulerTypeOK
      <3>3. Len(queue') <= Backlog(cur')
        BY <2>1, <3>1, <3>2
      <3> QED
        BY <3>3 DEF OutageBacklog, Backlog
    <2> QED
      BY <1>2, <2>2, <2>3, <2>4 DEF Environment
  <1>3. CASE UNCHANGED schedVars
    BY <1>3 DEF schedVars, channelVars, loopVars, OutageBacklog, Unreachable, Backlog
  <1> QED
    BY <1>1, <1>2, <1>3 DEF SchedulerNext, SchedulerDone

\* scheduler.rs:147-152: a cycle does not look at the link again, yet what an
\* outage finds queued is less than one cycle, whatever the outages before left.
THEOREM OutagesLeaveLittle == SchedulerSpec => []OutageBacklog
  <1>1. SchedulerInit => OutageBacklog
    <2> SUFFICES ASSUME SchedulerInit
                 PROVE  OutageBacklog
      OBVIOUS
    <2>1. queue = <<>> /\ cur = 0 /\ Len(<<>>) = 0 /\ 0 \in 0..N
      BY DEF SchedulerInit, ChannelsInit, LoopInit
    <2>2. Backlog(0) \in Nat
      BY <2>1, BacklogBounds
    <2> QED
      BY <2>1, <2>2 DEF OutageBacklog
  <1> QED
    BY <1>1, OutageBacklogKept, LoopTypeCorrect, PTL DEF SchedulerSpec

=============================================================================
