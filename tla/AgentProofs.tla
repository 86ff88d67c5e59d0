---------------------------- MODULE AgentProofs -----------------------------
(***************************************************************************)
(* What holds of the agent for every number of collectors, capacity, frame *)
(* count and timeout: its types, the agreement of the watch state with the *)
(* socket, the bound on what an outage leaves in the queue, from these the *)
(* room for "online", and the promise of the status topic                  *)
(* (StatusTopic.tla), through losses, takeovers, replays, full queues,     *)
(* aborted shutdowns, kills and restarts.                                  *)
(***************************************************************************)
EXTENDS Agent, SchedulerProofs

USE CapacityAssumption, SchedulerAssumption, DriverAssumption, AgentAssumption
    DEF CapacityAssumption, SchedulerAssumption, DriverAssumption, AgentAssumption

-----------------------------------------------------------------------------
(* The queue *)

\* Driver::disconnect: so do its two sends.
LEMMA GoodbyeTyped ==
    ASSUME NEW q \in Seq(Request), Len(q) <= Capacity
    PROVE  /\ Goodbye(q) \in Seq(Request)
           /\ Len(Goodbye(q)) <= Capacity
  <1>1. "offline" \in Request /\ "disconnect" \in Request
    BY DEF Request
  <1> QED
    BY <1>1, TrySendTyped DEF Goodbye

-----------------------------------------------------------------------------
(* Types *)

LEMMA FinishTyped ==
    ASSUME NEW result \in {"none", "ok", "fatal", "aborted"}, Finish(result)
    PROVE  /\ queue' \in Seq(Request) /\ Len(queue') <= Capacity
           /\ attached' \in BOOLEAN
           /\ driver' \in {"poll", "sleep", "flush", "done"}
           /\ outcome' \in {"none", "ok", "fatal", "aborted"}
           /\ net' \in {"down", "up"}
           /\ pending' \in Seq(Request)
           /\ unacked' \in Seq(Request)
           /\ acks' \in Nat
  <1>1. <<>> \in Seq(Request) /\ Len(<<>>) <= Capacity
    OBVIOUS
  <1> QED
    BY <1>1 DEF Finish

LEMMA SetStateTyped ==
    ASSUME DriverTypeOK, NEW next \in ConnectionState, SetState(next)
    PROVE  link' \in ConnectionState /\ unseen' \in BOOLEAN
  BY DEF SetState, DriverTypeOK, ChannelsTypeOK

LEMMA NextRequestTyped ==
    ASSUME DriverTypeOK, MayTake
    PROVE  NextRequest \in Request
  BY DEF DriverTypeOK, ChannelsTypeOK, MayTake, NextRequest

LEMMA OnWireTyped ==
    ASSUME DriverTypeOK, NEW r \in Request, OnWire(r)
    PROVE  wire' \in Seq(Request)
  BY DEF OnWire, DriverTypeOK

LEMMA TakeRequestTyped ==
    ASSUME DriverTypeOK, MayTake, TakeRequest
    PROVE  /\ pending' \in Seq(Request)
           /\ queue' \in Seq(Request)
           /\ Len(queue') <= Len(queue)
  <1>1. pending \in Seq(Request) /\ queue \in Seq(Request)
    BY DEF DriverTypeOK, ChannelsTypeOK
  <1>2. CASE pending # <<>>
    <2>1. Tail(pending) \in Seq(Request)
      BY <1>1, <1>2
    <2>2. pending' = Tail(pending) /\ queue' = queue
      BY <1>2 DEF TakeRequest
    <2> QED
      BY <1>1, <2>1, <2>2
  <1>3. CASE pending = <<>>
    <2>1. queue # <<>>
      BY <1>3 DEF MayTake
    <2>2. Tail(queue) \in Seq(Request) /\ Len(Tail(queue)) <= Len(queue)
      BY <1>1, <2>1
    <2> QED
      BY <1>1, <1>3, <2>2 DEF TakeRequest
  <1> QED
    BY <1>2, <1>3

LEMMA ConnectTyped ==
    ASSUME DriverTypeOK, NEW resumed \in BOOLEAN, ConnectOk(resumed)
    PROVE  DriverTypeOK'
  <1>1. link' \in ConnectionState /\ unseen' \in BOOLEAN
    BY SetStateTyped DEF ConnectOk, ConnectionState
  <1>2. queue' \in Seq(Request) /\ Len(queue') <= Capacity
    <2>1. "online" \in Request /\ queue \in Seq(Request) /\ Len(queue) <= Capacity
      BY DEF Request, DriverTypeOK, ChannelsTypeOK
    <2> QED
      BY <2>1, TrySendTyped DEF ConnectOk
  <1>3. pending' \in Seq(Request) /\ wire' \in Seq(Request)
    BY DEF ConnectOk, DriverTypeOK
  <1> QED
    BY <1>1, <1>2, <1>3 DEF ConnectOk, DriverTypeOK, ChannelsTypeOK, Will, taskVars

LEMMA LostTyped ==
    ASSUME DriverTypeOK, ConnectFails \/ Loses
    PROVE  DriverTypeOK'
  <1>1. CASE Retry
    <2>1. link' \in ConnectionState /\ unseen' \in BOOLEAN
      BY <1>1 DEF Retry, SetLost, ConnectionState
    <2>2. /\ queue' \in Seq(Request) /\ Len(queue') <= Capacity
          /\ net' \in {"down", "up"}
          /\ pending' \in Seq(Request)
          /\ unacked' \in Seq(Request)
          /\ acks' \in Nat
      <3>1. CASE Clean
        BY <3>1 DEF Clean, DriverTypeOK, ChannelsTypeOK
      <3>2. CASE UNCHANGED <<queue, net, pending, unacked, acks>>
        BY <3>2 DEF DriverTypeOK, ChannelsTypeOK
      <3>3. CASE GiveUp
        BY <3>3, FinishTyped DEF GiveUp
      <3> QED
        BY <3>1, <3>2, <3>3 DEF ConnectFails, Loses
    <2>3. wire' = wire /\ session' = session /\ retained' = retained
      BY DEF ConnectFails, Loses, brokerVars
    <2> QED
      BY <1>1, <2>1, <2>2, <2>3 DEF Retry, DriverTypeOK, ChannelsTypeOK
  <1>2. CASE GiveUp
    <2>1. link' \in ConnectionState /\ unseen' \in BOOLEAN
      BY <1>2, SetStateTyped DEF GiveUp, ConnectionState
    <2>2. wire' = wire /\ session' = session /\ retained' = retained
      BY DEF ConnectFails, Loses, brokerVars
    <2> QED
      BY <1>2, <2>1, <2>2, FinishTyped DEF GiveUp, DriverTypeOK, ChannelsTypeOK
  <1> QED
    BY <1>1, <1>2 DEF ConnectFails, Loses

LEMMA WritesTyped ==
    ASSUME DriverTypeOK, Writes
    PROVE  DriverTypeOK'
  <1>1. NextRequest \in Request
    BY NextRequestTyped DEF Writes
  <1>2. /\ pending' \in Seq(Request)
        /\ queue' \in Seq(Request)
        /\ Len(queue') <= Len(queue)
    BY TakeRequestTyped DEF Writes
  <1>3. wire' \in Seq(Request)
    BY <1>1, OnWireTyped DEF Writes
  <1>4. unacked' \in Seq(Request)
    BY <1>1 DEF Writes, DriverTypeOK
  <1>5. Len(queue') <= Capacity
    BY <1>2 DEF DriverTypeOK, ChannelsTypeOK
  <1> QED
    BY <1>2, <1>3, <1>4, <1>5
    DEF Writes, DriverTypeOK, ChannelsTypeOK, taskVars, brokerVars

LEMMA FlushEndsTyped ==
    ASSUME DriverTypeOK, FlushEnds, wire' \in Seq(Request), UNCHANGED brokerVars
    PROVE  DriverTypeOK'
  <1>1. link' \in ConnectionState /\ unseen' \in BOOLEAN
    BY SetStateTyped DEF FlushEnds, ConnectionState
  <1> QED
    BY <1>1, FinishTyped DEF FlushEnds, DriverTypeOK, ChannelsTypeOK, brokerVars

\* A step of the driver task and of rumqttc's event loop under it.
LEMMA DriverStepTyped ==
    ASSUME DriverTypeOK, DriverStep
    PROVE  DriverTypeOK'
  <1>1. ASSUME NEW resumed \in BOOLEAN, ConnectOk(resumed) PROVE DriverTypeOK'
    BY <1>1, ConnectTyped
  <1>2. CASE ConnectFails \/ Loses
    BY <1>2, LostTyped
  <1>3. CASE BackoffEnds
    BY <1>3 DEF BackoffEnds, DriverTypeOK, ChannelsTypeOK, channelVars, netVars, brokerVars
  <1>4. CASE Writes
    BY <1>4, WritesTyped
  <1>5. CASE Acknowledged
    <2>1. acks' \in Nat /\ unacked' \in Seq(Request)
      BY <1>5 DEF Acknowledged, DriverTypeOK
    <2> QED
      BY <1>5, <2>1
      DEF Acknowledged, DriverTypeOK, ChannelsTypeOK, channelVars, taskVars, brokerVars
  <1>6. CASE StopsAsleep
    BY <1>6, FinishTyped DEF StopsAsleep, DriverTypeOK, ChannelsTypeOK, brokerVars
  <1>7. CASE StopsUnconnected
    <2>1. link' \in ConnectionState /\ unseen' \in BOOLEAN
      BY <1>7, SetStateTyped DEF StopsUnconnected, ConnectionState
    <2> QED
      BY <1>7, <2>1, FinishTyped
      DEF StopsUnconnected, DriverTypeOK, ChannelsTypeOK, brokerVars
  <1>8. CASE StartsFlush
    <2>1. queue' \in Seq(Request) /\ Len(queue') <= Capacity
      <3>1. queue \in Seq(Request) /\ Len(queue) <= Capacity
        BY DEF DriverTypeOK, ChannelsTypeOK
      <3> QED
        BY <1>8, <3>1, GoodbyeTyped DEF StartsFlush
    <2> QED
      BY <1>8, <2>1 DEF StartsFlush, DriverTypeOK, ChannelsTypeOK, netVars, brokerVars
  <1>9. CASE WritesDisconnect
    <2>1. wire' \in Seq(Request)
      BY <1>9, OnWireTyped DEF WritesDisconnect, Request
    <2> QED
      BY <1>9, <2>1, FlushEndsTyped DEF WritesDisconnect
  <1>10. CASE FlushFails \/ GraceExpires
    <2>1. wire' \in Seq(Request)
      BY <1>10 DEF FlushFails, GraceExpires, DriverTypeOK
    <2> QED
      BY <1>10, <2>1, FlushEndsTyped DEF FlushFails, GraceExpires
  <1> QED
    BY <1>1, <1>2, <1>3, <1>4, <1>5, <1>6, <1>7, <1>8, <1>9, <1>10 DEF DriverStep

\* The broker takes packets off the wire and ends sessions.
LEMMA BrokerTyped ==
    ASSUME DriverTypeOK, Broker
    PROVE  DriverTypeOK'
  <1>1. CASE BrokerReceives
    <2>1. wire' \in Seq(Request)
      <3>1. Tail(wire) \in Seq(Request) /\ <<>> \in Seq(Request)
        BY <1>1 DEF BrokerReceives, DriverTypeOK
      <3> QED
        BY <1>1, <3>1 DEF BrokerReceives
    <2>2. acks' \in Nat
      BY <1>1 DEF BrokerReceives, DriverTypeOK
    <2>3. session' \in {"none", "open"} /\ retained' \in {"none", "online", "offline"}
      BY <1>1 DEF BrokerReceives, DriverTypeOK
    <2> QED
      BY <1>1, <2>1, <2>2, <2>3
      DEF BrokerReceives, DriverTypeOK, ChannelsTypeOK, channelVars, taskVars
  <1>2. CASE BrokerDrops
    <2>1. wire' \in Seq(Request)
      BY <1>2 DEF BrokerDrops
    <2> QED
      BY <1>2, <2>1
      DEF BrokerDrops, Will, DriverTypeOK, ChannelsTypeOK, channelVars, taskVars
  <1> QED
    BY <1>1, <1>2 DEF Broker

LEMMA ZeroInRanges ==
    /\ 0 \in 0..N
    /\ 0 \in 0..SkipCap
    /\ 0 \in 0..FailCap
    /\ 0 \in 0..DisconnectGrace
    /\ 0 \in 0..ShutdownTimeout
    /\ 0 \in 0..MaxRestarts
  OBVIOUS

LEMMA InitTyped == Init => TypeOK
  <1> USE ZeroInRanges
  <1>1. <<>> \in Seq(Request) /\ Len(<<>>) <= Capacity
    OBVIOUS
  <1>2. Init => SchedulerTypeOK
    BY <1>1 DEF Init, SchedulerInit, ChannelsInit, LoopInit, SchedulerTypeOK, ChannelsTypeOK,
                ConnectionState
  <1>3. Init => DriverTypeOK
    BY <1>1, <1>2 DEF Init, TaskInit, ClientInit, BrokerInit, DriverTypeOK, SchedulerTypeOK
  <1>4. Init => MainTypeOK
    BY DEF Init, MainInit, MainTypeOK
  <1> QED
    BY <1>2, <1>3, <1>4 DEF TypeOK

\* Every step of the agent keeps the types: each of main's actions moves one
\* of its parts and leaves the others alone.
LEMMA NextTyped == TypeOK /\ [Next]_vars => TypeOK'
  <1> SUFFICES ASSUME TypeOK, [Next]_vars PROVE TypeOK'
    OBVIOUS
  <1> USE DEF TypeOK
  <1>1. CASE Signal
    BY <1>1 DEF Signal, SchedulerTypeOK, DriverTypeOK, MainTypeOK, ChannelsTypeOK,
                channelVars, loopVars, driverOnly, taskVars, netVars, brokerVars
  <1>2. CASE OnSignal
    <2>1. 0 \in 0..N
      OBVIOUS
    <2> QED
      BY <1>2, <2>1
      DEF OnSignal, BeginShutdown, SchedulerTypeOK, DriverTypeOK, MainTypeOK,
          ChannelsTypeOK, channelVars, netVars, brokerVars
  <1>3. CASE Scheduling
    <2>1. SchedulerTypeOK'
      BY <1>3, SchedulerStepTyped DEF Scheduling
    <2>2. MainTypeOK' /\ handle' \in {"held", "shutdown", "dropped"}
      BY <1>3 DEF Scheduling, BeginShutdown, ScheduledExit, MainTypeOK, DriverTypeOK
    <2>3. DriverTypeOK'
      BY <1>3, <2>1, <2>2
      DEF Scheduling, DriverTypeOK, SchedulerTypeOK, netVars, brokerVars
    <2> QED
      BY <2>1, <2>2, <2>3
  <1>4. CASE Driving
    <2>1. DriverTypeOK'
      BY <1>4, DriverStepTyped DEF Driving
    <2> QED
      BY <1>4, <2>1
      DEF Driving, DriverTypeOK, SchedulerTypeOK, MainTypeOK, loopVars, mainVars
  <1>5. CASE ShutdownReturns
    BY <1>5 DEF ShutdownReturns, SchedulerTypeOK, DriverTypeOK, MainTypeOK, ChannelsTypeOK,
                channelVars, loopVars, driverOnly, taskVars, netVars, brokerVars
  <1>6. CASE ShutdownAborts
    <2>1. DriverTypeOK'
      BY <1>6, FinishTyped
      DEF ShutdownAborts, DriverTypeOK, ChannelsTypeOK, brokerVars
    <2> QED
      BY <1>6, <2>1 DEF ShutdownAborts, SchedulerTypeOK, DriverTypeOK, MainTypeOK, loopVars
  <1>7. CASE Second
    <2>1. DriverTypeOK'
      BY <1>7 DEF Second, FlushSecond, DriverTypeOK, ChannelsTypeOK,
                  channelVars, netVars, brokerVars
    <2>2. MainTypeOK'
      BY <1>7 DEF Second, MainTypeOK
    <2> QED
      BY <1>7, <2>1, <2>2 DEF Second, SchedulerTypeOK, DriverTypeOK, loopVars
  <1>8. CASE Around
    <2>1. DriverTypeOK'
      BY <1>8, BrokerTyped DEF Around
    <2> QED
      BY <1>8, <2>1
      DEF Around, DriverTypeOK, SchedulerTypeOK, MainTypeOK, loopVars, mainVars
  <1>9. CASE Killed
    <2>1. DriverTypeOK'
      BY <1>9, FinishTyped DEF Killed, DriverTypeOK, ChannelsTypeOK, brokerVars
    <2>2. 0 \in 0..N
      OBVIOUS
    <2> QED
      BY <1>9, <2>1, <2>2 DEF Killed, SchedulerTypeOK, DriverTypeOK, MainTypeOK
  <1>10. CASE Restart
    <2> USE ZeroInRanges
    <2>1. <<>> \in Seq(Request) /\ Len(<<>>) <= Capacity
      OBVIOUS
    <2>2. ChannelsTypeOK'
      BY <1>10, <2>1 DEF Restart, ChannelsTypeOK, ConnectionState
    <2>3. SchedulerTypeOK'
      BY <1>10, <2>2 DEF Restart, SchedulerTypeOK
    <2>4. DriverTypeOK'
      BY <1>10, <2>1, <2>2 DEF Restart, DriverTypeOK, brokerVars
    <2>5. MainTypeOK'
      <3>1. restarts' \in 0..MaxRestarts
        BY <1>10 DEF Restart, MainTypeOK
      <3> QED
        BY <1>10, <3>1 DEF Restart, MainTypeOK
    <2> QED
      BY <2>3, <2>4, <2>5
  <1>11. CASE UNCHANGED vars
    BY <1>11 DEF vars, SchedulerTypeOK, DriverTypeOK, MainTypeOK, ChannelsTypeOK,
                 channelVars, loopVars, taskVars, netVars, brokerVars, mainVars
  <1>12. CASE Stall
    <2>1. DriverTypeOK'
      BY <1>12, DriverAssumption DEF Stall, DriverTypeOK, ChannelsTypeOK,
                                     channelVars, netVars, brokerVars
    <2>2. MainTypeOK'
      BY <1>12, AgentAssumption DEF Stall, MainTypeOK
    <2> QED
      BY <1>12, <2>1, <2>2 DEF Stall, SchedulerTypeOK, DriverTypeOK, loopVars
  <1> QED
    BY <1>1, <1>2, <1>3, <1>4, <1>5, <1>6, <1>7, <1>8, <1>9, <1>10, <1>11, <1>12 DEF Next, Gone

\* Type correctness of the agent, for all values of the constants.
THEOREM TypeCorrect == Spec => []TypeOK
  BY InitTyped, NextTyped, PTL DEF Spec

-----------------------------------------------------------------------------
(* The watch state and the socket *)

\* Whatever Driver::run does to the connection it reports in the same step.
LEMMA DriverStepLink ==
    ASSUME LinkIsNet, DriverStep
    PROVE  LinkIsNet'
  <1> USE DEF LinkIsNet
  <1>1. ASSUME NEW resumed \in BOOLEAN, ConnectOk(resumed) PROVE LinkIsNet'
    BY <1>1 DEF ConnectOk, SetState
  <1>2. CASE ConnectFails
    BY <1>2 DEF ConnectFails, Polling, Retry, SetLost, GiveUp, Finish
  <1>3. CASE Loses
    BY <1>3 DEF Loses, Retry, SetLost, Clean, GiveUp, Finish
  <1>4. CASE BackoffEnds
    BY <1>4 DEF BackoffEnds, channelVars, netVars
  <1>5. CASE Writes \/ Acknowledged
    BY <1>5 DEF Writes, Acknowledged, channelVars, taskVars
  <1>6. CASE StartsFlush
    BY <1>6 DEF StartsFlush, netVars
  <1>7. CASE StopsAsleep \/ StopsUnconnected
    BY <1>7 DEF StopsAsleep, StopsUnconnected, Finish
  <1>8. CASE WritesDisconnect \/ FlushFails \/ GraceExpires
    BY <1>8 DEF WritesDisconnect, FlushFails, GraceExpires, FlushEnds, Finish
  <1> QED
    BY <1>1, <1>2, <1>3, <1>4, <1>5, <1>6, <1>7, <1>8 DEF DriverStep

LEMMA NextLink == LinkIsNet /\ [Next]_vars => LinkIsNet'
  <1> SUFFICES ASSUME LinkIsNet, [Next]_vars PROVE LinkIsNet'
    OBVIOUS
  <1>1. CASE Scheduling
    BY <1>1, SchedulerStepLeavesLink DEF Scheduling, LinkIsNet, netVars
  <1>2. CASE Driving
    BY <1>2, DriverStepLink DEF Driving
  <1>3. CASE ShutdownAborts \/ Killed
    BY <1>3 DEF ShutdownAborts, Killed, Finish, LinkIsNet
  <1>4. CASE Around
    BY <1>4 DEF Around, Broker, BrokerReceives, BrokerDrops, LinkIsNet, channelVars, taskVars
  <1>5. CASE Second \/ Stall
    BY <1>5 DEF Second, FlushSecond, Stall, LinkIsNet, channelVars, netVars
  <1>6. CASE Restart
    BY <1>6 DEF Restart, LinkIsNet
  <1>7. CASE Signal \/ ShutdownReturns
    BY <1>7 DEF Signal, ShutdownReturns, LinkIsNet, driverOnly, channelVars, taskVars, netVars
  <1>8. CASE OnSignal
    BY <1>8 DEF OnSignal, LinkIsNet, channelVars, netVars
  <1>9. CASE UNCHANGED vars
    BY <1>9 DEF vars, LinkIsNet, channelVars, taskVars, netVars
  <1> QED
    BY <1>1, <1>2, <1>3, <1>4, <1>5, <1>6, <1>7, <1>8, <1>9 DEF Next, Gone

\* The state that the scheduler reads is that of the socket: Connected is
\* reported exactly while the connection is open, and no final state is
\* reported by a driver that goes on.
THEOREM LinkTellsTheTruth == Spec => []LinkIsNet
  <1>1. Init => LinkIsNet
    BY DEF Init, SchedulerInit, ChannelsInit, TaskInit, ClientInit, LinkIsNet
  <1> QED
    BY <1>1, NextLink, PTL DEF Spec

-----------------------------------------------------------------------------
(* The backlog of an outage *)

\* The driver: a loss empties the queue, a failed attempt leaves it alone.
LEMMA DriverStepBacklog ==
    ASSUME DriverTypeOK, LinkIsNet, OutageBacklog, DriverStep,
           cur \in 0..N, cur' = cur
    PROVE  OutageBacklog'
  <1> SUFFICES ASSUME Unreachable' PROVE Len(queue') <= Backlog(cur)
    BY DEF OutageBacklog, Backlog
  <1>0. /\ Backlog(cur) \in Nat
        /\ queue \in Seq(Request)
        /\ Unreachable => Len(queue) <= Backlog(cur)
    BY BacklogBounds DEF OutageBacklog, DriverTypeOK, ChannelsTypeOK
  <1>1. CASE queue' = <<>>
    BY <1>0, <1>1
  <1>2. CASE queue' = queue /\ Unreachable
    BY <1>0, <1>2
  <1>3. ASSUME NEW resumed \in BOOLEAN, ConnectOk(resumed) PROVE FALSE
    BY <1>3 DEF ConnectOk, SetState, Unreachable
  <1>4. CASE ConnectFails
    <2>1. queue' = <<>> \/ (queue' = queue /\ Unreachable)
      BY <1>4 DEF ConnectFails, Polling, Retry, GiveUp, Finish, LinkIsNet, Unreachable
    <2> QED
      BY <1>1, <1>2, <2>1
  <1>5. CASE Loses
    BY <1>1, <1>5 DEF Loses, Clean, GiveUp, Finish
  <1>6. CASE BackoffEnds \/ Acknowledged
    BY <1>2, <1>6 DEF BackoffEnds, Acknowledged, Unreachable, channelVars
  <1>7. CASE Writes \/ StartsFlush
    BY <1>7 DEF Writes, Connected, Polling, StartsFlush, LinkIsNet, Unreachable
  <1>8. CASE StopsAsleep \/ StopsUnconnected \/ WritesDisconnect \/ FlushFails \/ GraceExpires
    BY <1>1, <1>8
    DEF StopsAsleep, StopsUnconnected, WritesDisconnect, FlushFails, GraceExpires,
        FlushEnds, Finish
  <1> QED
    BY <1>3, <1>4, <1>5, <1>6, <1>7, <1>8 DEF DriverStep

LEMMA NextBacklog == IInv /\ [Next]_vars => OutageBacklog'
  <1> SUFFICES ASSUME IInv, [Next]_vars PROVE OutageBacklog'
    OBVIOUS
  <1> USE DEF IInv, TypeOK
  <1>0. cur \in 0..N /\ queue \in Seq(Request)
    BY DEF SchedulerTypeOK, ChannelsTypeOK
  <1>1. CASE Scheduling
    BY <1>1, SchedulerStepBacklog DEF Scheduling
  <1>2. CASE Driving
    BY <1>0, <1>2, DriverStepBacklog DEF Driving, loopVars
  <1>3. CASE OnSignal
    <2>1. link' = link /\ queue' = queue /\ cur' = 0
      BY <1>3 DEF OnSignal, channelVars
    <2> QED
      BY <1>0, <2>1, BacklogBounds DEF OutageBacklog, Unreachable
  <1>4. CASE ShutdownAborts \/ Killed \/ Restart
    <2>1. queue' = <<>> /\ cur' \in 0..N
      BY <1>0, <1>4 DEF ShutdownAborts, Killed, Restart, Finish, loopVars
    <2>2. Backlog(cur') \in Nat
      BY <2>1, BacklogBounds
    <2>3. Len(queue') <= Backlog(cur')
      BY <2>1, <2>2
    <2> QED
      BY <2>3 DEF OutageBacklog, Backlog
  <1>5. CASE Signal \/ ShutdownReturns \/ Second \/ Stall \/ Around \/ UNCHANGED vars
    <2>1. link' = link /\ queue' = queue /\ cur' = cur
      BY <1>5 DEF Signal, ShutdownReturns, Second, FlushSecond, Stall, Around, Broker,
                  BrokerReceives, BrokerDrops, vars, channelVars, loopVars
    <2> QED
      BY <2>1 DEF OutageBacklog, Unreachable, Backlog
  <1> QED
    BY <1>1, <1>2, <1>3, <1>4, <1>5 DEF Next, Gone

\* The inductive invariant: types, the agreement of link and socket, and the
\* bound on what an outage leaves in the queue.
THEOREM InductiveInvariant == Spec => []IInv
  <1>1. Init => IInv
    <2>1. Init => LinkIsNet
      BY DEF Init, SchedulerInit, ChannelsInit, TaskInit, ClientInit, LinkIsNet
    <2>2. Init => OutageBacklog
      <3>1. Backlog(0) \in Nat
        BY BacklogBounds
      <3>2. Init => queue = <<>> /\ cur = 0
        BY DEF Init, SchedulerInit, ChannelsInit, LoopInit
      <3> QED
        BY <3>1, <3>2 DEF OutageBacklog
    <2> QED
      BY <2>1, <2>2, InitTyped DEF IInv
  <1>2. IInv /\ [Next]_vars => IInv'
    BY NextTyped, NextLink, NextBacklog DEF IInv
  <1> QED
    BY <1>1, <1>2, PTL DEF Spec

\* However long or often the broker is away, the queue holds at most the rest
\* of the one cycle that an outage interrupted, framed or not.
THEOREM BacklogIsOneCycle == Spec => []OutageBacklog
  <1>1. IInv => OutageBacklog
    BY DEF IInv
  <1> QED
    BY <1>1, InductiveInvariant, PTL

\* Without framing, the capacity that Config::validate accepts always leaves
\* room for "online" when a CONNACK can arrive.
THEOREM OnlineAlwaysFits ==
    ASSUME MaxFrames = 1
    PROVE  Spec => []RoomForOnline
  <1>1. IInv => RoomForOnline
    <2> SUFFICES ASSUME IInv, driver = "poll", net = "down"
                 PROVE  Len(queue) < Capacity
      BY DEF RoomForOnline
    <2>1. Unreachable
      BY DEF IInv, LinkIsNet, Unreachable
    <2>2. Len(queue) <= Backlog(cur) /\ cur \in 0..N /\ Len(queue) \in Nat
      BY <2>1 DEF IInv, OutageBacklog, TypeOK, SchedulerTypeOK, ChannelsTypeOK
    <2>3. Backlog(cur) <= Backlog(0) /\ Backlog(cur) \in Nat /\ Backlog(0) = N
      BY <2>2, BacklogBounds DEF Backlog
    <2> QED
      BY <2>2, <2>3, ConfigAssumption DEF ConfigAssumption
  <1> QED
    BY <1>1, InductiveInvariant, PTL

-----------------------------------------------------------------------------
(* How the process ends *)

\* A driver that has not been asked to stop ends only with a fatal error; that
\* is also the only end that the scheduler can see.
FatalInv ==
    /\ driver = "flush" => handle # "held"
    /\ main = "select" => handle = "held"
    /\ main = "select" /\ (link = "fatal" \/ ~attached) => outcome = "fatal"
    /\ main # "select" /\ exit = "1" => outcome = "fatal"
    /\ outcome = "fatal" => driver = "done"

\* On a process that is not starved the seconds of the driver are those of main.
DeadlineInv ==
    Punctual => /\ waited = elapsed
                /\ outcome = "aborted" => main = "exited" /\ exit = "killed"

LEMMA SchedulerReturns ==
    ASSUME SchedulerStep, task' = "returned", task # "returned"
    PROVE  link = "fatal" \/ ~attached
  BY DEF SchedulerStep, TickWake, LinkWake, LinkClosed, Examine, StartCycle, Skip, Return,
         Waiting, RunEntry, EntryFails, EntryPublishes

LEMMA SchedulerStepKeepsAttached == SchedulerStep => attached' = attached
  BY DEF SchedulerStep, TickWake, LinkWake, LinkClosed, Examine, RunEntry, EntryFails,
         EntryPublishes, channelVars

\* Driver::run leaves the oneshot and the grace alone, and ends fatally when
\* nobody asked it to end.
LEMMA DriverStepEnds ==
    ASSUME DriverStep, driver = "flush" => handle # "held"
    PROVE  /\ handle' = handle /\ waited' = waited
           /\ driver # "done"
           /\ outcome' \in {outcome, "fatal", "ok"}
           /\ driver' = "flush" => handle' # "held"
           /\ handle = "held" =>
                (outcome' = "fatal" /\ driver' = "done")
                \/ ((link' = "fatal" => link = "fatal") /\ attached' = attached /\ outcome' = outcome)
           /\ outcome' # outcome => driver' = "done"
  <1>1. ASSUME NEW resumed \in BOOLEAN, ConnectOk(resumed)
        PROVE  /\ UNCHANGED <<handle, waited, outcome, driver, attached>>
               /\ driver = "poll" /\ link' # "fatal"
    BY <1>1 DEF ConnectOk, Polling, SetState, taskVars
  <1>2. CASE ConnectFails \/ Loses
    BY <1>2 DEF ConnectFails, Loses, Polling, Retry, SetLost, GiveUp, SetState, Finish
  <1>3. CASE BackoffEnds
    BY <1>3 DEF BackoffEnds, channelVars, netVars
  <1>4. CASE Writes \/ Acknowledged
    BY <1>4 DEF Writes, Acknowledged, Connected, Polling, channelVars, taskVars
  <1>5. CASE StopsAsleep \/ StopsUnconnected \/ StartsFlush
    BY <1>5 DEF StopsAsleep, StopsUnconnected, StartsFlush, Finish, SetState
  <1>6. CASE WritesDisconnect \/ FlushFails \/ GraceExpires
    BY <1>6 DEF WritesDisconnect, FlushFails, GraceExpires, FlushEnds, Finish
  <1> QED
    BY <1>1, <1>2, <1>3, <1>4, <1>5, <1>6 DEF DriverStep

LEMMA NextFatal == FatalInv /\ [Next]_vars => FatalInv'
  <1> SUFFICES ASSUME FatalInv, [Next]_vars PROVE FatalInv'
    OBVIOUS
  <1> USE DEF FatalInv
  <1>1. CASE Scheduling
    <2>1. /\ main = "select" /\ handle = "held" /\ driver' = driver /\ outcome' = outcome
          /\ link' = link /\ attached' = attached
      BY <1>1, SchedulerStepLeavesLink, SchedulerStepKeepsAttached DEF Scheduling
    <2>2. task # "returned"
      BY <1>1 DEF Scheduling, SchedulerStep, TickWake, LinkWake, LinkClosed, Waiting,
                  RunEntry, EntryFails, EntryPublishes
    <2>3. CASE task' = "returned"
      <3>1. outcome = "fatal"
        BY <1>1, <2>1, <2>2, <2>3, SchedulerReturns DEF Scheduling
      <3> QED
        BY <1>1, <2>1, <2>3, <3>1 DEF Scheduling, BeginShutdown
    <2>4. CASE task' # "returned"
      BY <1>1, <2>1, <2>4 DEF Scheduling
    <2> QED
      BY <2>3, <2>4
  <1>2. CASE Driving
    <2>1. main' = main /\ exit' = exit
      BY <1>2 DEF Driving, mainVars
    <2>2. DriverStep
      BY <1>2 DEF Driving
    <2> QED
      BY <2>1, <2>2, DriverStepEnds
  <1>3. CASE OnSignal
    BY <1>3 DEF OnSignal, BeginShutdown
  <1>4. CASE Killed
    BY <1>4 DEF Killed, Finish
  <1>5. CASE ShutdownAborts
    BY <1>5 DEF ShutdownAborts, Finish
  <1>6. CASE Restart
    BY <1>6 DEF Restart
  <1>7. CASE Second \/ Stall
    BY <1>7 DEF Second, FlushSecond, Stall, channelVars
  <1>8. CASE Signal \/ ShutdownReturns
    BY <1>8 DEF Signal, ShutdownReturns, driverOnly, taskVars, channelVars
  <1>9. CASE Around
    BY <1>9 DEF Around, Broker, BrokerReceives, BrokerDrops, mainVars, taskVars, channelVars
  <1>10. CASE UNCHANGED vars
    BY <1>10 DEF vars, mainVars, taskVars, channelVars
  <1> QED
    BY <1>1, <1>2, <1>3, <1>4, <1>5, <1>6, <1>7, <1>8, <1>9, <1>10 DEF Next, Gone

\* Exit code 1 after the start, which makes systemd restart the process, is
\* never the answer to a signal, to a lost connection or to a channel that was
\* closed first (main.rs:85-88, scheduler.rs:102-104, 115-117).
THEOREM ExitOneIsFatal == Spec => []ExitOneMeansFatal
  <1>1. Init => FatalInv
    BY DEF Init, SchedulerInit, ChannelsInit, TaskInit, MainInit, FatalInv
  <1>2. FatalInv => ExitOneMeansFatal
    BY DEF FatalInv, ExitOneMeansFatal
  <1> QED
    BY <1>1, <1>2, NextFatal, PTL DEF Spec

LEMMA NextDeadline ==
    ASSUME DisconnectGrace < ShutdownTimeout
    PROVE  TypeOK /\ FatalInv /\ DeadlineInv /\ [Next]_vars => DeadlineInv'
  <1> SUFFICES ASSUME TypeOK, FatalInv, DeadlineInv, [Next]_vars, Punctual PROVE DeadlineInv'
    BY DEF DeadlineInv
  <1> USE DEF DeadlineInv
  <1>0. waited \in 0..DisconnectGrace /\ DisconnectGrace \in Nat /\ ShutdownTimeout \in Nat
    BY DriverAssumption, AgentAssumption
    DEF TypeOK, DriverTypeOK, DriverAssumption, AgentAssumption
  <1>1. CASE Scheduling \/ OnSignal
    BY <1>1 DEF Scheduling, OnSignal, BeginShutdown
  <1>2. CASE Driving
    <2>1. main' = main /\ exit' = exit /\ elapsed' = elapsed /\ main # "exited" /\ DriverStep
      BY <1>2 DEF Driving, mainVars
    <2> QED
      BY <2>1, DriverStepEnds DEF FatalInv
  <1>3. CASE ShutdownAborts
    BY <1>0, <1>3 DEF ShutdownAborts
  <1>4. CASE Killed \/ Restart
    BY <1>4 DEF Killed, Restart, Finish
  <1>5. CASE Second
    BY <1>5 DEF Second, FlushSecond
  <1>6. CASE Stall
    BY <1>6 DEF Stall
  <1>7. CASE Signal \/ ShutdownReturns
    BY <1>7 DEF Signal, ShutdownReturns, driverOnly, taskVars
  <1>8. CASE Around
    BY <1>8 DEF Around, Broker, BrokerReceives, BrokerDrops, mainVars, taskVars
  <1>9. CASE UNCHANGED vars
    BY <1>9 DEF vars, mainVars, taskVars
  <1> QED
    BY <1>1, <1>2, <1>3, <1>4, <1>5, <1>6, <1>7, <1>8, <1>9 DEF Next, Gone

\* With a grace shorter than the window that main gives the driver, as the 3 s
\* and 5 s of the code are, a driver that gets the CPU is never aborted
\* (connection.rs:142-154, 274-289).
THEOREM TheGraceEndsFirst ==
    ASSUME DisconnectGrace < ShutdownTimeout
    PROVE  Spec => []NeverAborted
  <1>1. Init => FatalInv /\ DeadlineInv
    BY DEF Init, SchedulerInit, ChannelsInit, TaskInit, MainInit, FatalInv, DeadlineInv
  <1>2. DeadlineInv => NeverAborted
    BY DEF DeadlineInv, NeverAborted
  <1>3. FatalInv /\ [Next]_vars => FatalInv'
    BY NextFatal
  <1>4. TypeOK /\ FatalInv /\ DeadlineInv /\ [Next]_vars => DeadlineInv'
    BY NextDeadline
  <1> QED
    BY <1>1, <1>2, <1>3, <1>4, TypeCorrect, PTL DEF Spec

-----------------------------------------------------------------------------
(* The status topic *)

\* A sequence without DISCONNECT.
Free(s) == \A i \in 1..Len(s) : s[i] # "disconnect"

LEMMA FreeEmpty == Free(<<>>)
  BY DEF Free

LEMMA FreeConcat ==
    ASSUME NEW s \in Seq(Request), NEW t \in Seq(Request), Free(s), Free(t)
    PROVE  Free(s \o t) /\ s \o t \in Seq(Request)
  <1>1. s \o t \in Seq(Request)
    OBVIOUS
  <1>2. ASSUME NEW i \in 1..Len(s \o t) PROVE (s \o t)[i] # "disconnect"
    <2>1. CASE i <= Len(s)
      BY <2>1 DEF Free
    <2>2. CASE i > Len(s)
      <3>1. i - Len(s) \in 1..Len(t) /\ (s \o t)[i] = t[i - Len(s)]
        BY <2>2
      <3> QED
        BY <3>1 DEF Free
    <2> QED
      BY <2>1, <2>2
  <1> QED
    BY <1>1, <1>2 DEF Free

LEMMA FreeAppend ==
    ASSUME NEW s \in Seq(Request), Free(s), NEW r \in Request, r # "disconnect"
    PROVE  Free(Append(s, r))
  BY DEF Free

LEMMA FreeTail ==
    ASSUME NEW s \in Seq(Request), Free(s), s # <<>>
    PROVE  Free(Tail(s)) /\ Head(s) # "disconnect"
  BY DEF Free

LEMMA FreeSend ==
    ASSUME NEW q \in Seq(Request), Free(q), NEW r \in Request, r # "disconnect"
    PROVE  Free(TrySend(q, r))
  BY FreeAppend DEF TrySend

\* Outside a flush the queue holds no DISCONNECT.
LEMMA QueueFree ==
    ASSUME GoodbyeQueued, driver # "flush"
    PROVE  Free(queue) /\ Free(pending) /\ Free(unacked)
  BY DEF GoodbyeQueued, Free

\* On an open connection the wire holds no DISCONNECT.
LEMMA WireFree ==
    ASSUME GoodbyeSent, net # "down"
    PROVE  Free(wire)
  BY DEF GoodbyeSent, Free

\* Both parts of the invariant hold wherever no DISCONNECT is left.
LEMMA FreeIsOrdered ==
    ASSUME Free(queue'), Free(pending'), Free(unacked')
    PROVE  GoodbyeQueued'
  BY DEF GoodbyeQueued, Free

LEMMA FreeWireIsOrdered ==
    ASSUME Free(wire')
    PROVE  GoodbyeSent'
  BY DEF GoodbyeSent, Free

LEMMA FinishGoodbye ==
    ASSUME NEW result, Finish(result)
    PROVE  GoodbyeQueued' /\ net' = "down" /\ driver' = "done"
  BY FreeEmpty, FreeIsOrdered DEF Finish

\* A wire that is left alone stays ordered, unless the socket opens.
LEMMA SameWire ==
    ASSUME GoodbyeSent, wire' = wire, retained' = retained, net' = "down" \/ net' = net
    PROVE  GoodbyeSent'
  BY DEF GoodbyeSent

-----------------------------------------------------------------------------
\* Driver::disconnect queues "offline" and right behind it DISCONNECT, or
\* leaves DISCONNECT out.
LEMMA GoodbyeOrder ==
    ASSUME NEW q \in Seq(Request), Free(q)
    PROVE  \A i \in 1..Len(Goodbye(q)) :
              Goodbye(q)[i] = "disconnect" => i > 1 /\ Goodbye(q)[i - 1] = "offline"
  <1> DEFINE p == TrySend(q, "offline")
  <1>1. p \in Seq(Request) /\ Free(p)
    BY FreeAppend DEF TrySend, Request
  <1>2. CASE Len(q) < Capacity
    <2>1. Len(p) \in Nat /\ Len(p) >= 1 /\ p[Len(p)] = "offline"
      BY <1>2 DEF TrySend
    <2>2. CASE Len(p) < Capacity
      <3>1. Goodbye(q) = Append(p, "disconnect")
        BY <2>2 DEF Goodbye, TrySend
      <3>2. ASSUME NEW i \in 1..Len(Append(p, "disconnect")),
                   Append(p, "disconnect")[i] = "disconnect"
            PROVE  i > 1 /\ Append(p, "disconnect")[i - 1] = "offline"
        <4>1. i = Len(p) + 1
          BY <1>1, <3>2 DEF Free
        <4> QED
          BY <1>1, <2>1, <4>1
      <3> QED
        BY <3>1, <3>2
    <2>3. CASE ~(Len(p) < Capacity)
      BY <1>1, <2>3 DEF Goodbye, TrySend, Free
    <2> QED
      BY <2>2, <2>3
  <1>3. CASE ~(Len(q) < Capacity)
    BY <1>3 DEF Goodbye, TrySend, Free
  <1> QED
    BY <1>2, <1>3

-----------------------------------------------------------------------------
(* The steps of the driver *)

LEMMA ConnectGoodbye ==
    ASSUME DriverTypeOK, GoodbyeQueued, NEW resumed \in BOOLEAN, ConnectOk(resumed)
    PROVE  GoodbyeQueued' /\ GoodbyeSent'
  <1>1. Free(queue) /\ Free(pending) /\ Free(unacked)
    BY QueueFree DEF ConnectOk, Polling
  <1>2. Free(queue')
    <2>1. queue \in Seq(Request) /\ "online" \in Request
      BY DEF DriverTypeOK, ChannelsTypeOK, Request
    <2> QED
      BY <1>1, <2>1, FreeSend DEF ConnectOk
  <1>3. Free(pending')
    BY <1>1, FreeEmpty DEF ConnectOk
  <1>4. Free(unacked')
    BY <1>1 DEF ConnectOk
  <1>5. Free(wire')
    BY FreeEmpty DEF ConnectOk
  <1> QED
    BY <1>2, <1>3, <1>4, <1>5, FreeIsOrdered, FreeWireIsOrdered

LEMMA LostGoodbye ==
    ASSUME DriverTypeOK, GoodbyeQueued, GoodbyeSent, ConnectFails \/ Loses
    PROVE  GoodbyeQueued' /\ GoodbyeSent'
  <1>1. Free(queue) /\ Free(pending) /\ Free(unacked)
    BY QueueFree DEF ConnectFails, Loses, Polling
  <1>2. /\ pending \in Seq(Request)
        /\ unacked \in Seq(Request)
        /\ queue \in Seq(Request)
    BY DEF DriverTypeOK, ChannelsTypeOK
  <1>3. GoodbyeQueued'
    <2>1. CASE GiveUp
      BY <2>1, FinishGoodbye DEF GiveUp
    <2>2. CASE UNCHANGED <<queue, net, pending, unacked, acks>>
      BY <1>1, <2>2, FreeIsOrdered
    <2>3. CASE Clean
      <3>1. Free(pending \o unacked) /\ pending \o unacked \in Seq(Request)
        BY <1>1, <1>2, FreeConcat
      <3>2. Free((pending \o unacked) \o queue)
        BY <1>1, <1>2, <3>1, FreeConcat
      <3> QED
        BY <2>3, <3>2, FreeEmpty, FreeIsOrdered DEF Clean
    <2> QED
      BY <2>1, <2>2, <2>3 DEF ConnectFails, Loses
  <1>4. GoodbyeSent'
    <2>1. net' = "down" \/ net' = net
      BY DEF ConnectFails, Loses, Clean, GiveUp, Finish
    <2> QED
      BY <2>1, SameWire DEF ConnectFails, Loses, brokerVars
  <1> QED
    BY <1>3, <1>4

LEMMA WritesGoodbye ==
    ASSUME DriverTypeOK, GoodbyeQueued, GoodbyeSent, Writes
    PROVE  GoodbyeQueued' /\ GoodbyeSent'
  <1> DEFINE r == NextRequest
  <1>1. /\ queue \in Seq(Request) /\ pending \in Seq(Request)
        /\ unacked \in Seq(Request) /\ wire \in Seq(Request)
    BY DEF DriverTypeOK, ChannelsTypeOK
  <1>2. r \in Request /\ r # "disconnect"
    BY NextRequestTyped DEF Writes
  <1>3. Free(pending) /\ Free(unacked) /\ Free(wire)
    BY WireFree DEF GoodbyeQueued, Free, Writes, Connected
  <1>4. Free(unacked')
    BY <1>1, <1>2, <1>3, FreeAppend DEF Writes
  <1>5. Free(wire') /\ GoodbyeSent'
    BY <1>1, <1>2, <1>3, FreeAppend, FreeWireIsOrdered DEF Writes, OnWire
  <1>6. CASE pending # <<>>
    <2>1. queue' = queue /\ pending' = Tail(pending)
      BY <1>6 DEF Writes, TakeRequest
    <2>2. Free(pending')
      BY <1>1, <1>3, <1>6, <2>1, FreeTail
    <2>3. ASSUME NEW i \in 1..Len(queue'), queue'[i] = "disconnect"
          PROVE  /\ driver' = "flush"
                 /\ i > 1 /\ queue'[i - 1] = "offline"
      BY <1>6, <2>1, <2>3 DEF GoodbyeQueued, Writes, taskVars
    <2> QED
      BY <1>4, <1>5, <2>2, <2>3 DEF GoodbyeQueued, Free
  <1>7. CASE pending = <<>>
    <2>1. /\ queue # <<>>
          /\ queue' = Tail(queue)
          /\ pending' = <<>>
          /\ r = Head(queue)
      BY <1>7 DEF Writes, TakeRequest, MayTake, NextRequest
    <2>2. /\ Len(queue') = Len(queue) - 1
          /\ \A i \in 1..Len(queue') : queue'[i] = queue[i + 1]
          /\ Head(queue) = queue[1]
          /\ Len(queue) \in Nat
      BY <1>1, <2>1
    <2>3. ASSUME NEW i \in 1..Len(queue'), queue'[i] = "disconnect"
          PROVE  /\ driver' = "flush"
                 /\ IF i > 1 THEN queue'[i - 1] = "offline"
                             ELSE pending' = <<>> /\ Told'
      <3>1. i + 1 \in 1..Len(queue) /\ queue[i + 1] = "disconnect"
        BY <2>2, <2>3
      <3>2. driver = "flush" /\ queue[(i + 1) - 1] = "offline"
        BY <3>1 DEF GoodbyeQueued
      <3>3. driver' = "flush" /\ queue[i] = "offline"
        BY <3>2 DEF Writes, taskVars
      <3>4. CASE i > 1
        <4>1. i - 1 \in 1..Len(queue') /\ (i - 1) + 1 = i
          BY <2>2, <3>4
        <4>2. queue'[i - 1] = queue[i]
          BY <2>2, <4>1
        <4> QED
          BY <3>3, <3>4, <4>2
      <3>5. CASE ~(i > 1)
        <4>1. r = "offline"
          BY <2>1, <2>2, <3>3, <3>5
        <4>2. session = "open" => wire' = Append(wire, "offline")
          BY <4>1 DEF Writes, OnWire
        <4>3. session' = session
          BY DEF Writes, brokerVars
        <4>4. session = "open" => wire' # <<>> /\ wire'[Len(wire')] = "offline"
          BY <1>1, <4>2
        <4>5. Told'
          BY <4>3, <4>4 DEF Told
        <4> QED
          BY <2>1, <3>3, <3>5, <4>5
      <3> QED
        BY <3>4, <3>5
    <2>4. Free(pending')
      BY <2>1, FreeEmpty
    <2> QED
      BY <1>4, <1>5, <2>3, <2>4 DEF GoodbyeQueued, Free
  <1> QED
    BY <1>6, <1>7

LEMMA StartsFlushGoodbye ==
    ASSUME DriverTypeOK, GoodbyeQueued, GoodbyeSent, StartsFlush
    PROVE  GoodbyeQueued' /\ GoodbyeSent'
  <1>1. Free(queue) /\ Free(pending) /\ Free(unacked)
    BY QueueFree DEF StartsFlush
  <1>2. queue \in Seq(Request)
    BY DEF DriverTypeOK, ChannelsTypeOK
  <1>3. \A i \in 1..Len(queue') : queue'[i] = "disconnect" => i > 1 /\ queue'[i - 1] = "offline"
    BY <1>1, <1>2, GoodbyeOrder DEF StartsFlush
  <1>4. GoodbyeQueued'
    BY <1>1, <1>3 DEF GoodbyeQueued, Free, StartsFlush, netVars
  <1>5. GoodbyeSent'
    BY SameWire DEF StartsFlush, netVars, brokerVars
  <1> QED
    BY <1>4, <1>5

\* DISCONNECT is taken from the front of the queue: what was written last is
\* "offline", or the broker has it already.
LEMMA WritesDisconnectGoodbye ==
    ASSUME DriverTypeOK, GoodbyeQueued, GoodbyeSent, WritesDisconnect
    PROVE  GoodbyeQueued' /\ GoodbyeSent'
  <1>1. GoodbyeQueued' /\ net' = "down"
    BY FinishGoodbye DEF WritesDisconnect, FlushEnds
  <1>2. /\ queue \in Seq(Request) /\ pending \in Seq(Request) /\ wire \in Seq(Request)
    BY DEF DriverTypeOK, ChannelsTypeOK
  <1>3. Free(pending) /\ Free(wire)
    BY WireFree DEF GoodbyeQueued, Free, WritesDisconnect, Connected
  <1>4. pending = <<>>
    <2> SUFFICES ASSUME pending # <<>> PROVE FALSE
      OBVIOUS
    <2>1. NextRequest = Head(pending)
      BY DEF NextRequest
    <2> QED
      BY <1>2, <1>3, <2>1, FreeTail DEF WritesDisconnect
  <1>5. queue # <<>> /\ queue[1] = "disconnect"
    BY <1>2, <1>4 DEF WritesDisconnect, MayTake, NextRequest
  <1>6. Told
    BY <1>2, <1>5 DEF GoodbyeQueued
  <1>7. retained' = retained
    BY DEF WritesDisconnect, brokerVars
  <1>8. CASE session = "open"
    <2>1. wire' = Append(wire, "disconnect")
      BY <1>8 DEF WritesDisconnect, OnWire
    <2>2. ASSUME NEW i \in 1..Len(wire'), wire'[i] = "disconnect"
          PROVE  /\ i = Len(wire')
                 /\ IF i > 1 THEN wire'[i - 1] = "offline" ELSE retained' = "offline"
      <3>1. i = Len(wire) + 1 /\ Len(wire') = Len(wire) + 1
        BY <1>2, <1>3, <2>1, <2>2 DEF Free
      <3>2. CASE wire = <<>>
        BY <1>6, <1>7, <1>8, <3>1, <3>2 DEF Told
      <3>3. CASE wire # <<>>
        <4>1. Len(wire) \in 1..Len(wire) /\ wire[Len(wire)] = "offline"
          BY <1>2, <1>6, <1>8, <3>3 DEF Told
        <4> QED
          BY <1>2, <2>1, <3>1, <4>1
      <3> QED
        BY <3>2, <3>3
    <2> QED
      BY <1>1, <2>2 DEF GoodbyeSent
  <1>9. CASE session # "open"
    BY <1>1, <1>7, <1>9, SameWire DEF WritesDisconnect, OnWire
  <1> QED
    BY <1>1, <1>8, <1>9

LEMMA DriverStepGoodbye ==
    ASSUME DriverTypeOK, GoodbyeQueued, GoodbyeSent, DriverStep
    PROVE  GoodbyeQueued' /\ GoodbyeSent'
  <1>1. ASSUME NEW resumed \in BOOLEAN, ConnectOk(resumed)
        PROVE  GoodbyeQueued' /\ GoodbyeSent'
    BY <1>1, ConnectGoodbye
  <1>2. CASE ConnectFails \/ Loses
    BY <1>2, LostGoodbye
  <1>3. CASE Writes
    BY <1>3, WritesGoodbye
  <1>4. CASE StartsFlush
    BY <1>4, StartsFlushGoodbye
  <1>5. CASE WritesDisconnect
    BY <1>5, WritesDisconnectGoodbye
  <1>6. CASE BackoffEnds
    <2>1. Free(queue) /\ Free(pending) /\ Free(unacked)
      BY <1>6, QueueFree DEF BackoffEnds
    <2> QED
      BY <1>6, <2>1, FreeIsOrdered, SameWire DEF BackoffEnds, Free, channelVars, netVars, brokerVars
  <1>7. CASE Acknowledged
    <2>1. unacked \in Seq(Request) /\ unacked # <<>> /\ Free(unacked)
      BY <1>7 DEF Acknowledged, DriverTypeOK, GoodbyeQueued, Free
    <2>2. Free(unacked')
      BY <1>7, <2>1, FreeTail DEF Acknowledged
    <2>3. Told' <=> Told
      BY <1>7 DEF Acknowledged, Told, brokerVars
    <2>4. GoodbyeQueued'
      BY <1>7, <2>2, <2>3 DEF GoodbyeQueued, Free, Acknowledged, channelVars, taskVars
    <2> QED
      BY <1>7, <2>4, SameWire DEF Acknowledged, brokerVars
  <1>8. CASE StopsAsleep \/ StopsUnconnected \/ FlushFails \/ GraceExpires
    <2>1. GoodbyeQueued' /\ net' = "down"
      BY <1>8, FinishGoodbye
      DEF StopsAsleep, StopsUnconnected, FlushFails, GraceExpires, FlushEnds
    <2> QED
      BY <1>8, <2>1, SameWire
      DEF StopsAsleep, StopsUnconnected, FlushFails, GraceExpires, brokerVars
  <1> QED
    BY <1>1, <1>2, <1>3, <1>4, <1>5, <1>6, <1>7, <1>8 DEF DriverStep

\* A flush begins only after the Transport was released.
LEMMA DriverStepReleased ==
    ASSUME DriverStep, driver = "flush" => handle # "held"
    PROVE  handle' = handle /\ (driver' = "flush" => handle' # "held")
  BY DEF DriverStep, ConnectOk, ConnectFails, Loses, Retry, GiveUp, BackoffEnds, Writes,
         Acknowledged, StopsAsleep, StopsUnconnected, StartsFlush, WritesDisconnect,
         FlushFails, GraceExpires, FlushEnds, Finish, Polling, taskVars

\* The broker consumes the wire from the front.
LEMMA BrokerGoodbye ==
    ASSUME DriverTypeOK, GoodbyeQueued, GoodbyeSent, Broker
    PROVE  GoodbyeQueued' /\ GoodbyeSent'
  <1>1. wire \in Seq(Request)
    BY DEF DriverTypeOK
  <1>2. UNCHANGED <<queue, pending, unacked, driver, net>>
    BY DEF Broker, BrokerReceives, BrokerDrops, channelVars, taskVars
  <1>3. CASE BrokerDrops \/ (BrokerReceives /\ Head(wire) = "disconnect")
    <2>1. wire' = <<>> /\ session' = "none"
      BY <1>3 DEF BrokerReceives, BrokerDrops
    <2>2. Told'
      BY <2>1 DEF Told
    <2>3. GoodbyeQueued'
      BY <1>2, <2>2 DEF GoodbyeQueued
    <2> QED
      BY <2>1, <2>3, FreeEmpty, FreeWireIsOrdered
  <1>4. CASE BrokerReceives /\ Head(wire) # "disconnect"
    <2>1. /\ wire # <<>>
          /\ wire' = Tail(wire)
          /\ session' = session
          /\ retained' = IF Head(wire) \in {"online", "offline"} THEN Head(wire) ELSE retained
      BY <1>4 DEF BrokerReceives
    <2>2. /\ Len(wire') = Len(wire) - 1
          /\ \A i \in 1..Len(wire') : wire'[i] = wire[i + 1]
          /\ Head(wire) = wire[1]
          /\ Len(wire) \in Nat /\ Len(wire) >= 1
      BY <1>1, <2>1
    <2>3. ASSUME Told PROVE Told'
      <3>1. CASE session = "open" /\ wire' = <<>>
        <4>1. Len(wire) = 1
          BY <2>2, <3>1
        <4> QED
          BY <2>1, <2>2, <2>3, <3>1, <4>1 DEF Told
      <3>2. CASE session = "open" /\ wire' # <<>>
        <4>1. Len(wire') \in 1..Len(wire')
          BY <1>1, <2>1, <2>2, <3>2
        <4>2. wire'[Len(wire')] = wire[Len(wire)]
          BY <2>2, <4>1
        <4> QED
          BY <2>1, <2>3, <3>2, <4>2 DEF Told
      <3> QED
        BY <2>1, <3>1, <3>2 DEF Told
    <2>4. GoodbyeQueued'
      BY <1>2, <2>3 DEF GoodbyeQueued
    <2>5. ASSUME NEW i \in 1..Len(wire'), wire'[i] = "disconnect"
          PROVE  /\ i = Len(wire')
                 /\ net' = "down"
                 /\ IF i > 1 THEN wire'[i - 1] = "offline" ELSE retained' = "offline"
      <3>1. i + 1 \in 1..Len(wire) /\ wire[i + 1] = "disconnect"
        BY <2>2, <2>5
      <3>2. i + 1 = Len(wire) /\ net = "down" /\ wire[(i + 1) - 1] = "offline"
        BY <2>5, <3>1 DEF GoodbyeSent
      <3>3. CASE i > 1
        <4>1. i - 1 \in 1..Len(wire') /\ (i - 1) + 1 = i
          BY <2>2, <3>3
        <4> QED
          BY <1>2, <2>2, <3>2, <3>3, <4>1
      <3>4. CASE ~(i > 1)
        <4>1. i = 1
          BY <2>2, <3>4
        <4>2. Head(wire) = "offline"
          BY <2>2, <3>2, <4>1
        <4>3. retained' = "offline"
          BY <2>1, <4>2
        <4>4. i = Len(wire')
          BY <2>2, <3>2
        <4> QED
          BY <1>2, <3>2, <3>4, <4>3, <4>4
      <3> QED
        BY <3>3, <3>4
    <2>6. GoodbyeSent'
      BY <2>5 DEF GoodbyeSent
    <2> QED
      BY <2>4, <2>6
  <1> QED
    BY <1>3, <1>4 DEF Broker

LEMMA SchedulerStepGoodbye ==
    ASSUME SchedulerTypeOK, Free(queue), SchedulerStep
    PROVE  Free(queue')
  <1>1. queue \in Seq(Request)
    BY DEF SchedulerTypeOK, ChannelsTypeOK
  <1>2. CASE queue' = queue
    BY <1>2
  <1>3. ASSUME NEW frames \in 1..MaxFrames, EntryPublishes(frames)
        PROVE  Free(queue')
    <2> DEFINE new == [i \in 1..Room(frames) |-> "sample"]
    <2>1. Room(frames) \in Nat
      BY RoomFits
    <2>2. new \in Seq(Request) /\ Free(new)
      BY <2>1 DEF Request, Free
    <2>3. queue' = queue \o new
      BY <1>3 DEF EntryPublishes
    <2> HIDE DEF new
    <2> QED
      BY <1>1, <2>2, <2>3, FreeConcat
  <1> QED
    BY <1>2, <1>3 DEF SchedulerStep, RunEntry, TickWake, LinkWake, LinkClosed, EntryFails,
                      Examine, channelVars

-----------------------------------------------------------------------------
(* The agent *)

LEMMA NextStatus == TypeOK /\ StatusInv /\ [Next]_vars => StatusInv'
  <1> SUFFICES ASSUME TypeOK, StatusInv, [Next]_vars PROVE StatusInv'
    OBVIOUS
  <1> USE DEF TypeOK, StatusInv
  <1>1. CASE Scheduling
    <2>1. driver # "flush" /\ driver' = driver /\ UNCHANGED <<netVars, brokerVars>>
      BY <1>1 DEF Scheduling
    <2>2. Free(queue) /\ Free(pending) /\ Free(unacked)
      BY <2>1, QueueFree
    <2>3. Free(queue')
      BY <1>1, <2>2, SchedulerStepGoodbye DEF Scheduling
    <2>4. GoodbyeQueued'
      BY <2>1, <2>2, <2>3, FreeIsOrdered DEF netVars, Free
    <2>5. GoodbyeSent'
      BY <2>1, SameWire DEF netVars, brokerVars
    <2>6. main' = "select" => handle' = "held"
      BY <1>1 DEF Scheduling, BeginShutdown
    <2> QED
      BY <2>1, <2>4, <2>5, <2>6
  <1>2. CASE Driving
    BY <1>2, DriverStepGoodbye, DriverStepReleased DEF Driving, mainVars
  <1>3. CASE Around
    BY <1>3, BrokerGoodbye
    DEF Around, Broker, BrokerReceives, BrokerDrops, mainVars, taskVars
  <1>4. CASE OnSignal
    <2>1. UNCHANGED <<queue, pending, unacked, driver, session, wire, retained, net>>
      BY <1>4 DEF OnSignal, channelVars, netVars, brokerVars
    <2>2. main' # "select" /\ handle' # "held"
      BY <1>4 DEF OnSignal, BeginShutdown
    <2> QED
      BY <2>1, <2>2 DEF GoodbyeQueued, GoodbyeSent, Told
  <1>5. CASE ShutdownAborts \/ Killed
    <2>1. GoodbyeQueued' /\ net' = "down" /\ driver' = "done"
      BY <1>5, FinishGoodbye DEF ShutdownAborts, Killed
    <2>2. GoodbyeSent'
      BY <1>5, <2>1, SameWire DEF ShutdownAborts, Killed, brokerVars
    <2>3. main' = "exited"
      BY <1>5 DEF ShutdownAborts, Killed
    <2> QED
      BY <2>1, <2>2, <2>3
  <1>6. CASE Restart
    <2>1. GoodbyeQueued'
      BY <1>6, FreeEmpty, FreeIsOrdered DEF Restart
    <2>2. GoodbyeSent'
      BY <1>6, SameWire DEF Restart, brokerVars
    <2> QED
      BY <1>6, <2>1, <2>2 DEF Restart
  <1>7. CASE Signal \/ ShutdownReturns \/ Second \/ Stall \/ UNCHANGED vars
    <2>1. UNCHANGED <<queue, pending, unacked, driver, session, wire, retained, net, handle>>
      BY <1>7 DEF Signal, ShutdownReturns, Second, FlushSecond, Stall, vars, channelVars, driverOnly,
                  taskVars, netVars, brokerVars
    <2>2. main' = "select" => main = "select"
      BY <1>7 DEF Signal, ShutdownReturns, Second, Stall, vars, mainVars
    <2> QED
      BY <2>1, <2>2 DEF GoodbyeQueued, GoodbyeSent, Told
  <1> QED
    BY <1>1, <1>2, <1>3, <1>4, <1>5, <1>6, <1>7 DEF Next, Gone

LEMMA InitStatus == Init => StatusInv
  BY DEF Init, SchedulerInit, ChannelsInit, TaskInit, ClientInit, BrokerInit, MainInit,
         StatusInv, GoodbyeQueued, GoodbyeSent

\* A DISCONNECT is never queued or on the wire without an "offline" ahead of it.
THEOREM GoodbyeBeforeDisconnect == Spec => []StatusInv
  BY InitStatus, NextStatus, TypeCorrect, PTL DEF Spec

-----------------------------------------------------------------------------
(* The refinement of StatusTopic *)

LEMMA BrokerRefines ==
    ASSUME DriverTypeOK, GoodbyeSent, Broker
    PROVE  [Status!TopicNext]_<<session = "open", retained>>
  <1>1. CASE BrokerDrops
    BY <1>1 DEF BrokerDrops, Will, Status!TopicNext, Status!Dies
  <1>2. CASE BrokerReceives
    <2>1. wire # <<>> /\ wire \in Seq(Request) /\ session = "open"
      BY <1>2 DEF BrokerReceives, DriverTypeOK
    <2>2. CASE Head(wire) \in {"online", "offline"}
      BY <1>2, <2>1, <2>2 DEF BrokerReceives, Status!TopicNext, Status!Announces
    <2>3. CASE Head(wire) = "disconnect"
      <3>1. 1 \in 1..Len(wire) /\ wire[1] = "disconnect"
        BY <2>1, <2>3
      <3>2. retained = "offline"
        BY <3>1 DEF GoodbyeSent
      <3> QED
        BY <1>2, <2>1, <2>3, <3>2 DEF BrokerReceives, Status!TopicNext, Status!Leaves
    <2>4. CASE Head(wire) = "sample"
      BY <1>2, <2>4 DEF BrokerReceives
    <2>5. Head(wire) \in Request
      BY <2>1
    <2> QED
      BY <2>2, <2>3, <2>4, <2>5 DEF Request
  <1> QED
    BY <1>1, <1>2 DEF Broker

LEMMA DriverStepRefines ==
    ASSUME DriverStep
    PROVE  [Status!TopicNext]_<<session = "open", retained>>
  <1>1. ASSUME NEW resumed \in BOOLEAN, ConnectOk(resumed)
        PROVE  [Status!TopicNext]_<<session = "open", retained>>
    BY <1>1 DEF ConnectOk, Will, Status!TopicNext, Status!Opens
  <1>2. CASE \/ ConnectFails \/ Loses \/ BackoffEnds \/ Writes \/ Acknowledged
             \/ StopsAsleep \/ StopsUnconnected \/ StartsFlush
             \/ WritesDisconnect \/ FlushFails \/ GraceExpires
    BY <1>2 DEF ConnectFails, Loses, BackoffEnds, Writes, Acknowledged, StopsAsleep,
                StopsUnconnected, StartsFlush, WritesDisconnect, FlushFails, GraceExpires,
                brokerVars
  <1> QED
    BY <1>1, <1>2 DEF DriverStep

\* Every step of the agent, the network and the broker is a step of the abstract
\* topic or leaves it alone.
LEMMA NextRefines ==
    TypeOK /\ StatusInv /\ [Next]_vars => [Status!TopicNext]_<<session = "open", retained>>
  <1> SUFFICES ASSUME TypeOK, StatusInv, [Next]_vars
               PROVE  [Status!TopicNext]_<<session = "open", retained>>
    OBVIOUS
  <1>1. CASE Driving
    BY <1>1, DriverStepRefines DEF Driving
  <1>2. CASE Around
    BY <1>2, BrokerRefines DEF Around, TypeOK, StatusInv
  <1>3. CASE \/ Signal \/ OnSignal \/ Scheduling \/ ShutdownReturns \/ ShutdownAborts
             \/ Second \/ Stall \/ Killed \/ Restart \/ UNCHANGED vars
    BY <1>3 DEF Signal, OnSignal, Scheduling, ShutdownReturns, ShutdownAborts, Second,
                FlushSecond, Stall, Killed, Restart, vars, driverOnly, brokerVars
  <1> QED
    BY <1>1, <1>2, <1>3 DEF Next, Gone

\* The agent implements the promise of the status topic: a subscriber that reads
\* "online" reads it while the broker holds a session of the agent.
THEOREM StatusIsHonest == Spec => StatusTopicSpec
  <1>1. Init => Status!TopicInit
    BY DEF Init, BrokerInit, Status!TopicInit
  <1>2. TypeOK /\ StatusInv /\ [Next]_vars => [Status!TopicNext]_(Status!topicVars)
    BY NextRefines DEF Status!topicVars
  <1> QED
    BY <1>1, <1>2, TypeCorrect, GoodbyeBeforeDisconnect, PTL
    DEF Spec, StatusTopicSpec, Status!TopicSpec

=============================================================================
