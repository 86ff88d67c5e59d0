------------------------------- MODULE Agent --------------------------------
(***************************************************************************)
(* The whole agent: main.rs runs the scheduler and the wait for a signal   *)
(* in one task, the connection driver in another, both on one thread.  The *)
(* process can be killed and is restarted by systemd after a failure.      *)
(***************************************************************************)
EXTENDS Scheduler, Driver

CONSTANTS
    ShutdownTimeout,    \* SHUTDOWN_TIMEOUT, in seconds
    Punctual,           \* the process is never starved of the CPU for seconds
    MaxRestarts         \* bound: how often the process is started again

ASSUME AgentAssumption ==
    /\ ShutdownTimeout \in Nat
    /\ Punctual \in BOOLEAN
    /\ MaxRestarts \in Nat

VARIABLES
    main,       \* run(): in the select, in transport.shutdown, or exited
    exit,       \* how the process ended or is going to
    signal,     \* SIGTERM or SIGINT has been delivered
    elapsed,    \* seconds since transport.shutdown was called
    restarts

mainVars == <<main, exit, signal, elapsed, restarts>>
vars == <<channelVars, loopVars, taskVars, netVars, brokerVars, mainVars>>

MainTypeOK ==
    /\ main \in {"select", "shutdown", "exited"}
    /\ exit \in {"none", "0", "1", "killed"}
    /\ signal \in BOOLEAN
    /\ elapsed \in 0..ShutdownTimeout
    /\ restarts \in 0..MaxRestarts

\* Types of every variable of the agent, the network and the broker.
TypeOK == SchedulerTypeOK /\ DriverTypeOK /\ MainTypeOK

MainInit ==
    /\ main = "select"
    /\ exit = "none"
    /\ signal = FALSE
    /\ elapsed = 0

Init == SchedulerInit /\ TaskInit /\ ClientInit /\ BrokerInit /\ MainInit /\ restarts = 0

driverOnly == <<taskVars, netVars, brokerVars>>

-----------------------------------------------------------------------------
(* main.rs *)

\* transport.shutdown: the oneshot is sent and the driver awaited.
BeginShutdown(code) ==
    /\ main' = "shutdown"
    /\ exit' = code
    /\ handle' = "shutdown"

\* A signal is delivered while the thread is not inside a collector.
Signal ==
    /\ main = "select"
    /\ AtAwait
    /\ ~signal
    /\ signal' = TRUE
    /\ UNCHANGED <<channelVars, loopVars, driverOnly, main, exit, elapsed, restarts>>

\* The biased select: the signal is polled before the scheduler, whose future
\* is dropped where it stands, in the middle of a cycle too.
OnSignal ==
    /\ main = "select"
    /\ signal
    /\ BeginShutdown("0")
    /\ task' = "dropped"
    /\ cur' = 0
    /\ UNCHANGED <<channelVars, paused, ever_connected, skipped, failures,
                   driver, outcome, waited, netVars, brokerVars,
                   signal, elapsed, restarts>>

\* What main makes of the end of scheduler.run().
ScheduledExit == "1"

\* A step of the scheduler's future.  When it returns, the select and with it
\* the shutdown follow in the same poll.
Scheduling ==
    /\ main = "select"
    /\ ~signal
    /\ SchedulerStep
    /\ IF task' = "returned"
       THEN BeginShutdown(ScheduledExit)
       ELSE UNCHANGED <<main, exit, handle>>
    /\ UNCHANGED <<driver, outcome, waited, netVars, brokerVars, signal, elapsed, restarts>>

\* The driver gets the thread when the scheduler awaits.
Driving ==
    /\ main # "exited"
    /\ AtAwait
    /\ DriverStep
    /\ UNCHANGED <<loopVars, mainVars>>

MutAwaitsState ==
    /\ main = "shutdown"
    /\ link = "disconnected"
    /\ main' = "exited"
    /\ UNCHANGED <<channelVars, loopVars, driverOnly, exit, signal, elapsed, restarts>>

\* transport.shutdown returns the driver's result; the exit code stays.
ShutdownReturns ==
    /\ main = "shutdown"
    /\ driver = "done"
    /\ main' = "exited"
    /\ UNCHANGED <<channelVars, loopVars, driverOnly, exit, signal, elapsed, restarts>>

\* The driver did not stop in time and is aborted.
ShutdownAborts ==
    /\ main = "shutdown"
    /\ driver # "done"
    /\ elapsed = ShutdownTimeout
    /\ Finish("aborted")
    /\ main' = "exited"
    /\ UNCHANGED <<link, unseen, loopVars, handle, waited, wire, brokerVars,
                   exit, signal, elapsed, restarts>>

\* A second passes during the shutdown.  Ready tasks run first, so no time
\* passes before the driver has seen the request or while a deadline is due.
Second ==
    /\ main = "shutdown"
    /\ elapsed < ShutdownTimeout
    /\ FlushSecond
    /\ elapsed' = elapsed + 1
    /\ UNCHANGED <<loopVars, main, exit, signal, restarts>>

\* The process gets no CPU for a while (SIGSTOP, swapping): when it goes on,
\* both deadlines are over and either task may be polled first.
Stall ==
    /\ ~Punctual
    /\ main = "shutdown"
    /\ driver # "done"
    /\ elapsed < ShutdownTimeout
    /\ elapsed' = ShutdownTimeout
    /\ waited' = IF driver = "flush" THEN DisconnectGrace ELSE waited
    /\ UNCHANGED <<channelVars, loopVars, driver, outcome, handle, netVars, brokerVars,
                   main, exit, signal, restarts>>

-----------------------------------------------------------------------------
(* Around the process *)

Around == Broker /\ UNCHANGED <<loopVars, mainVars>>

\* SIGKILL, an OOM kill or a panic of the main task: the kernel closes the
\* socket, nobody says goodbye.
Killed ==
    /\ main # "exited"
    /\ main' = "exited"
    /\ exit' = "killed"
    /\ task' = "dropped"
    /\ cur' = 0
    /\ Finish("aborted")
    /\ UNCHANGED <<link, unseen, paused, ever_connected, skipped, failures,
                   handle, waited, wire, brokerVars, signal, elapsed, restarts>>

\* Restart=on-failure: a new process with nothing of the old one's memory,
\* while the broker may still believe in the old connection.
Restart ==
    /\ main = "exited"
    /\ exit \in {"1", "killed"}
    /\ restarts < MaxRestarts
    /\ restarts' = restarts + 1
    /\ link' = "connecting" /\ unseen' = FALSE /\ queue' = <<>> /\ attached' = TRUE
    /\ task' = "running" /\ cur' = 0 /\ paused' = FALSE /\ ever_connected' = FALSE
    /\ skipped' = 0 /\ failures' = [e \in 1..N |-> 0]
    /\ driver' = "poll" /\ outcome' = "none" /\ handle' = "held" /\ waited' = 0
    /\ net' = "down" /\ pending' = <<>> /\ unacked' = <<>> /\ acks' = 0
    /\ main' = "select" /\ exit' = "none" /\ signal' = FALSE /\ elapsed' = 0
    /\ UNCHANGED <<wire, brokerVars>>

\* The process is gone for good and the broker has noticed.
Gone ==
    /\ main = "exited"
    /\ session = "none"
    /\ UNCHANGED vars

-----------------------------------------------------------------------------
Next ==
    \/ Signal \/ OnSignal \/ Scheduling \/ Driving
    \/ ShutdownReturns \/ ShutdownAborts \/ Second \/ Stall
    \/ Around \/ Killed \/ Restart \/ Gone

\* The runtime polls every ready task; the timers fire; a connection whose
\* other end is gone is noticed, by the broker and by the driver.  A ready
\* driver loses the thread only to a collector that does not await, and is
\* polled at the next await, hence strong fairness.  Nothing is assumed of
\* connection attempts, of signals or of restarts.
Fairness ==
    /\ WF_vars(OnSignal)
    /\ WF_vars(Scheduling /\ (TickWake \/ RunEntry))
    /\ SF_vars(Driving /\ (Writes \/ WritesDisconnect))
    /\ SF_vars(Driving /\ Acknowledged)
    /\ SF_vars(Driving /\ (StopsAsleep \/ StopsUnconnected \/ StartsFlush))
    /\ SF_vars(Driving /\ session = "none" /\ Loses)
    /\ WF_vars(Driving /\ GraceExpires)
    /\ WF_vars(ShutdownReturns)
    /\ WF_vars(ShutdownAborts)
    /\ WF_vars(Second)
    /\ WF_vars(Around /\ BrokerReceives)
    /\ WF_vars(Around /\ net = "down" /\ BrokerDrops)

Spec == Init /\ [][Next]_vars

FairSpec == Spec /\ Fairness

-----------------------------------------------------------------------------
(* Properties *)

\* The capacity that Config::validate demands is enough: whenever the driver
\* may see a CONNACK the queue has room for the "online" status, even if the
\* last connection died in the middle of a cycle that is still going on.
RoomForOnline == driver = "poll" /\ net = "down" => Len(queue) < Capacity

\* The inductive invariant behind RoomForOnline: the watch state is that of the
\* socket, and an outage finds at most the rest of one cycle in the queue.
IInv == TypeOK /\ LinkIsNet /\ OutageBacklog

\* The inductive invariant behind the status topic: a DISCONNECT never travels
\* without an "offline" ahead of it, because nothing is published once main has
\* asked the driver to stop.
StatusInv ==
    /\ GoodbyeQueued
    /\ GoodbyeSent
    /\ driver = "flush" => handle # "held"
    /\ main = "select" => handle = "held"

\* Exit code 1 after a scheduler that stopped always means a fatal connection
\* error: the scheduler never gives up because of a state it misread or of a
\* channel that was closed first (scheduler.rs:102-104, 115-117; main.rs:85-88).
ExitOneMeansFatal == main # "select" /\ exit = "1" => outcome = "fatal"

\* The 3 s grace of the driver ends inside the 5 s window of main: unless the
\* process is killed or starved, the driver returns by itself and is never
\* aborted in the middle of its farewell.
NeverAborted == Punctual /\ outcome = "aborted" => exit = "killed"

\* SIGTERM and SIGINT end the process whatever the connection is doing.
SignalEnds == signal ~> main = "exited"

\* A fatal connection error ends the process, so that systemd can restart it.
FatalEnds == outcome = "fatal" ~> main = "exited"

\* A process that is gone does not stay "online".
DeathIsAnnounced == main = "exited" ~> (retained # "online" \/ main # "exited")

\* A connection that stays up gets its "online" through, ahead of whatever is
\* replayed and queued.
OnlineWhileConnected ==
    <>[](net = "up" /\ main = "select") => <>[](retained = "online")

\* A connection that stays up is sampled on: every entry of the cycle is
\* reached again and again.
SampledWhileConnected ==
    <>[](net = "up" /\ main = "select" /\ ~signal) => []<>(cur = N)

\* mqtt.md:26: "On every successful connection the agent publishes `online`";
\* the capacity is said to leave room for it (config/mod.rs:139).
OnlineOnEveryConnection ==
    [][net = "down" /\ net' = "up" => Len(queue') = Len(queue) + 1]_vars

=============================================================================
