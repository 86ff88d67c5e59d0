------------------------------- MODULE Driver -------------------------------
(***************************************************************************)
(* Driver::run and Driver::disconnect of the MQTT transport, on top of the *)
(* event loop of rumqttc 0.25, a TCP connection and a broker.              *)
(*                                                                         *)
(* The event loop, the network and the broker are not part of the          *)
(* repository.  They are modelled from what the driver relies on: requests *)
(* are written in order, a lost connection moves everything that was not   *)
(* acknowledged to a replay list, and the broker publishes the last will   *)
(* when a session ends without DISCONNECT.                                 *)
(***************************************************************************)
EXTENDS Channels

CONSTANTS
    MaxInflight,        \* transport.max_inflight
    CleanSession,       \* transport.clean_session
    SampleQos,          \* qos of the samples, 0 or 1 (2 behaves as 1 here)
    DisconnectGrace,    \* DISCONNECT_GRACE, in seconds
    WireCap,            \* bound: packets on the way to the broker
    ReplayCap           \* bound: a session is only resumed with a replay list this short

ASSUME DriverAssumption ==
    /\ MaxInflight \in Nat \ {0}
    /\ CleanSession \in BOOLEAN
    /\ SampleQos \in 0..1
    /\ DisconnectGrace \in Nat
    /\ WireCap \in Nat \ {0}
    /\ ReplayCap \in Nat

VARIABLES
    driver,     \* where Driver::run is: polling, in the backoff sleep, flushing, done
    outcome,    \* what the task returned, once it is done
    handle,     \* the Transport: held, or its oneshot resolved by shutdown or drop
    waited,     \* seconds spent flushing
    net,        \* the client's socket: "down" or "up"
    pending,    \* rumqttc's replay list
    unacked,    \* publishes written and not acknowledged
    wire,       \* packets on the way to the broker
    acks,       \* acknowledgements on the way back
    session,    \* the broker's view of the connection: "none" or "open"
    retained    \* the retained message of the status topic

taskVars == <<driver, outcome, handle, waited>>
netVars == <<net, pending, unacked, wire, acks>>
brokerVars == <<session, retained>>
driverVars == <<channelVars, taskVars, netVars, brokerVars>>

\* Types of the channels, the task, the client and the broker.
DriverTypeOK ==
    /\ ChannelsTypeOK
    /\ driver \in {"poll", "sleep", "flush", "done"}
    /\ outcome \in {"none", "ok", "fatal", "aborted"}
    /\ handle \in {"held", "shutdown", "dropped"}
    /\ waited \in 0..DisconnectGrace
    /\ net \in {"down", "up"}
    /\ pending \in Seq(Request)
    /\ unacked \in Seq(Request)
    /\ wire \in Seq(Request)
    /\ acks \in Nat
    /\ session \in {"none", "open"}
    /\ retained \in {"none", "online", "offline"}

TaskInit ==
    /\ driver = "poll"
    /\ outcome = "none"
    /\ handle = "held"
    /\ waited = 0

ClientInit ==
    /\ net = "down"
    /\ pending = <<>>
    /\ unacked = <<>>
    /\ acks = 0

BrokerInit ==
    /\ wire = <<>>
    /\ session = "none"
    /\ retained = "none"

-----------------------------------------------------------------------------
(* Leaving Driver::run.  The event loop is dropped with the task: its       *)
(* socket closes, its queue is gone.  What is on the wire may still arrive. *)

Finish(result) ==
    /\ driver' = "done"
    /\ outcome' = result
    /\ net' = "down"
    /\ attached' = FALSE
    /\ queue' = <<>>
    /\ pending' = <<>>
    /\ unacked' = <<>>
    /\ acks' = 0

MutWill(status) == status

\* What a session that ends without DISCONNECT leaves on the status topic: the
\* last will that build_options registers.
Will(status) == "offline"

\* EventLoop::clean: everything unfinished goes to the replay list.
Clean ==
    /\ net' = "down"
    /\ pending' = pending \o unacked \o queue
    /\ unacked' = <<>>
    /\ acks' = 0
    /\ queue' = <<>>

\* The biased select: once the shutdown channel resolved, no further event of
\* the connection is handled by Driver::run.
Polling == driver = "poll" /\ handle = "held"

-----------------------------------------------------------------------------
(* Connecting *)

MutConnectSilent(resumed) ==
    /\ Polling
    /\ net = "down"
    /\ resumed => ~CleanSession /\ Len(pending) <= ReplayCap
    /\ net' = "up"
    /\ pending' = IF resumed THEN pending ELSE <<>>
    /\ wire' = <<>>
    /\ session' = "open"
    /\ retained' = IF session = "open" THEN Will(retained) ELSE retained
    /\ SetState("connected")
    /\ queue' = IF resumed THEN queue ELSE TrySend(queue, "online")
    /\ UNCHANGED <<attached, taskVars, unacked, acks>>

\* CONNACK Success: the replay list survives only if the broker resumed the
\* session.  The driver reports Connected and queues the retained "online".
\* A broker that still held the old connection drops it and publishes its will.
ConnectOk(resumed) ==
    /\ Polling
    /\ net = "down"
    /\ resumed => ~CleanSession /\ Len(pending) <= ReplayCap
    /\ net' = "up"
    /\ pending' = IF resumed THEN pending ELSE <<>>
    /\ wire' = <<>>
    /\ session' = "open"
    /\ retained' = IF session = "open" THEN Will(retained) ELSE retained
    /\ SetState("connected")
    /\ queue' = TrySend(queue, "online")
    /\ UNCHANGED <<attached, taskVars, unacked, acks>>

MutRetrySilent ==
    /\ driver' = "sleep"
    /\ UNCHANGED <<link, unseen, attached, outcome, handle, waited>>

\* Errors that are retried: both states are set, then the backoff sleep.
Retry ==
    /\ SetLost
    /\ driver' = "sleep"
    /\ UNCHANGED <<attached, outcome, handle, waited>>

\* Errors that a new connection cannot fix (is_fatal).
GiveUp ==
    /\ SetState("fatal")
    /\ Finish("fatal")
    /\ UNCHANGED <<handle, waited>>

\* The attempt fails before a CONNACK Success.
ConnectFails ==
    /\ Polling
    /\ net = "down"
    /\ \/ Retry /\ UNCHANGED <<queue, net, pending, unacked, acks>>
       \/ GiveUp
    /\ UNCHANGED <<wire, brokerVars>>

\* poll() fails on an open connection; a network that died or an error of the
\* protocol state.
Loses ==
    /\ Polling
    /\ net = "up"
    /\ \/ Retry /\ Clean
       \/ GiveUp
    /\ UNCHANGED <<wire, brokerVars>>

BackoffEnds ==
    /\ driver = "sleep"
    /\ handle = "held"
    /\ driver' = "poll"
    /\ UNCHANGED <<channelVars, outcome, handle, waited, netVars, brokerVars>>

-----------------------------------------------------------------------------
(* The event loop on an open connection *)

Connected == net = "up" /\ (Polling \/ driver = "flush")

\* A packet leaves; on a connection the broker has given up it is lost.
OnWire(r) == wire' = IF session = "open" THEN Append(wire, r) ELSE wire

Tracked(r) == r \in {"online", "offline"} \/ (r = "sample" /\ SampleQos > 0)

\* The next request comes from the replay list, and from the queue only when
\* that is empty and there is room for another unacknowledged publish.
NextRequest ==
    IF pending # <<>> THEN Head(pending) ELSE Head(queue)

MayTake ==
    \/ pending # <<>>
    \/ queue # <<>> /\ Len(unacked) < MaxInflight

TakeRequest ==
    IF pending # <<>>
    THEN pending' = Tail(pending) /\ UNCHANGED queue
    ELSE queue' = Tail(queue) /\ UNCHANGED pending

Writes ==
    /\ Connected
    /\ MayTake
    /\ NextRequest # "disconnect"
    /\ Len(wire) < WireCap
    /\ TakeRequest
    /\ OnWire(NextRequest)
    /\ unacked' = IF Tracked(NextRequest) THEN Append(unacked, NextRequest) ELSE unacked
    /\ UNCHANGED <<link, unseen, attached, taskVars, net, acks, brokerVars>>

Acknowledged ==
    /\ Connected
    /\ acks > 0
    /\ unacked # <<>>
    /\ acks' = acks - 1
    /\ unacked' = Tail(unacked)
    /\ UNCHANGED <<channelVars, taskVars, net, pending, wire, brokerVars>>

-----------------------------------------------------------------------------
(* Shutdown *)

\* Transport::shutdown sends on the oneshot; dropping the Transport drops its
\* sender, which resolves the same receiver.
Release(how) ==
    /\ handle = "held"
    /\ handle' = how
    /\ UNCHANGED <<channelVars, driver, outcome, waited, netVars, brokerVars>>

\* The backoff select sees the shutdown: nothing to flush, no state is set.
StopsAsleep ==
    /\ driver = "sleep"
    /\ handle # "held"
    /\ Finish("ok")
    /\ UNCHANGED <<link, unseen, handle, waited, wire, brokerVars>>

\* Driver::disconnect without a connection.
StopsUnconnected ==
    /\ driver = "poll"
    /\ handle # "held"
    /\ link # "connected"
    /\ SetState("disconnected")
    /\ Finish("ok")
    /\ UNCHANGED <<handle, waited, wire, brokerVars>>

MutGoodbye(q) == TrySend(TrySend(q, "disconnect"), "offline")

MutGoodbyeWithoutStatus(q) == TrySend(q, "disconnect")

\* Both requests are best effort: a full queue refuses them.
Goodbye(q) == TrySend(TrySend(q, "offline"), "disconnect")

StartsFlush ==
    /\ driver = "poll"
    /\ handle # "held"
    /\ link = "connected"
    /\ queue' = Goodbye(queue)
    /\ driver' = "flush"
    /\ UNCHANGED <<link, unseen, attached, outcome, handle, waited, netVars, brokerVars>>

FlushEnds ==
    /\ driver = "flush"
    /\ SetState("disconnected")
    /\ Finish("ok")
    /\ UNCHANGED <<handle, waited>>

\* DISCONNECT is written, which ends the flush.
WritesDisconnect ==
    /\ Connected
    /\ MayTake
    /\ NextRequest = "disconnect"
    /\ Len(wire) < WireCap
    /\ OnWire("disconnect")
    /\ FlushEnds
    /\ UNCHANGED brokerVars

\* poll() fails during the flush.
FlushFails ==
    /\ FlushEnds
    /\ UNCHANGED <<wire, brokerVars>>

MutFlushRestartsGrace ==
    /\ driver = "flush"
    /\ waited < DisconnectGrace
    /\ UNCHANGED <<channelVars, taskVars, netVars, brokerVars>>

FlushSecond ==
    /\ driver = "flush"
    /\ waited < DisconnectGrace
    /\ waited' = waited + 1
    /\ UNCHANGED <<channelVars, driver, outcome, handle, netVars, brokerVars>>

GraceExpires ==
    /\ waited = DisconnectGrace
    /\ FlushEnds
    /\ UNCHANGED <<wire, brokerVars>>

-----------------------------------------------------------------------------
(* The broker *)

BrokerReceives ==
    /\ session = "open"
    /\ wire # <<>>
    /\ retained' = IF Head(wire) \in {"online", "offline"} THEN Head(wire) ELSE retained
    /\ IF Head(wire) = "disconnect"
       THEN session' = "none" /\ wire' = <<>>
       ELSE session' = session /\ wire' = Tail(wire)
    /\ acks' = IF net = "up" /\ Tracked(Head(wire)) THEN acks + 1 ELSE acks
    /\ UNCHANGED <<channelVars, taskVars, net, pending, unacked>>

\* The broker sees the connection end without DISCONNECT, or stops hearing
\* from it for 1.5 keep-alives: what was on the way is gone, the will goes out.
BrokerDrops ==
    /\ session = "open"
    /\ session' = "none"
    /\ retained' = Will(retained)
    /\ wire' = <<>>
    /\ UNCHANGED <<channelVars, taskVars, net, pending, unacked, acks>>

Broker == BrokerReceives \/ BrokerDrops

-----------------------------------------------------------------------------
DriverStep ==
    \/ \E resumed \in BOOLEAN : ConnectOk(resumed)
    \/ ConnectFails \/ Loses \/ BackoffEnds
    \/ Writes \/ Acknowledged
    \/ StopsAsleep \/ StopsUnconnected \/ StartsFlush
    \/ WritesDisconnect \/ FlushFails \/ GraceExpires

(* The clients of the transport, when the driver is checked on its own: a   *)
(* publisher that queues samples at will, and the owner of the Transport.   *)
AnyPublish ==
    /\ attached
    /\ queue' = TrySend(queue, "sample")
    /\ queue' # queue
    /\ UNCHANGED <<link, unseen, attached, taskVars, netVars, brokerVars>>

Clients == AnyPublish \/ \E how \in {"shutdown", "dropped"} : Release(how)

\* The task has ended and the broker has noticed.
DriverDone == driver = "done" /\ session = "none" /\ UNCHANGED driverVars

DriverInit == ChannelsInit /\ TaskInit /\ ClientInit /\ BrokerInit

DriverNext == DriverStep \/ FlushSecond \/ Broker \/ Clients \/ DriverDone

DriverSpec == DriverInit /\ [][DriverNext]_driverVars

-----------------------------------------------------------------------------
(* Properties *)

\* The refinement mapping: how the socket, the queues and the wire came to the
\* session is hidden from a subscriber.
Status == INSTANCE StatusTopic WITH present <- session = "open", status <- retained

\* The retained status tells the truth about the session through losses,
\* takeovers, replays, full queues and shutdowns that do not finish
\* (build_options' will, the order of the two sends in Driver::disconnect).
StatusTopicSpec == Status!TopicSpec

\* The state a reader of the watch channel sees is that of the socket: every
\* path that opens or closes the connection reports it in the same step.
LinkIsNet ==
    driver # "done" => /\ link \in {"connecting", "connected", "reconnecting"}
                       /\ link = "connected" <=> net = "up"

\* The next packet would follow an "offline", on the wire or at the broker.
Told ==
    session = "open" => IF wire = <<>> THEN retained = "offline"
                                       ELSE wire[Len(wire)] = "offline"

\* DISCONNECT exists only while the driver flushes, and "offline" is right in
\* front of it: in the queue, or already written once the replay list is empty.
GoodbyeQueued ==
    /\ \A i \in 1..Len(pending) : pending[i] # "disconnect"
    /\ \A i \in 1..Len(unacked) : unacked[i] # "disconnect"
    /\ \A i \in 1..Len(queue) : queue[i] = "disconnect" =>
            /\ driver = "flush"
            /\ IF i > 1 THEN queue[i - 1] = "offline" ELSE pending = <<>> /\ Told

\* A DISCONNECT on the wire is the last packet of its connection and comes
\* right behind an "offline".
GoodbyeSent ==
    \A i \in 1..Len(wire) : wire[i] = "disconnect" =>
        /\ i = Len(wire)
        /\ net = "down"
        /\ IF i > 1 THEN wire[i - 1] = "offline" ELSE retained = "offline"

\* Transport, connection.rs:67-69: dropping it without shutdown "closes the
\* socket without a DISCONNECT packet".
DropSendsNoDisconnect ==
    handle = "dropped" => \A i \in DOMAIN wire : wire[i] # "disconnect"

=============================================================================
