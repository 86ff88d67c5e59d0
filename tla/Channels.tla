------------------------------ MODULE Channels ------------------------------
(***************************************************************************)
(* What the sampling loop and the connection driver share: the watch       *)
(* channel that carries the ConnectionState, and rumqttc's bounded request *)
(* queue.  Both ends live on one thread; every operator here is one        *)
(* non-blocking call.                                                      *)
(***************************************************************************)
EXTENDS Naturals, Sequences

CONSTANT
    Capacity            \* transport.request_channel_capacity

ASSUME CapacityAssumption == Capacity \in Nat \ {0}

VARIABLES
    link,       \* value held by the watch channel
    unseen,     \* TRUE while the scheduler's receiver has not seen that value
    queue,      \* requests waiting in the event loop's channel
    attached    \* TRUE while the driver owns the watch sender and the event loop

channelVars == <<link, unseen, queue, attached>>

\* The reasons and delays that the states carry are abstracted.
ConnectionState ==
    {"connecting", "connected", "disconnected", "reconnecting", "fatal"}

\* Everything the agent ever puts into the queue.
Request == {"sample", "online", "offline", "disconnect"}

\* Part of the type invariants of the modules that extend this one.
ChannelsTypeOK ==
    /\ link \in ConnectionState
    /\ unseen \in BOOLEAN
    /\ queue \in Seq(Request)
    /\ Len(queue) <= Capacity
    /\ attached \in BOOLEAN

ChannelsInit ==
    /\ link = "connecting"
    /\ unseen = FALSE
    /\ queue = <<>>
    /\ attached = TRUE

-----------------------------------------------------------------------------
\* A sender that notifies only when the value is not already the new one.
MutSilentSetState(next) == link' = next /\ unseen' = unseen

\* watch::Sender::send_if_modified with the comparison of Driver::set_state.
SetState(next) ==
    /\ link' = next
    /\ unseen' = (unseen \/ link # next)

\* Disconnected(reason) and then Reconnecting(delay) with no await between
\* them: nobody observes the first, and the pair always counts as a change.
SetLost ==
    /\ link' = "reconnecting"
    /\ unseen' = TRUE

\* AsyncClient::try_publish / try_disconnect: a full queue refuses the request.
TrySend(q, r) == IF Len(q) < Capacity THEN Append(q, r) ELSE q

=============================================================================
