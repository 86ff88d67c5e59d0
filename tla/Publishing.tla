----------------------------- MODULE Publishing -----------------------------
(***************************************************************************)
(* Publisher::publish under a configuration that Startup accepted, down to *)
(* the sizes of the packets, and the subscriber that puts frames together  *)
(* again.  The process may be killed and started anew; the subscriber      *)
(* stays, and so does what it has received.                                *)
(*                                                                         *)
(* The status messages in the same queue, and when the queue is emptied,   *)
(* are the business of Driver.tla: here requests leave it at any time.     *)
(***************************************************************************)
EXTENDS Startup, Framer, FiniteSetsExt

CONSTANTS
    MaxPublishes,  \* bound: calls of publish in one life of the process
    MaxLives       \* bound: starts of the process

ASSUME PublishingAssumption ==
    /\ MaxPublishes \in Nat
    /\ MaxLives \in Nat \ {0}

VARIABLES
    next_stream_id,
    queue,      \* the request channel: PUBLISH packets not yet taken
    last,       \* the last call of publish: its entry, payload and result
    published,  \* calls of publish in this life
    life,       \* starts of the process so far
    received    \* the frames the subscriber has, each with the call of publish
                \* it is from; a duplicate changes nothing

publishVars == <<next_stream_id, queue, last, published, life, received>>
vars == <<startVars, publishVars>>

Result ==
    {"none", "ok", "queue_full", "too_large", "framing", "invalid_qos", "encoding"}

\* The frame of a packet that is not one; a header never counts zero frames.
NoFrame == [stream_id |-> 0, frame_index |-> 0, frame_total |-> 0, chunk |-> 0]

NoCall == [entry |-> 1, payload |-> 0, result |-> "none"]

Call == [life : Nat, number : Nat, payload : Nat]
Packet == [entry : Nat, bytes : Int, frame : Frame, call : Call]

TypeOK ==
    /\ StartupTypeOK
    /\ next_stream_id \in 1..published + 1
    /\ queue \in Seq(Packet)
    /\ Len(queue) <= config.transport.request_channel_capacity
    /\ last \in [entry : Nat, payload : Nat, result : Result]
    /\ published \in 0..MaxPublishes
    /\ life \in 1..MaxLives
    /\ received \subseteq [frame : Frame, call : Call]

PublisherInit ==
    /\ next_stream_id = 1
    /\ queue = <<>>
    /\ last = NoCall
    /\ published = 0

Init == StartupInit /\ PublisherInit /\ life = 1 /\ received = {}

-----------------------------------------------------------------------------
(* Sizes *)

\* The length of join_topic(base, topic).
JoinLen(base, topic) ==
    IF base.bytes = 0 THEN topic.bytes ELSE base.bytes + 1 + topic.bytes

PidLen(qos) == IF qos = 0 THEN 0 ELSE 2

MutOverheadShortLength(topic_len, qos) == 1 + 3 + 2 + topic_len + PidLen(qos)

MutOverheadAlwaysPid(topic_len, qos) == 1 + 4 + 2 + topic_len + 2

publish_overhead(topic_len, qos) == 1 + 4 + 2 + topic_len + PidLen(qos)

\* The bytes that an MQTT length field needs, and the size of a PUBLISH.
VarLen(n) ==
    IF n < 16384 THEN IF n < 128 THEN 1 ELSE 2 ELSE IF n < 2097152 THEN 3 ELSE 4

PacketSize(topic_len, qos, payload) ==
    LET remaining == 2 + topic_len + PidLen(qos) + payload
    IN 1 + VarLen(remaining) + remaining

EntryTopicLen(entry) ==
    JoinLen(config.transport.base_topic, config.metrics.enabled[entry].metadata.topic)

EntryQos(entry) == config.metrics.enabled[entry].metadata.qos

\* Negative when the topic alone is too long; then both ways of publishing
\* refuse every payload, as checked_sub does.
MaxPayload(entry) ==
    config.transport.max_packet_size
        - publish_overhead(EntryTopicLen(entry), EntryQos(entry))

-----------------------------------------------------------------------------
MutRoomUnbounded(packets) == Len(packets)

\* try_publish one after the other, until the queue refuses one.
Room(packets) ==
    LET free == config.transport.request_channel_capacity - Len(queue)
    IN IF Len(packets) < free THEN Len(packets) ELSE free

Enqueue(packets) ==
    queue' = [i \in 1..Len(queue) + Room(packets) |->
                 IF i <= Len(queue) THEN queue[i] ELSE packets[i - Len(queue)]]

EnqueueResult(packets) == IF Room(packets) = Len(packets) THEN "ok" ELSE "queue_full"

\* What this call publishes, told apart from every other call's.
ThisCall(payload) == [life |-> life, number |-> published + 1, payload |-> payload]

Called(entry, payload, result) ==
    last' = [entry |-> entry, payload |-> payload, result |-> result]

Refuses(entry, payload, result) ==
    /\ Called(entry, payload, result)
    /\ UNCHANGED <<queue, next_stream_id>>

\* Serializer::encode: an encoder or the compressor behind it fails, after the
\* quality of service was looked at and before anything is measured or counted.
EncodeFails(entry, payload) == Refuses(entry, payload, "encoding")

\* Without framing the payload is the packet's.
PublishWhole(entry, payload) ==
    IF payload > MaxPayload(entry)
    THEN Refuses(entry, payload, "too_large")
    ELSE LET packets == <<[entry |-> entry, bytes |-> payload,
                            frame |-> NoFrame, call |-> ThisCall(payload)]>>
         IN /\ Enqueue(packets)
            /\ Called(entry, payload, EnqueueResult(packets))
            /\ UNCHANGED next_stream_id

\* The frames of one call.
FramePackets(entry, payload) ==
    LET frames == Frames(payload, next_stream_id, MaxPayload(entry))
    IN [i \in 1..Len(frames) |->
           [entry |-> entry, bytes |-> FRAME_HEADER_LEN + frames[i].chunk,
            frame |-> frames[i], call |-> ThisCall(payload)]]

\* The stream id is taken before the frames are built, and stays taken when
\* they cannot be.
PublishFramed(entry, payload) ==
    IF MaxPayload(entry) < FRAME_HEADER_LEN
    THEN Refuses(entry, payload, "too_large")
    ELSE /\ next_stream_id' = next_stream_id + 1
         /\ IF ~CanFrame(payload, MaxPayload(entry))
            THEN Called(entry, payload, "framing") /\ UNCHANGED queue
            ELSE LET packets == FramePackets(entry, payload)
                 IN /\ Enqueue(packets)
                    /\ Called(entry, payload, EnqueueResult(packets))

Publish(entry, payload) ==
    /\ stage = "running"
    /\ published < MaxPublishes
    /\ published' = published + 1
    /\ IF EntryQos(entry) > 2 THEN Refuses(entry, payload, "invalid_qos")
       ELSE \/ EncodeFails(entry, payload)
            \/ config.transport.framing /\ PublishFramed(entry, payload)
            \/ ~config.transport.framing /\ PublishWhole(entry, payload)
    /\ UNCHANGED <<startVars, life, received>>

Publishes ==
    \E entry \in 1..Len(config.metrics.enabled), payload \in host.payloads :
        Publish(entry, payload)

-----------------------------------------------------------------------------
\* The oldest request is taken, written and delivered.
Delivers ==
    /\ stage = "running"
    /\ queue # <<>>
    /\ queue' = Tail(queue)
    /\ received' = IF Head(queue).frame = NoFrame THEN received
                   ELSE received \union {[frame |-> Head(queue).frame,
                                            call |-> Head(queue).call]}
    /\ UNCHANGED <<startVars, next_stream_id, last, published, life>>

\* It is written to a connection that dies and never reaches the subscriber.
Loses ==
    /\ stage = "running"
    /\ queue # <<>>
    /\ queue' = Tail(queue)
    /\ UNCHANGED <<startVars, next_stream_id, last, published, life, received>>

Killed ==
    /\ stage = "running"
    /\ Ends("killed")
    /\ UNCHANGED <<host, config, files, client_auth, publishVars>>

\* systemd starts a killed or failed process again.
Restart ==
    /\ stage = "exited"
    /\ life < MaxLives
    /\ life' = life + 1
    /\ stage' = "load"
    /\ exit' = "none"
    /\ config' = host.file.config
    /\ client_auth' = FALSE
    /\ next_stream_id' = 1
    /\ queue' = <<>>
    /\ last' = NoCall
    /\ published' = 0
    /\ UNCHANGED <<host, files, received>>

StartupStep == (Starting \/ FileVanishes) /\ UNCHANGED publishVars

Done == stage = "exited" /\ life = MaxLives /\ UNCHANGED vars

Next ==
    StartupStep \/ Publishes \/ Delivers \/ Loses \/ Killed \/ Restart \/ Done

Spec == Init /\ [][Next]_vars

-----------------------------------------------------------------------------
(* Properties *)

\* Whatever passed Config::validate never meets an assertion of rumqttc, the
\* expect() on a collector's name (main.rs:64, connection.rs:157-163), nor the
\* quality of service that publish cannot use (publisher.rs:60-65).
ValidatedIsEnough == NeverPanics /\ last.result # "invalid_qos"

\* No packet in the queue is larger than max_packet_size on the wire: the
\* worst case that publish subtracts covers every length field
\* (publisher.rs:71-77, 132-138), with and without frames.
PacketsFit ==
    \A i \in 1..Len(queue) :
        PacketSize(EntryTopicLen(queue[i].entry), EntryQos(queue[i].entry),
                   queue[i].bytes) <= config.transport.max_packet_size

\* A payload is refused for its size only if it really is within three bytes,
\* the slack of the length field, of a packet too large; with frames only if
\* not even one byte fits behind a header, or the header cannot count them.
RefusalsAreTight ==
    last.result \in {"too_large", "framing"} =>
        LET least == IF config.transport.framing THEN FRAME_HEADER_LEN + 1
                     ELSE last.payload
        IN \/ PacketSize(EntryTopicLen(last.entry), EntryQos(last.entry), least) + 3
                  > config.transport.max_packet_size
           \/ /\ last.result = "framing"
              /\ last.payload > (MaxPayload(last.entry) - FRAME_HEADER_LEN) * FrameLimit

\* What the subscriber has of one stream from one life of the publisher.
PartsOf(stream_id, incarnation) ==
    {part \in received :
        part.frame.stream_id = stream_id /\ part.call.life = incarnation}

\* When the subscriber has as many frames of a stream as their header says,
\* they are the whole of one payload, byte for byte; short of that number a
\* part is missing.  So a sample that was cut off by a full queue or lost on
\* the way is never taken for a whole one (framer.rs:87-99, publisher.rs:92-110).
Reassembles ==
    \A stream_id \in 1..MaxPublishes, incarnation \in 1..MaxLives :
        LET parts == PartsOf(stream_id, incarnation) IN
        \A part \in parts :
            part.frame.frame_total = Cardinality(parts) <=>
                /\ \A other \in parts : other.call = part.call
                /\ MapThenSumSet(LAMBDA p : p.frame.chunk, parts) = part.call.payload

-----------------------------------------------------------------------------
(* The inductive invariant *)

\* Past Config::load the configuration in memory is one that it accepted, and
\* the TLS files were there.
Accepted ==
    stage \notin {"load", "exited"} =>
        config = Parsed(host.file) /\ Loads(host.file, host.present)

\* TLS files only go away.
FilesOnlyGo == files \subseteq host.present

\* A process that has not ended has no exit code.
NoneTillExited == stage # "exited" => exit = "none"

\* Every packet was measured against the configuration in force.
QueueMeasured ==
    /\ stage \notin {"running", "exited"} => queue = <<>>
    /\ \A i \in 1..Len(queue) :
           /\ queue[i].entry \in 1..Len(config.metrics.enabled)
           /\ queue[i].bytes <= MaxPayload(queue[i].entry)

\* A call was refused for its size against the configuration in force.
RefusalsMeasured ==
    /\ stage \notin {"running", "exited"} => last = NoCall
    /\ last.result \in {"too_large", "framing"} =>
           /\ last.entry \in 1..Len(config.metrics.enabled)
           /\ \/ ~config.transport.framing /\ last.payload > MaxPayload(last.entry)
              \/ config.transport.framing /\ FRAME_HEADER_LEN >= MaxPayload(last.entry)
              \/ /\ last.result = "framing"
                 /\ last.payload > (MaxPayload(last.entry) - FRAME_HEADER_LEN) * FrameLimit

\* Holds in every reachable state and carries the proofs of the others: what
\* was checked at the start is still true of the configuration in use.
PInv ==
    /\ TypeOK
    /\ Accepted
    /\ FilesOnlyGo
    /\ NoneTillExited
    /\ QueueMeasured
    /\ RefusalsMeasured
    /\ ValidatedIsEnough
    /\ ExitOneIsNotTheFile

=============================================================================
