-------------------------- MODULE PublishingProofs --------------------------
(***************************************************************************)
(* Proofs about Publishing.tla, for any set of installations, any sizes    *)
(* and any number of lives: what Config::load has checked stays true of    *)
(* the configuration in use, so the start never panics, every packet fits, *)
(* every refusal has its reason, and the frames that arrive in one life of *)
(* the program are those of the call they carry.                           *)
(***************************************************************************)
EXTENDS Publishing, DataTheorems, TLAPS

-----------------------------------------------------------------------------
(* Sizes *)

LEMMA ConfigTyped ==
    ASSUME config \in Config
    PROVE  /\ config.transport \in TransportConfig
           /\ config.metrics.enabled \in Seq(Entry)
  BY DEF Config

LEMMA TransportTyped ==
    ASSUME NEW transport \in TransportConfig
    PROVE  /\ transport.base_topic \in Topic
           /\ transport.max_packet_size \in Nat
           /\ transport.request_channel_capacity \in Nat
           /\ transport.framing \in BOOLEAN
  BY DEF TransportConfig

LEMMA TopicTyped ==
    ASSUME NEW topic \in Topic
    PROVE  topic.bytes \in Nat
  BY DEF Topic

LEMMA JoinLenTyped ==
    ASSUME NEW base \in Topic, NEW topic \in Topic
    PROVE  JoinLen(base, topic) \in Nat
  BY TopicTyped DEF JoinLen

LEMMA MetadataTyped ==
    ASSUME NEW entry \in Entry
    PROVE  entry.metadata.topic \in Topic /\ entry.metadata.qos \in Nat
  <1>1. entry.metadata \in EndpointMetadata
    BY DEF Entry
  <1> QED
    BY <1>1 DEF EndpointMetadata

LEMMA EntryTyped ==
    ASSUME config \in Config, NEW entry \in 1..Len(config.metrics.enabled)
    PROVE  /\ EntryTopicLen(entry) \in Nat
           /\ EntryQos(entry) \in Nat
           /\ MaxPayload(entry) \in Int
           /\ MaxPayload(entry) = config.transport.max_packet_size
                                  - publish_overhead(EntryTopicLen(entry), EntryQos(entry))
           /\ publish_overhead(EntryTopicLen(entry), EntryQos(entry)) \in Nat
           /\ config.transport.max_packet_size \in Nat
  <1> DEFINE metadata == config.metrics.enabled[entry].metadata
  <1>1. config.metrics.enabled[entry] \in Entry
    BY ConfigTyped
  <1>2. metadata.topic \in Topic /\ metadata.qos \in Nat
    BY <1>1, MetadataTyped
  <1>3. /\ config.transport.base_topic \in Topic
        /\ config.transport.max_packet_size \in Nat
    BY ConfigTyped, TransportTyped
  <1>4. EntryTopicLen(entry) \in Nat /\ EntryQos(entry) \in Nat
    BY <1>2, <1>3, JoinLenTyped DEF EntryTopicLen, EntryQos
  <1>5. publish_overhead(EntryTopicLen(entry), EntryQos(entry)) \in Nat
    BY <1>4 DEF publish_overhead, PidLen
  <1>6. MaxPayload(entry) = config.transport.max_packet_size
                           - publish_overhead(EntryTopicLen(entry), EntryQos(entry))
    BY DEF MaxPayload
  <1>7. MaxPayload(entry) \in Int
    BY <1>3, <1>5, <1>6
  <1> QED
    BY <1>3, <1>4, <1>5, <1>6, <1>7

\* publish_overhead covers what a packet has besides its payload, and exceeds
\* it by at most the three bytes that a short length field saves.  So a payload
\* within MaxPayload makes a packet that fits, and one beyond it a packet that
\* is too large but for that slack.
LEMMA MaxPayloadDecides ==
    ASSUME config \in Config, NEW entry \in 1..Len(config.metrics.enabled),
           NEW payload \in Int
    PROVE  LET size == PacketSize(EntryTopicLen(entry), EntryQos(entry), payload)
           IN /\ payload <= MaxPayload(entry)
                     => size <= config.transport.max_packet_size
              /\ payload > MaxPayload(entry)
                     => size + 3 > config.transport.max_packet_size
  <1> DEFINE topic_len == EntryTopicLen(entry)
             qos == EntryQos(entry)
             limit == config.transport.max_packet_size
  <1>1. topic_len \in Nat /\ qos \in Nat /\ limit \in Nat
    BY EntryTyped
  <1>2. MaxPayload(entry) = limit - publish_overhead(topic_len, qos)
    BY EntryTyped
  <1> HIDE DEF topic_len, qos, limit
  <1>3. /\ payload <= MaxPayload(entry) => PacketSize(topic_len, qos, payload) <= limit
        /\ payload > MaxPayload(entry) => PacketSize(topic_len, qos, payload) + 3 > limit
    BY <1>1, <1>2, Z3 DEF PacketSize, publish_overhead, VarLen, PidLen
  <1> QED
    BY <1>3 DEF topic_len, qos, limit

-----------------------------------------------------------------------------
(* Frames *)

LEMMA FrameTotalTyped ==
    ASSUME NEW payload \in Nat, NEW chunk_max \in Nat, payload # 0 => chunk_max # 0
    PROVE  FrameTotal(payload, chunk_max) \in Int
  BY DEF FrameTotal

LEMMA ChunksTyped ==
    ASSUME NEW payload \in Nat \ {0}, NEW chunk_max \in Nat \ {0}
    PROVE  /\ Chunks(payload, chunk_max) \in Seq(Int)
           /\ \A i \in 1..Len(Chunks(payload, chunk_max)) :
                  Chunks(payload, chunk_max)[i] <= chunk_max
  <1> DEFINE count == payload \div chunk_max + (IF payload % chunk_max = 0 THEN 0 ELSE 1)
             Rest(i) == payload - (i - 1) * chunk_max
             slices == [i \in 1..count |->
                           IF Rest(i) < chunk_max THEN Rest(i) ELSE chunk_max]
  <1>1. payload \div chunk_max \in Nat
    OBVIOUS
  <1>2. count \in Nat
    BY <1>1
  <1>3. \A i \in Int : Rest(i) \in Int
    OBVIOUS
  <1>4. Chunks(payload, chunk_max) = slices
    BY DEF Chunks
  <1> HIDE DEF count, Rest
  <1>5. slices \in Seq(Int) /\ Len(slices) = count
    BY <1>2, <1>3
  <1>6. \A i \in 1..count : slices[i] <= chunk_max
    BY <1>2, <1>3
  <1> QED
    BY <1>4, <1>5, <1>6

\* Every frame is typed and at most max_frame_len bytes long.
LEMMA FramesFit ==
    ASSUME NEW payload \in Nat \ {0}, NEW stream_id \in Nat, NEW max_frame_len \in Int,
           max_frame_len > FRAME_HEADER_LEN
    PROVE  LET frames == Frames(payload, stream_id, max_frame_len)
           IN /\ frames \in Seq(Frame)
              /\ \A i \in 1..Len(frames) :
                     FRAME_HEADER_LEN + frames[i].chunk <= max_frame_len
  <1> DEFINE chunk_max == max_frame_len - FRAME_HEADER_LEN
             chunks == Chunks(payload, chunk_max)
             total == FrameTotal(payload, chunk_max)
             frames == [i \in 1..Len(chunks) |->
                           [stream_id |-> stream_id, frame_index |-> i - 1,
                            frame_total |-> total, chunk |-> chunks[i]]]
  <1>1. chunk_max \in Nat \ {0}
    BY DEF FRAME_HEADER_LEN
  <1>2. chunks \in Seq(Int) /\ \A i \in 1..Len(chunks) : chunks[i] <= chunk_max
    BY <1>1, ChunksTyped
  <1>3. total \in Int
    BY <1>1, FrameTotalTyped
  <1>4. max_frame_len = FRAME_HEADER_LEN + chunk_max /\ FRAME_HEADER_LEN \in Int
    BY DEF FRAME_HEADER_LEN
  <1>5. Frames(payload, stream_id, max_frame_len) = frames
    BY DEF Frames
  <1> HIDE DEF chunk_max, chunks, total
  <1>6. Len(chunks) \in Nat /\ \A i \in 1..Len(chunks) : chunks[i] \in Int
    BY <1>2
  <1>7. frames \in Seq(Frame) /\ Len(frames) = Len(chunks)
    BY <1>3, <1>6 DEF Frame
  <1>8. \A i \in 1..Len(chunks) : FRAME_HEADER_LEN + frames[i].chunk <= max_frame_len
    BY <1>1, <1>2, <1>4, <1>6
  <1> HIDE DEF frames
  <1> QED
    BY <1>5, <1>7, <1>8

\* When the frames cannot be counted the payload really is longer than the
\* largest count of full chunks.
LEMMA TooManyFrames ==
    ASSUME NEW payload \in Nat \ {0}, NEW chunk_max \in Nat \ {0},
           FrameTotal(payload, chunk_max) > FrameLimit
    PROVE  payload > chunk_max * FrameLimit
  <1> DEFINE total == (payload + chunk_max - 1) \div chunk_max
  <1>1. total \in Nat /\ total * chunk_max <= payload + chunk_max - 1
    OBVIOUS
  <1>2. total >= FrameLimit + 1 /\ FrameLimit \in Nat
    BY <1>1, FrameAssumption DEF FrameTotal
  <1> HIDE DEF total
  <1>3. total * chunk_max >= (FrameLimit + 1) * chunk_max
    BY <1>1, <1>2
  <1>4. (FrameLimit + 1) * chunk_max = FrameLimit * chunk_max + chunk_max
    BY <1>2
  <1>5. FrameLimit * chunk_max \in Int /\ total * chunk_max \in Int
        /\ FrameLimit * chunk_max = chunk_max * FrameLimit
    BY <1>1, <1>2
  <1> QED
    BY <1>1, <1>3, <1>4, <1>5

-----------------------------------------------------------------------------
(* The start *)

LEMMA HostTyped ==
    ASSUME host \in Installations
    PROVE  /\ host.file \in File
           /\ host.file.config \in Config
           /\ host.present \subseteq TlsFile
           /\ host.payloads \subseteq Nat \ {0}
  <1>1. host \in Surroundings
    BY InstallationsAssumption
  <1>2. host.file \in File
    BY <1>1 DEF Surroundings
  <1> QED
    BY <1>1, <1>2 DEF Surroundings, File

LEMMA ParsedTyped ==
    ASSUME NEW file \in File
    PROVE  Parsed(file) \in Config
  <1> DEFINE transport == file.config.transport
             parsed == [transport EXCEPT !.client_id =
                           IF @ = "empty" THEN "derived" ELSE @]
  <1>1. file.config \in Config
    BY DEF File
  <1>2. transport \in TransportConfig
    BY <1>1 DEF Config
  <1> HIDE DEF transport
  <1>3. parsed \in TransportConfig
    BY <1>2 DEF TransportConfig
  <1> HIDE DEF parsed
  <1>4. [file.config EXCEPT !.transport = parsed] \in Config
    BY <1>1, <1>3 DEF Config
  <1>5. Parsed(file) = [file.config EXCEPT !.transport = parsed]
    BY DEF Parsed, parsed, transport
  <1> QED
    BY <1>4, <1>5

\* Before the start is over there is nothing to have been measured.
LEMMA NothingMeasured ==
    ASSUME queue = <<>>, last = NoCall
    PROVE  QueueMeasured /\ RefusalsMeasured /\ last.result # "invalid_qos"
  BY DEF QueueMeasured, RefusalsMeasured, NoCall

LEMMA StartTyped ==
    ASSUME TypeOK, queue = <<>>, UNCHANGED <<host, publishVars>>,
           stage' \in Stage, config' \in Config, files' \subseteq TlsFile,
           client_auth' \in BOOLEAN, exit' \in {"none", "1", "2", "panic", "killed"}
    PROVE  TypeOK'
  <1>1. config'.transport.request_channel_capacity \in Nat
    BY TransportTyped DEF Config
  <1>2. queue' = <<>> /\ Len(queue') = 0
    BY DEF publishVars
  <1>3. StartupTypeOK'
    BY DEF TypeOK, StartupTypeOK
  <1>4. Len(queue') <= config'.transport.request_channel_capacity
    BY <1>1, <1>2
  <1> QED
    BY <1>3, <1>4 DEF TypeOK, publishVars

\* What Config::load accepted.
LEMMA AcceptedIs ==
    ASSUME Accepted, stage \notin {"load", "exited"}
    PROVE  /\ ValuesValid(config)
           /\ TlsValid(config.transport.tls, host.present)
           /\ Loads(host.file, host.present)
  BY DEF Accepted, Loads, Valid

\* A file that was there while the configuration was loaded was there before.
LEMMA LoadedBefore ==
    ASSUME NEW file, NEW before, NEW now \in SUBSET before, Loads(file, now)
    PROVE  Loads(file, before)
  BY DEF Loads, Valid, TlsValid

\* What a step of the start has to show besides.
StartKept ==
    /\ Accepted
    /\ FilesOnlyGo
    /\ NoneTillExited
    /\ exit # "panic"
    /\ ExitOneIsNotTheFile

LEMMA StartingKept ==
    ASSUME PInv, Starting
    PROVE  /\ stage' \in Stage /\ config' \in Config /\ files' \subseteq TlsFile
           /\ client_auth' \in BOOLEAN
           /\ exit' \in {"none", "1", "2", "panic", "killed"}
           /\ host' = host
           /\ StartKept'
  <1> USE DEF Stage, Goes, Ends
  <1>0. /\ host \in Installations /\ stage \in Stage /\ config \in Config
        /\ files \subseteq TlsFile /\ client_auth \in BOOLEAN
        /\ exit \in {"none", "1", "2", "panic", "killed"}
        /\ files \subseteq host.present
    BY DEF PInv, TypeOK, StartupTypeOK, FilesOnlyGo
  <1>1. CASE Load
    <2>1. config' \in Config
      BY <1>0, <1>1, HostTyped, ParsedTyped DEF Load
    <2>2. CASE Loads(host.file, files)
      <3>1. Loads(host.file, host.present)
        BY <1>0, <2>2, LoadedBefore
      <3> QED
        BY <1>0, <1>1, <2>1, <2>2, <3>1
           DEF Load, StartKept, Accepted, FilesOnlyGo, NoneTillExited, ExitOneIsNotTheFile,
               Unreadable, PInv, ValidatedIsEnough, NeverPanics
    <2>3. CASE ~Loads(host.file, files)
      BY <1>0, <1>1, <2>1, <2>3
         DEF Load, StartKept, Accepted, FilesOnlyGo, NoneTillExited, ExitOneIsNotTheFile,
             Unreadable
    <2> QED
      BY <2>2, <2>3
  <1>2. CASE InitLogger
    BY <1>0, <1>2 DEF InitLogger, PInv, StartKept, Accepted, FilesOnlyGo, NoneTillExited,
                      ExitOneIsNotTheFile, Unreadable, ValidatedIsEnough, NeverPanics
  <1>3. CASE BuildRuntime
    BY <1>0, <1>3 DEF BuildRuntime, PInv, StartKept, Accepted, FilesOnlyGo, NoneTillExited,
                      ExitOneIsNotTheFile, Unreadable, ValidatedIsEnough, NeverPanics
  <1>4. CASE Validate
    <2>1. /\ ScalarsValid(config.transport) /\ TlsValid(config.transport.tls, host.present)
          /\ Loads(host.file, host.present)
      BY <1>4, AcceptedIs DEF Validate, PInv, ValuesValid
    <2> QED
      BY <1>0, <1>4, <2>1 DEF Validate, TransportValid, PInv, StartKept, Accepted,
                              FilesOnlyGo, NoneTillExited, ExitOneIsNotTheFile, Unreadable,
                              ValidatedIsEnough, NeverPanics
  <1>5. CASE BuildOptions
    <2>1. OptionsAccept(config.transport)
      <3>1. ScalarsValid(config.transport)
        BY <1>5, AcceptedIs DEF BuildOptions, PInv, ValuesValid
      <3> QED
        BY <3>1 DEF ScalarsValid, OptionsAccept, MIN_KEEP_ALIVE_SECS
    <2>2. Loads(host.file, host.present) /\ TlsValid(config.transport.tls, host.present)
      BY <1>5, AcceptedIs DEF BuildOptions, PInv
    <2>3. /\ files = host.present => ReadFiles(config.transport.tls) \subseteq files
          /\ ReadFiles(config.transport.tls) \subseteq Readable
                 \/ files # host.present \/ Unreadable # {}
      BY <2>2 DEF TlsValid, ReadFiles, is_enabled, has_client_auth, TlsFile, Readable, Unreadable
    <2>4. Unreadable' = Unreadable
      BY <1>5 DEF BuildOptions, Unreadable
    <2> QED
      BY <1>0, <1>5, <2>1, <2>2, <2>3, <2>4
         DEF BuildOptions, PInv, StartKept, Accepted, FilesOnlyGo, NoneTillExited,
             ExitOneIsNotTheFile, Unreadable, ValidatedIsEnough, NeverPanics
  <1>6. CASE BuildEntries
    <2>1. Found(config.metrics)
      BY <1>6, AcceptedIs DEF BuildEntries, PInv, ValuesValid
    <2> QED
      BY <1>0, <1>6, <2>1
         DEF BuildEntries, PInv, StartKept, Accepted, FilesOnlyGo, NoneTillExited,
             ExitOneIsNotTheFile, Unreadable, ValidatedIsEnough, NeverPanics
  <1> QED
    BY <1>1, <1>2, <1>3, <1>4, <1>5, <1>6 DEF Starting

LEMMA StartupStepKept ==
    ASSUME PInv, StartupStep
    PROVE  PInv'
  <1>1. queue = <<>> /\ last = NoCall
    BY DEF PInv, StartupStep, Starting, FileVanishes, QueueMeasured, RefusalsMeasured,
           Load, InitLogger, BuildRuntime, Validate, BuildOptions, BuildEntries
  <1>2. queue' = <<>> /\ last' = NoCall
    BY <1>1 DEF StartupStep, publishVars
  <1>3. QueueMeasured' /\ RefusalsMeasured' /\ last'.result # "invalid_qos"
    BY <1>2 DEF QueueMeasured, RefusalsMeasured, NoCall
  <1>4. TypeOK' /\ StartKept'
    <2>1. CASE Starting
      BY <1>1, <2>1, StartingKept, StartTyped DEF PInv, StartupStep, publishVars
    <2>2. CASE FileVanishes
      <3>1. PICK path \in files : files' = files \ {path}
        BY <2>2 DEF FileVanishes
      <3>2. files' \subseteq host.present /\ files' # host.present
        BY <3>1 DEF PInv, FilesOnlyGo
      <3>3. TypeOK'
        BY <1>1, <2>2, <3>1, StartTyped
           DEF FileVanishes, StartupStep, PInv, TypeOK, StartupTypeOK, publishVars
      <3> QED
        BY <2>2, <3>2, <3>3
           DEF FileVanishes, PInv, StartKept, Accepted, FilesOnlyGo, NoneTillExited,
               ExitOneIsNotTheFile, Unreadable, ValidatedIsEnough, NeverPanics
    <2> QED
      BY <2>1, <2>2 DEF StartupStep
  <1> QED
    BY <1>3, <1>4 DEF PInv, StartKept, ValidatedIsEnough, NeverPanics

-----------------------------------------------------------------------------
(* Publishing *)

\* While the configuration stays, so does the room it leaves to a payload.
LEMMA RoomKept ==
    ASSUME UNCHANGED config, NEW entry
    PROVE  MaxPayload(entry)' = MaxPayload(entry)
  BY DEF MaxPayload, EntryTopicLen, EntryQos

\* An operator for what every packet in the queue satisfies.
Measured(packet) ==
    /\ packet.entry \in 1..Len(config.metrics.enabled)
    /\ packet.bytes <= MaxPayload(packet.entry)

LEMMA RoomTyped ==
    ASSUME TypeOK, NEW packets \in Seq(Packet)
    PROVE  /\ Room(packets) \in Nat
           /\ Room(packets) <= Len(packets)
           /\ Len(queue) + Room(packets) <= config.transport.request_channel_capacity
  <1>1. config.transport.request_channel_capacity \in Nat
    BY ConfigTyped, TransportTyped DEF TypeOK, StartupTypeOK
  <1>2. Len(queue) \in Nat /\ Len(packets) \in Nat
    BY DEF TypeOK
  <1>3. Len(queue) <= config.transport.request_channel_capacity
    BY DEF TypeOK
  <1> QED
    BY <1>1, <1>2, <1>3 DEF Room

LEMMA EnqueueKept ==
    ASSUME TypeOK, QueueMeasured, NEW packets \in Seq(Packet), Enqueue(packets),
           \A i \in 1..Len(packets) : Measured(packets[i])
    PROVE  /\ queue' \in Seq(Packet)
           /\ Len(queue') <= config.transport.request_channel_capacity
           /\ \A i \in 1..Len(queue') : Measured(queue'[i])
  <1> DEFINE length == Len(queue) + Room(packets)
  <1>1. /\ Room(packets) \in Nat
        /\ Room(packets) <= Len(packets)
        /\ length <= config.transport.request_channel_capacity
    BY RoomTyped
  <1>2. queue \in Seq(Packet) /\ Len(queue) \in Nat /\ Len(packets) \in Nat
    BY DEF TypeOK
  <1>3. length \in Nat
    BY <1>1, <1>2
  <1>4. \A i \in 1..length :
            i > Len(queue) => i - Len(queue) \in 1..Len(packets)
    BY <1>1, <1>2
  <1>5. queue' = [i \in 1..length |->
                     IF i <= Len(queue) THEN queue[i] ELSE packets[i - Len(queue)]]
    BY DEF Enqueue
  <1> HIDE DEF length
  <1>6. \A i \in 1..length :
            \/ i \in 1..Len(queue) /\ queue'[i] = queue[i]
            \/ i - Len(queue) \in 1..Len(packets)
               /\ queue'[i] = packets[i - Len(queue)]
    BY <1>2, <1>3, <1>4, <1>5
  <1>7. \A i \in 1..length : queue'[i] \in Packet
    BY <1>2, <1>6
  <1>8. queue' \in Seq(Packet) /\ Len(queue') = length
    BY <1>3, <1>5, <1>7
  <1>9. \A i \in 1..Len(queue) : Measured(queue[i])
    BY DEF QueueMeasured, Measured
  <1>10. \A i \in 1..length : Measured(queue'[i])
    BY <1>6, <1>9
  <1> QED
    BY <1>1, <1>8, <1>10

\* The invariant after a call, from what the call did to the queue and to last.
LEMMA PublishKept ==
    ASSUME PInv, NEW entry \in 1..Len(config.metrics.enabled),
           NEW payload \in host.payloads, Publish(entry, payload),
           queue' \in Seq(Packet),
           Len(queue') <= config.transport.request_channel_capacity,
           \A i \in 1..Len(queue') : Measured(queue'[i]),
           next_stream_id' \in {next_stream_id, next_stream_id + 1},
           NEW result \in Result \ {"invalid_qos"}, Called(entry, payload, result),
           result \in {"too_large", "framing"} =>
               \/ ~config.transport.framing /\ payload > MaxPayload(entry)
               \/ config.transport.framing /\ FRAME_HEADER_LEN >= MaxPayload(entry)
               \/ /\ result = "framing"
                  /\ payload > (MaxPayload(entry) - FRAME_HEADER_LEN) * FrameLimit
    PROVE  PInv'
  <1>1. /\ UNCHANGED <<startVars, life, received>>
        /\ stage = "running"
        /\ published < MaxPublishes
        /\ published' = published + 1
    BY DEF Publish
  <1>2. UNCHANGED <<host, stage, config, files, client_auth, exit>>
    BY <1>1 DEF startVars
  <1>3. payload \in Nat /\ entry \in Nat
    BY HostTyped DEF PInv, TypeOK, StartupTypeOK
  <1>4. last' = [entry |-> entry, payload |-> payload, result |-> result]
    BY DEF Called
  <1>5. TypeOK'
    <2>1. published' \in 0..MaxPublishes /\ next_stream_id' \in 1..published' + 1
      BY <1>1, PublishingAssumption DEF PInv, TypeOK
    <2>2. last' \in [entry : Nat, payload : Nat, result : Result]
      BY <1>3, <1>4
    <2>3. StartupTypeOK'
      BY <1>2 DEF PInv, TypeOK, StartupTypeOK
    <2> QED
      BY <1>1, <1>2, <2>1, <2>2, <2>3 DEF PInv, TypeOK
  <1>6. Accepted' /\ FilesOnlyGo' /\ NoneTillExited' /\ ExitOneIsNotTheFile'
    BY <1>2 DEF PInv, Accepted, FilesOnlyGo, NoneTillExited, ExitOneIsNotTheFile, Unreadable
  <1>7. QueueMeasured'
    BY <1>1, <1>2, RoomKept DEF QueueMeasured, Measured, MaxPayload, EntryTopicLen, EntryQos
  <1>8. RefusalsMeasured'
    BY <1>1, <1>2, <1>4
       DEF RefusalsMeasured, MaxPayload, EntryTopicLen, EntryQos
  <1>9. ValidatedIsEnough'
    BY <1>2, <1>4 DEF PInv, ValidatedIsEnough, NeverPanics
  <1> QED
    BY <1>5, <1>6, <1>7, <1>8, <1>9 DEF PInv

\* The packets of one call are typed and measured.
LEMMA FramePacketsKept ==
    ASSUME PInv, NEW entry \in 1..Len(config.metrics.enabled),
           NEW payload \in Nat \ {0}, MaxPayload(entry) > FRAME_HEADER_LEN
    PROVE  /\ FramePackets(entry, payload) \in Seq(Packet)
           /\ \A i \in 1..Len(FramePackets(entry, payload)) :
                  Measured(FramePackets(entry, payload)[i])
  <1> DEFINE room == MaxPayload(entry)
             frames == Frames(payload, next_stream_id, room)
             call == ThisCall(payload)
             packets == [i \in 1..Len(frames) |->
                            [entry |-> entry, bytes |-> FRAME_HEADER_LEN + frames[i].chunk,
                             frame |-> frames[i], call |-> call]]
  <1>1. room \in Int /\ entry \in Nat
    BY EntryTyped DEF PInv, TypeOK, StartupTypeOK
  <1>2. next_stream_id \in Nat
    BY DEF PInv, TypeOK
  <1>3. /\ frames \in Seq(Frame)
        /\ \A i \in 1..Len(frames) : FRAME_HEADER_LEN + frames[i].chunk <= room
    BY <1>1, <1>2, FramesFit
  <1>4. call \in Call
    BY DEF ThisCall, Call, PInv, TypeOK
  <1>5. FramePackets(entry, payload) = packets
    BY DEF FramePackets
  <1> HIDE DEF frames, call
  <1>6. \A i \in 1..Len(frames) : frames[i] \in Frame /\ frames[i].chunk \in Int
    <2>1. \A i \in 1..Len(frames) : frames[i] \in Frame
      BY <1>3
    <2> QED
      BY <2>1 DEF Frame
  <1>7. Len(frames) \in Nat
    BY <1>3
  <1>8. \A i \in 1..Len(frames) : packets[i] \in Packet
    BY <1>1, <1>4, <1>6 DEF Packet, FRAME_HEADER_LEN
  <1>9. packets \in Seq(Packet) /\ Len(packets) = Len(frames)
    BY <1>7, <1>8
  <1>10. \A i \in 1..Len(frames) : Measured(packets[i])
    BY <1>3 DEF Measured
  <1> HIDE DEF packets
  <1> QED
    BY <1>5, <1>9, <1>10

LEMMA QosAccepted ==
    ASSUME PInv, stage = "running", NEW entry \in 1..Len(config.metrics.enabled)
    PROVE  ~(EntryQos(entry) > 2)
  <1>1. config.metrics.enabled[entry].metadata.qos <= 2
    BY AcceptedIs DEF PInv, ValuesValid, MetricsValid, MetadataValid
  <1>2. EntryQos(entry) \in Nat
    BY EntryTyped DEF PInv, TypeOK, StartupTypeOK
  <1> QED
    BY <1>1, <1>2 DEF EntryQos

LEMMA QueueAlready ==
    ASSUME PInv
    PROVE  /\ queue \in Seq(Packet)
           /\ Len(queue) <= config.transport.request_channel_capacity
           /\ \A i \in 1..Len(queue) : Measured(queue[i])
  BY DEF PInv, TypeOK, QueueMeasured, Measured

\* A call that refuses leaves the queue as it is.
LEMMA RefusesKept ==
    ASSUME PInv, UNCHANGED queue
    PROVE  /\ queue' \in Seq(Packet)
           /\ Len(queue') <= config.transport.request_channel_capacity
           /\ \A i \in 1..Len(queue') : Measured(queue'[i])
  BY QueueAlready

LEMMA PublishWholeKept ==
    ASSUME PInv, NEW entry \in 1..Len(config.metrics.enabled),
           NEW payload \in host.payloads, Publish(entry, payload),
           PublishWhole(entry, payload), ~config.transport.framing
    PROVE  PInv'
  <1>1. payload \in Nat /\ entry \in Nat /\ MaxPayload(entry) \in Int
    BY HostTyped, EntryTyped DEF PInv, TypeOK, StartupTypeOK
  <1>2. CASE payload > MaxPayload(entry)
    <2>1. Called(entry, payload, "too_large") /\ UNCHANGED <<queue, next_stream_id>>
      BY <1>2 DEF PublishWhole, Refuses
    <2> QED
      BY <1>2, <2>1, RefusesKept, PublishKept DEF Result
  <1>3. CASE payload <= MaxPayload(entry)
    <2> DEFINE packet == [entry |-> entry, bytes |-> payload,
                          frame |-> NoFrame, call |-> ThisCall(payload)]
    <2>1. packet \in Packet
      BY <1>1 DEF Packet, NoFrame, Frame, ThisCall, Call, PInv, TypeOK
    <2>2. Measured(packet)
      BY <1>3 DEF Measured
    <2>3. /\ Enqueue(<<packet>>)
          /\ Called(entry, payload, EnqueueResult(<<packet>>))
          /\ UNCHANGED next_stream_id
      BY <1>1, <1>3 DEF PublishWhole
    <2> HIDE DEF packet
    <2>4. <<packet>> \in Seq(Packet) /\ \A i \in 1..Len(<<packet>>) : Measured(<<packet>>[i])
      BY <2>1, <2>2
    <2>5. /\ queue' \in Seq(Packet)
          /\ Len(queue') <= config.transport.request_channel_capacity
          /\ \A i \in 1..Len(queue') : Measured(queue'[i])
      BY <2>3, <2>4, EnqueueKept DEF PInv
    <2>6. EnqueueResult(<<packet>>) \in {"ok", "queue_full"}
      BY DEF EnqueueResult
    <2> QED
      BY <2>3, <2>5, <2>6, PublishKept DEF Result
  <1> QED
    BY <1>1, <1>2, <1>3

LEMMA PublishFramedKept ==
    ASSUME PInv, NEW entry \in 1..Len(config.metrics.enabled),
           NEW payload \in host.payloads, Publish(entry, payload),
           PublishFramed(entry, payload), config.transport.framing
    PROVE  PInv'
  <1> DEFINE room == MaxPayload(entry)
             packets == FramePackets(entry, payload)
  <1>1. payload \in Nat \ {0} /\ entry \in Nat /\ room \in Int
    BY HostTyped, EntryTyped DEF PInv, TypeOK, StartupTypeOK
  <1>2. CASE room < FRAME_HEADER_LEN
    <2>1. Called(entry, payload, "too_large") /\ UNCHANGED <<queue, next_stream_id>>
      BY <1>2 DEF PublishFramed, Refuses
    <2>2. FRAME_HEADER_LEN >= room
      BY <1>1, <1>2 DEF FRAME_HEADER_LEN
    <2> QED
      BY <2>1, <2>2, RefusesKept, PublishKept DEF Result
  <1>3. CASE ~(room < FRAME_HEADER_LEN) /\ ~CanFrame(payload, room)
    <2>1. /\ Called(entry, payload, "framing")
          /\ UNCHANGED queue
          /\ next_stream_id' = next_stream_id + 1
      BY <1>3 DEF PublishFramed
    <2>2. \/ FRAME_HEADER_LEN >= room
          \/ payload > (room - FRAME_HEADER_LEN) * FrameLimit
      <3>1. CASE room > FRAME_HEADER_LEN
        <4>1. room - FRAME_HEADER_LEN \in Nat \ {0}
          BY <1>1, <3>1 DEF FRAME_HEADER_LEN
        <4>2. FrameTotal(payload, room - FRAME_HEADER_LEN) \in Int
          BY <1>1, <4>1, FrameTotalTyped
        <4>3. ~(FrameTotal(payload, room - FRAME_HEADER_LEN) <= FrameLimit)
          BY <1>3, <4>1 DEF CanFrame
        <4>4. FrameTotal(payload, room - FRAME_HEADER_LEN) > FrameLimit
          BY <4>2, <4>3, FrameAssumption
        <4> QED
          BY <1>1, <4>1, <4>4, TooManyFrames
      <3> QED
        BY <1>1, <3>1 DEF FRAME_HEADER_LEN
    <2> QED
      BY <2>1, <2>2, RefusesKept, PublishKept DEF Result
  <1>4. CASE ~(room < FRAME_HEADER_LEN) /\ CanFrame(payload, room)
    <2>1. room > FRAME_HEADER_LEN
      BY <1>1, <1>4 DEF CanFrame, FRAME_HEADER_LEN
    <2>2. packets \in Seq(Packet) /\ \A i \in 1..Len(packets) : Measured(packets[i])
      BY <1>1, <2>1, FramePacketsKept
    <2>3. /\ Enqueue(packets)
          /\ Called(entry, payload, EnqueueResult(packets))
          /\ next_stream_id' = next_stream_id + 1
      BY <1>4 DEF PublishFramed
    <2> HIDE DEF packets
    <2>4. /\ queue' \in Seq(Packet)
          /\ Len(queue') <= config.transport.request_channel_capacity
          /\ \A i \in 1..Len(queue') : Measured(queue'[i])
      BY <2>2, <2>3, EnqueueKept DEF PInv
    <2>5. EnqueueResult(packets) \in {"ok", "queue_full"}
      BY DEF EnqueueResult
    <2> QED
      BY <2>3, <2>4, <2>5, PublishKept DEF Result
  <1> QED
    BY <1>2, <1>3, <1>4

LEMMA PublishesKept ==
    ASSUME PInv, Publishes
    PROVE  PInv'
  <1>1. PICK entry \in 1..Len(config.metrics.enabled), payload \in host.payloads :
            Publish(entry, payload)
    BY DEF Publishes
  <1>2. ~(EntryQos(entry) > 2)
    BY <1>1, QosAccepted DEF Publish
  <1>3. CASE EncodeFails(entry, payload)
    <2>1. Called(entry, payload, "encoding") /\ UNCHANGED <<queue, next_stream_id>>
      BY <1>3 DEF EncodeFails, Refuses
    <2> QED
      BY <1>1, <2>1, RefusesKept, PublishKept DEF Result
  <1>4. CASE config.transport.framing /\ PublishFramed(entry, payload)
    BY <1>1, <1>4, PublishFramedKept
  <1>5. CASE ~config.transport.framing /\ PublishWhole(entry, payload)
    BY <1>1, <1>5, PublishWholeKept
  <1> QED
    BY <1>1, <1>2, <1>3, <1>4, <1>5 DEF Publish

-----------------------------------------------------------------------------
(* The other steps, and the theorems *)

\* The oldest packet leaves; the rest was measured already.
LEMMA TakenKept ==
    ASSUME PInv, stage = "running", queue # <<>>, queue' = Tail(queue),
           UNCHANGED <<startVars, next_stream_id, last, published, life>>,
           received' \subseteq [frame : Frame, call : Call]
    PROVE  PInv'
  <1>1. queue \in Seq(Packet) /\ Len(queue) \in Nat
    BY DEF PInv, TypeOK
  <1>2. /\ queue' \in Seq(Packet)
        /\ Len(queue') = Len(queue) - 1
        /\ \A i \in 1..Len(queue') : i + 1 \in 1..Len(queue) /\ queue'[i] = queue[i + 1]
    BY <1>1
  <1>3. UNCHANGED <<host, stage, config, files, client_auth, exit>>
    BY DEF startVars
  <1>4. Len(queue') <= config.transport.request_channel_capacity
    BY <1>1, <1>2, ConfigTyped, TransportTyped DEF PInv, TypeOK, StartupTypeOK
  <1>5. TypeOK'
    BY <1>2, <1>3, <1>4 DEF PInv, TypeOK, StartupTypeOK
  <1>6. Accepted' /\ FilesOnlyGo' /\ NoneTillExited' /\ ExitOneIsNotTheFile'
        /\ ValidatedIsEnough'
    BY <1>3 DEF PInv, Accepted, FilesOnlyGo, NoneTillExited, ExitOneIsNotTheFile,
                Unreadable, ValidatedIsEnough, NeverPanics
  <1>7. QueueMeasured'
    BY <1>2, <1>3 DEF PInv, QueueMeasured, MaxPayload, EntryTopicLen, EntryQos
  <1>8. RefusalsMeasured'
    BY <1>3 DEF PInv, RefusalsMeasured, MaxPayload, EntryTopicLen, EntryQos
  <1> QED
    BY <1>5, <1>6, <1>7, <1>8 DEF PInv

LEMMA DeliversKept ==
    ASSUME PInv, Delivers
    PROVE  PInv'
  <1>1. Head(queue) \in Packet
    BY DEF PInv, TypeOK, Delivers
  <1>2. Head(queue).frame \in Frame /\ Head(queue).call \in Call
    BY <1>1 DEF Packet
  <1>3. received' \subseteq [frame : Frame, call : Call]
    BY <1>2 DEF PInv, TypeOK, Delivers
  <1> QED
    BY <1>3, TakenKept DEF Delivers

LEMMA LosesKept ==
    ASSUME PInv, Loses
    PROVE  PInv'
  <1>1. received' \subseteq [frame : Frame, call : Call]
    BY DEF PInv, TypeOK, Loses
  <1> QED
    BY <1>1, TakenKept DEF Loses

LEMMA KilledKept ==
    ASSUME PInv, Killed
    PROVE  PInv'
  BY DEF Killed, Ends, publishVars, PInv, TypeOK, StartupTypeOK, Stage, Accepted,
         FilesOnlyGo, QueueMeasured, RefusalsMeasured, ValidatedIsEnough, NeverPanics,
         NoneTillExited, ExitOneIsNotTheFile, Unreadable, MaxPayload, EntryTopicLen,
         EntryQos

LEMMA RestartKept ==
    ASSUME PInv, Restart
    PROVE  PInv'
  <1>1. config' \in Config
    BY HostTyped DEF Restart, PInv, TypeOK, StartupTypeOK
  <1>2. config'.transport.request_channel_capacity \in Nat
    BY <1>1, TransportTyped DEF Config
  <1>3. queue' = <<>> /\ Len(queue') = 0 /\ last' = NoCall
    BY DEF Restart
  <1>4. TypeOK'
    <2>1. StartupTypeOK'
      BY <1>1 DEF Restart, PInv, TypeOK, StartupTypeOK, Stage
    <2>2. Len(queue') <= config'.transport.request_channel_capacity
      BY <1>2, <1>3
    <2>3. last' \in [entry : Nat, payload : Nat, result : Result]
      BY <1>3 DEF NoCall, Result
    <2>4. published' \in 0..MaxPublishes /\ next_stream_id' \in 1..published' + 1
      BY PublishingAssumption DEF Restart
    <2>5. life' \in 1..MaxLives
      BY PublishingAssumption DEF Restart, PInv, TypeOK
    <2> QED
      BY <1>3, <2>1, <2>2, <2>3, <2>4, <2>5 DEF Restart, PInv, TypeOK
  <1>5. QueueMeasured' /\ RefusalsMeasured'
    BY <1>3 DEF QueueMeasured, RefusalsMeasured, NoCall
  <1>6. Accepted' /\ FilesOnlyGo' /\ NoneTillExited' /\ ExitOneIsNotTheFile'
        /\ ValidatedIsEnough'
    BY <1>3 DEF Restart, PInv, Accepted, FilesOnlyGo, NoneTillExited, ExitOneIsNotTheFile,
                Unreadable, ValidatedIsEnough, NeverPanics, NoCall
  <1> QED
    BY <1>4, <1>5, <1>6 DEF PInv

LEMMA StutterKept ==
    ASSUME PInv, UNCHANGED vars
    PROVE  PInv'
  <1> USE DEF vars, startVars, publishVars
  <1>1. TypeOK' /\ Accepted' /\ FilesOnlyGo'
    BY DEF PInv, TypeOK, StartupTypeOK, Accepted, FilesOnlyGo
  <1>2. QueueMeasured' /\ RefusalsMeasured'
    BY DEF PInv, QueueMeasured, RefusalsMeasured, MaxPayload, EntryTopicLen, EntryQos
  <1>3. ValidatedIsEnough' /\ NoneTillExited' /\ ExitOneIsNotTheFile'
    BY DEF PInv, ValidatedIsEnough, NeverPanics, NoneTillExited, ExitOneIsNotTheFile,
           Unreadable
  <1> QED
    BY <1>1, <1>2, <1>3 DEF PInv

LEMMA InitHolds ==
    ASSUME Init
    PROVE  PInv
  <1>1. PICK installation \in Installations : Boots(installation)
    BY DEF Init, StartupInit
  <1>2. host \in Installations /\ config = host.file.config /\ files = host.present
        /\ stage = "load" /\ exit = "none" /\ client_auth = FALSE
    BY <1>1 DEF Boots
  <1>3. config \in Config /\ files \subseteq TlsFile
    BY <1>2, HostTyped
  <1>4. queue = <<>> /\ last = NoCall /\ Len(queue) = 0
    BY DEF Init, PublisherInit
  <1>5. config.transport.request_channel_capacity \in Nat
    BY <1>3, ConfigTyped, TransportTyped
  <1>6. TypeOK
    <2>1. StartupTypeOK
      BY <1>2, <1>3 DEF StartupTypeOK, Stage
    <2>2. last \in [entry : Nat, payload : Nat, result : Result]
      BY <1>4 DEF NoCall, Result
    <2>3. Len(queue) <= config.transport.request_channel_capacity
      BY <1>4, <1>5
    <2> QED
      BY <1>4, <2>1, <2>2, <2>3, PublishingAssumption DEF Init, PublisherInit, TypeOK
  <1>7. QueueMeasured /\ RefusalsMeasured /\ last.result # "invalid_qos"
    BY <1>4, NothingMeasured
  <1> QED
    BY <1>2, <1>6, <1>7 DEF PInv, Accepted, FilesOnlyGo, NoneTillExited,
                            ExitOneIsNotTheFile, Unreadable, ValidatedIsEnough, NeverPanics

\* PInv is an invariant of the start and of publishing.
THEOREM InductiveInvariant == Spec => []PInv
  <1>1. Init => PInv
    BY InitHolds
  <1>2. PInv /\ [Next]_vars => PInv'
    BY StartupStepKept, PublishesKept, DeliversKept, LosesKept, KilledKept,
       RestartKept, StutterKept DEF Next, Done
  <1> QED
    BY <1>1, <1>2, PTL DEF Spec

\* Every packet that publish queues is within max_packet_size on the wire, for
\* any topics, qualities of service, payloads and limits that validate accepts.
THEOREM EveryPacketFits == Spec => []PacketsFit
  <1>1. PInv => PacketsFit
    <2> SUFFICES ASSUME PInv, NEW i \in 1..Len(queue)
                 PROVE  PacketSize(EntryTopicLen(queue[i].entry),
                                   EntryQos(queue[i].entry), queue[i].bytes)
                            <= config.transport.max_packet_size
      BY DEF PacketsFit
    <2>1. queue[i] \in Packet
      BY DEF PInv, TypeOK
    <2>2. queue[i].bytes \in Int
      BY <2>1 DEF Packet
    <2>3. /\ queue[i].entry \in 1..Len(config.metrics.enabled)
          /\ queue[i].bytes <= MaxPayload(queue[i].entry)
      BY DEF PInv, QueueMeasured
    <2>4. config \in Config
      BY DEF PInv, TypeOK, StartupTypeOK
    <2> QED
      BY <2>2, <2>3, <2>4, MaxPayloadDecides
  <1> QED
    BY <1>1, InductiveInvariant, PTL

\* publish refuses no payload that would have fitted, but for the slack.
THEOREM NoPayloadRefusedInVain == Spec => []RefusalsAreTight
  <1>1. PInv => RefusalsAreTight
    <2> SUFFICES ASSUME PInv, last.result \in {"too_large", "framing"}
                 PROVE  RefusalsAreTight
      BY DEF RefusalsAreTight
    <2> DEFINE entry == last.entry
    <2>1. entry \in 1..Len(config.metrics.enabled) /\ last.payload \in Nat
      BY DEF PInv, TypeOK, RefusalsMeasured
    <2>2. config \in Config
      BY DEF PInv, TypeOK, StartupTypeOK
    <2>3. MaxPayload(entry) \in Int
      BY <2>1, <2>2, EntryTyped
    <2>4. CASE ~config.transport.framing /\ last.payload > MaxPayload(entry)
      BY <2>1, <2>2, <2>4, MaxPayloadDecides DEF RefusalsAreTight
    <2>5. CASE config.transport.framing /\ FRAME_HEADER_LEN >= MaxPayload(entry)
      <3>1. FRAME_HEADER_LEN + 1 \in Int /\ FRAME_HEADER_LEN + 1 > MaxPayload(entry)
        BY <2>3, <2>5 DEF FRAME_HEADER_LEN
      <3> QED
        BY <2>1, <2>2, <2>5, <3>1, MaxPayloadDecides DEF RefusalsAreTight
    <2>6. CASE last.result = "framing"
               /\ last.payload > (MaxPayload(entry) - FRAME_HEADER_LEN) * FrameLimit
      BY <2>6 DEF RefusalsAreTight
    <2> QED
      BY <2>4, <2>5, <2>6 DEF PInv, RefusalsMeasured
  <1> QED
    BY <1>1, InductiveInvariant, PTL

\* A configuration that Config::load accepted never panics the start and never
\* meets the quality of service that publish rejects.
THEOREM ValidationSuffices == Spec => []ValidatedIsEnough
  BY InductiveInvariant, PTL DEF PInv

\* A start that ends with exit code 1 had a configuration that is sound, its
\* TLS files included, and a machine that failed it: no runtime, a TLS file that
\* went away meanwhile, or one that is there and cannot be read.
THEOREM ExitOneIsTheMachine == Spec => []ExitOneIsNotTheFile
  BY InductiveInvariant, PTL DEF PInv

-----------------------------------------------------------------------------
(* Reassembling *)

\* The i-th frame of a call, cut into chunks of at most chunk_max.
PartOfCall(stream_id, call, chunk_max, i) ==
    [frame |-> [stream_id |-> stream_id, frame_index |-> i - 1,
                frame_total |-> FrameTotal(call.payload, chunk_max),
                chunk |-> Chunks(call.payload, chunk_max)[i]],
     call |-> call]

PartsOfCall(stream_id, call, chunk_max) ==
    {PartOfCall(stream_id, call, chunk_max, i) :
        i \in 1..Len(Chunks(call.payload, chunk_max))}

\* What the subscriber has or may still get.
Queued ==
    {[frame |-> queue[i].frame, call |-> queue[i].call] :
        i \in {j \in 1..Len(queue) : queue[j].frame # NoFrame}}

Stream(stream_id, incarnation) ==
    {part \in received \union Queued :
        part.frame.stream_id = stream_id /\ part.call.life = incarnation}

OneCall(parts, stream_id) ==
    \E call \in Call, chunk_max \in Nat \ {0} :
        call.payload > 0 /\ parts \subseteq PartsOfCall(stream_id, call, chunk_max)

\* Inductive: a stream of one life has frames of one call, cut in one way, and
\* the streams to come are not in use.
FramesInv ==
    /\ \A stream_id, incarnation \in Nat : OneCall(Stream(stream_id, incarnation), stream_id)
    /\ \A part \in received \union Queued :
           /\ part.call.life <= life
           /\ part.call.life = life => part.frame.stream_id < next_stream_id

\* The bytes in the first k chunks.
Offset(payload, chunk_max, k) ==
    IF k * chunk_max < payload THEN k * chunk_max ELSE payload

\* Every chunk has a byte, the chunks are as many as the header says, and they
\* are the payload one after the other.
LEMMA ChunksAreThePayload ==
    ASSUME NEW payload \in Nat \ {0}, NEW chunk_max \in Nat \ {0}
    PROVE  LET chunks == Chunks(payload, chunk_max)
               n == FrameTotal(payload, chunk_max)
           IN /\ n \in Nat /\ Len(chunks) = n
              /\ Offset(payload, chunk_max, 0) = 0
              /\ Offset(payload, chunk_max, n) = payload
              /\ \A k \in 0..n :
                     /\ Offset(payload, chunk_max, k) \in Nat
                     /\ k < n => Offset(payload, chunk_max, k) < Offset(payload, chunk_max, k + 1)
              /\ \A k \in 1..n :
                     /\ chunks[k] \in Nat
                     /\ chunks[k] = Offset(payload, chunk_max, k) - Offset(payload, chunk_max, k - 1)
  <1> DEFINE quotient == payload \div chunk_max
             rest == payload % chunk_max
             count == quotient + (IF rest = 0 THEN 0 ELSE 1)
             Rest(i) == payload - (i - 1) * chunk_max
             chunks == [i \in 1..count |-> IF Rest(i) < chunk_max THEN Rest(i) ELSE chunk_max]
             total == (payload + chunk_max - 1) \div chunk_max
  <1>1. /\ quotient \in Nat /\ rest \in 0..chunk_max - 1
        /\ payload = quotient * chunk_max + rest
    OBVIOUS
  <1>2. /\ total \in Nat
        /\ total * chunk_max <= payload + chunk_max - 1
        /\ payload + chunk_max - 1 < total * chunk_max + chunk_max
    OBVIOUS
  <1>3. Chunks(payload, chunk_max) = chunks /\ FrameTotal(payload, chunk_max) = total
    BY DEF Chunks, FrameTotal
  <1> HIDE DEF quotient, rest, total
  <1>4. count \in Nat
    BY <1>1
  <1>5. \A a, b \in Nat : a < b => a * chunk_max + chunk_max <= b * chunk_max
    <2> TAKE a, b \in Nat
    <2>1. a < b => (a + 1) * chunk_max <= b * chunk_max
      OBVIOUS
    <2>2. (a + 1) * chunk_max = a * chunk_max + chunk_max
      OBVIOUS
    <2> QED
      BY <2>1, <2>2
  <1>6. count = total
    <2>1. /\ count * chunk_max >= payload /\ count * chunk_max < payload + chunk_max
          /\ total * chunk_max >= payload /\ total * chunk_max < payload + chunk_max
          /\ count * chunk_max \in Nat /\ total * chunk_max \in Nat
      <3>1. (quotient + 1) * chunk_max = quotient * chunk_max + chunk_max
        BY <1>1
      <3>2. quotient * chunk_max \in Nat /\ total * chunk_max \in Nat
        BY <1>1, <1>2
      <3>3. (count = quotient /\ rest = 0) \/ (count = quotient + 1 /\ rest > 0)
        BY <1>1
      <3> HIDE DEF count
      <3> QED
        BY <1>1, <1>2, <1>4, <3>1, <3>2, <3>3
    <2>2. ~(count < total) /\ ~(total < count)
      BY <1>2, <1>4, <1>5, <2>1
    <2> QED
      BY <1>2, <1>4, <2>2
  <1>7. \A k \in Nat : k * chunk_max \in Nat /\ (k + 1) * chunk_max = k * chunk_max + chunk_max
    OBVIOUS
  <1>8. total * chunk_max >= payload
    BY <1>2, <1>7
  <1>9. \A k \in 0..total : k < total => k * chunk_max < payload
    <2> SUFFICES ASSUME NEW k \in 0..total, k < total
                 PROVE  k * chunk_max < payload
      OBVIOUS
    <2>1. k \in Nat /\ k * chunk_max + chunk_max <= total * chunk_max
      BY <1>2, <1>5
    <2>2. k * chunk_max \in Nat /\ total * chunk_max \in Nat
      BY <1>2, <1>7, <2>1
    <2> QED
      BY <1>2, <2>1, <2>2
  <1> DEFINE offset(k) == Offset(payload, chunk_max, k)
  <1>10. offset(0) = 0 /\ offset(total) = payload
    BY <1>2, <1>7, <1>8 DEF Offset
  <1>11. \A k \in 0..total :
             offset(k) \in Nat /\ (k < total => offset(k) = k * chunk_max /\ offset(k) < offset(k + 1))
    <2> TAKE k \in 0..total
    <2>1. /\ k \in Nat /\ k * chunk_max \in Nat
          /\ (k + 1) * chunk_max = k * chunk_max + chunk_max
          /\ k < total => k * chunk_max < payload
      BY <1>2, <1>7, <1>9
    <2> QED
      BY <2>1 DEF Offset
  <1>12. \A k \in 1..total : chunks[k] \in Nat /\ chunks[k] = offset(k) - offset(k - 1)
    <2> TAKE k \in 1..total
    <2> DEFINE j == k - 1
               product == j * chunk_max
    <2>1. j \in 0..total /\ j < total /\ j \in Nat /\ k = j + 1
      BY <1>2
    <2>2. /\ product \in Nat /\ k * chunk_max = product + chunk_max
          /\ product < payload
      BY <1>7, <1>9, <2>1
    <2>3. chunks[k] = IF payload - product < chunk_max THEN payload - product ELSE chunk_max
      BY <1>6
    <2>4. /\ offset(k) = IF k * chunk_max < payload THEN k * chunk_max ELSE payload
          /\ offset(k - 1) = product
      BY <2>2 DEF Offset
    <2> HIDE DEF product, j, chunks, offset
    <2> QED
      BY <2>2, <2>3, <2>4
  <1>13. Len(chunks) = total
    BY <1>4, <1>6
  <1> HIDE DEF chunks
  <1> QED
    BY <1>2, <1>3, <1>10, <1>11, <1>12, <1>13

\* What a subscriber adds up.
Together(parts) == MapThenSumSet(LAMBDA p : p.frame.chunk, parts)

LEMMA SumOfChunks ==
    ASSUME NEW parts, IsFiniteSet(parts), NEW weight \in [parts -> Nat],
           \A p \in parts : weight[p] = p.frame.chunk
    PROVE  \E sum : /\ AddsUp(sum, parts, weight)
                    /\ Together(parts) = sum[parts]
  <1> DEFINE Solves(it) == it = [s \in SUBSET parts |->
                                    IF s = {} THEN 0
                                    ELSE (CHOOSE x \in s : TRUE).frame.chunk
                                         + it[s \ {CHOOSE x \in s : TRUE}]]
             iter == CHOOSE it : Solves(it)
  <1>1. Together(parts) = iter[parts]
    BY DEF Together, MapThenSumSet, MapThenFoldSet
  <1>2. \A s \in SUBSET parts : s # {} => weight[Pick(s)] = Pick(s).frame.chunk
    BY DEF Pick
  <1>3. \E it : Solves(it)
    <2>1. PICK sum : AddsUp(sum, parts, weight)
      BY SumExists
    <2> DEFINE it == [s \in SUBSET parts |-> sum[s]]
    <2>2. \A s \in SUBSET parts :
              it[s] = IF s = {} THEN 0 ELSE Pick(s).frame.chunk + it[s \ {Pick(s)}]
      BY <1>2, <2>1 DEF AddsUp
    <2> HIDE DEF it
    <2>3. it = [s \in SUBSET parts |-> it[s]]
      BY DEF it
    <2>4. it = [s \in SUBSET parts |->
                   IF s = {} THEN 0 ELSE Pick(s).frame.chunk + it[s \ {Pick(s)}]]
      BY <2>2, <2>3
    <2> QED
      BY <2>4 DEF Pick
  <1>4. Solves(iter)
    <2> HIDE DEF Solves
    <2> QED
      BY <1>3
  <1> HIDE DEF iter
  <1>5. AddsUp(iter, parts, weight)
    <2>1. \A s \in SUBSET parts :
              iter[s] = IF s = {} THEN 0 ELSE Pick(s).frame.chunk + iter[s \ {Pick(s)}]
      BY <1>4 DEF Pick
    <2> QED
      BY <1>2, <2>1 DEF AddsUp
  <1> QED
    BY <1>1, <1>5

TellWhole(parts, call, chunk_max) ==
    /\ \A part \in parts :
           /\ part.call = call
           /\ part.frame.frame_total = FrameTotal(call.payload, chunk_max)
    /\ Cardinality(parts) = FrameTotal(call.payload, chunk_max)
           <=> Together(parts) = call.payload

\* Some frames of one call are all of them if and only if their chunks add up to
\* its payload.
LEMMA PartsAddUp ==
    ASSUME NEW stream_id \in Nat, NEW call \in Call, call.payload > 0,
           NEW chunk_max \in Nat \ {0},
           NEW parts \in SUBSET PartsOfCall(stream_id, call, chunk_max)
    PROVE  TellWhole(parts, call, chunk_max)
  <1> DEFINE payload == call.payload
             n == FrameTotal(payload, chunk_max)
             chunks == Chunks(payload, chunk_max)
             index == [p \in parts |-> p.frame.frame_index + 1]
             weight == [p \in parts |-> p.frame.chunk]
             offset == [k \in 0..n |-> Offset(payload, chunk_max, k)]
  <1>1. payload \in Nat \ {0}
    BY DEF Call
  <1>2. /\ n \in Nat /\ Len(chunks) = n
        /\ Offset(payload, chunk_max, 0) = 0
        /\ Offset(payload, chunk_max, n) = payload
        /\ \A k \in 0..n :
               /\ Offset(payload, chunk_max, k) \in Nat
               /\ k < n => Offset(payload, chunk_max, k) < Offset(payload, chunk_max, k + 1)
        /\ \A k \in 1..n :
               /\ chunks[k] \in Nat
               /\ chunks[k] = Offset(payload, chunk_max, k) - Offset(payload, chunk_max, k - 1)
    BY <1>1, ChunksAreThePayload
  <1>3. ASSUME NEW p \in parts
        PROVE  \E i \in 1..n : /\ p = PartOfCall(stream_id, call, chunk_max, i)
                               /\ index[p] = i /\ weight[p] = chunks[i]
                               /\ p.call = call /\ p.frame.frame_total = n
    <2>1. PICK i \in 1..n : p = PartOfCall(stream_id, call, chunk_max, i)
      BY <1>2 DEF PartsOfCall
    <2>2. /\ p.frame.frame_index = i - 1 /\ p.frame.chunk = chunks[i]
          /\ p.call = call /\ p.frame.frame_total = n
      BY <2>1 DEF PartOfCall
    <2>3. i \in Int
      BY <1>2
    <2> QED
      BY <2>1, <2>2, <2>3
  <1>4. \A p \in parts : p.call = call /\ p.frame.frame_total = n /\ weight[p] = p.frame.chunk
    BY <1>3
  <1> HIDE DEF index, weight, chunks, n
  <1>5. Slices(n, parts, index, weight, offset)
    <2>1. index \in [parts -> 1..n]
      BY <1>3 DEF index
    <2>2. \A x, y \in parts : index[x] = index[y] => x = y
      BY <1>3
    <2>3. weight \in [parts -> Nat]
      BY <1>2, <1>3 DEF weight
    <2>4. /\ offset \in [0..n -> Nat] /\ offset[0] = 0
          /\ \A k \in 0..n - 1 : offset[k] < offset[k + 1]
      <3>1. 0 \in 0..n /\ \A k \in 0..n - 1 : k \in 0..n /\ k + 1 \in 0..n /\ k < n
        BY <1>2
      <3> QED
        BY <1>2, <3>1
    <2>5. ASSUME NEW x \in parts
          PROVE  weight[x] = offset[index[x]] - offset[index[x] - 1]
      <3>1. index[x] \in 1..n /\ weight[x] = chunks[index[x]]
        BY <1>3
      <3>2. index[x] \in 0..n /\ index[x] - 1 \in 0..n
        <4>1. n \in Nat /\ index[x] \in 1..n
          BY <1>2, <3>1
        <4> HIDE DEF n, index
        <4> QED
          BY <4>1
      <3> QED
        BY <1>2, <3>1, <3>2
    <2> QED
      BY <1>2, <2>1, <2>2, <2>3, <2>4, <2>5 DEF Slices
  <1>6. weight \in [parts -> Nat]
    BY <1>5 DEF Slices
  <1>7. offset[n] = payload
    BY <1>2
  <1>8. /\ IsFiniteSet(parts)
        /\ \A sum : AddsUp(sum, parts, weight) => (Cardinality(parts) = n <=> sum[parts] = payload)
    <2> HIDE DEF offset
    <2> QED
      BY <1>5, <1>7, WholeOrLess
  <1>9. PICK sum : /\ AddsUp(sum, parts, weight)
                   /\ Together(parts) = sum[parts]
    BY <1>4, <1>6, <1>8, SumOfChunks
  <1>10. Cardinality(parts) = n <=> Together(parts) = payload
    BY <1>8, <1>9
  <1> QED
    BY <1>4, <1>10 DEF n, TellWhole

LEMMA FramesInvInit == Init => FramesInv
  <1> SUFFICES ASSUME Init
               PROVE  FramesInv
    OBVIOUS
  <1>1. received = {} /\ Queued = {}
    BY DEF Init, PublisherInit, Queued
  <1>2. \A stream_id \in Nat : OneCall({}, stream_id)
    <2> DEFINE call == [life |-> 0, number |-> 0, payload |-> 1]
    <2>1. call \in Call /\ call.payload > 0 /\ 1 \in Nat \ {0}
      BY DEF Call
    <2> HIDE DEF call
    <2> QED
      BY <2>1 DEF OneCall
  <1>3. \A stream_id, incarnation \in Nat : Stream(stream_id, incarnation) = {}
    BY <1>1 DEF Stream
  <1> QED
    BY <1>1, <1>2, <1>3 DEF FramesInv

\* A step that sends no new frame.
LEMMA NothingNew ==
    ASSUME FramesInv, received' \union Queued' \subseteq received \union Queued,
           \A part \in received \union Queued :
               /\ part.call.life <= life'
               /\ part.call.life = life' => part.frame.stream_id < next_stream_id'
    PROVE  FramesInv'
  <1>1. ASSUME NEW stream_id \in Nat, NEW incarnation \in Nat
        PROVE  OneCall(Stream(stream_id, incarnation)', stream_id)
    <2>1. Stream(stream_id, incarnation)' \subseteq Stream(stream_id, incarnation)
      BY DEF Stream
    <2>2. OneCall(Stream(stream_id, incarnation), stream_id)
      BY DEF FramesInv
    <2> QED
      BY <2>1, <2>2 DEF OneCall
  <1> QED
    BY <1>1 DEF FramesInv, OneCall

LEMMA SentTyped ==
    ASSUME TypeOK, NEW part \in received \union Queued
    PROVE  part.call \in Call /\ part.call.life \in Nat /\ part.frame.stream_id \in Nat
  <1>1. part \in [frame : Frame, call : Call]
    <2>1. CASE part \in received
      BY <2>1 DEF TypeOK
    <2>2. CASE part \in Queued
      <3>1. PICK i \in 1..Len(queue) : part = [frame |-> queue[i].frame, call |-> queue[i].call]
        BY <2>2 DEF Queued
      <3>2. queue[i] \in Packet
        BY DEF TypeOK
      <3> QED
        BY <3>1, <3>2 DEF Packet
    <2> QED
      BY <2>1, <2>2
  <1> QED
    BY <1>1 DEF Call, Frame

\* The call of publish that sends frames: they are the first of their stream.
LEMMA NewStream ==
    ASSUME PInv, FramesInv, NEW call \in Call, call.payload > 0, call.life = life,
           NEW chunk_max \in Nat \ {0}, UNCHANGED life, next_stream_id' = next_stream_id + 1,
           received' \union Queued' \subseteq
               received \union Queued \union PartsOfCall(next_stream_id, call, chunk_max)
    PROVE  FramesInv'
  <1> DEFINE new == PartsOfCall(next_stream_id, call, chunk_max)
  <1>1. next_stream_id \in Nat /\ life \in Nat
    BY DEF PInv, TypeOK
  <1>2. \A part \in new : part.call = call /\ part.frame.stream_id = next_stream_id
    BY DEF PartsOfCall, PartOfCall
  <1>3. ASSUME NEW stream_id \in Nat, NEW incarnation \in Nat
        PROVE  OneCall(Stream(stream_id, incarnation)', stream_id)
    <2>1. CASE stream_id = next_stream_id /\ incarnation = life
      <3>1. Stream(stream_id, incarnation) = {}
        BY <1>1, <2>1 DEF FramesInv, Stream
      <3>2. Stream(stream_id, incarnation)' \subseteq new
        BY <3>1 DEF Stream
      <3> QED
        BY <2>1, <3>2 DEF OneCall
    <2>2. CASE ~(stream_id = next_stream_id /\ incarnation = life)
      <3>1. Stream(stream_id, incarnation)' \subseteq Stream(stream_id, incarnation)
        BY <1>2, <2>2 DEF Stream
      <3>2. OneCall(Stream(stream_id, incarnation), stream_id)
        BY DEF FramesInv
      <3> QED
        BY <3>1, <3>2 DEF OneCall
    <2> QED
      BY <2>1, <2>2
  <1>4. ASSUME NEW part \in received' \union Queued'
        PROVE  /\ part.call.life <= life'
               /\ part.call.life = life' => part.frame.stream_id < next_stream_id'
    <2>1. CASE part \in new
      BY <1>1, <1>2, <2>1
    <2>2. CASE part \in received \union Queued
      BY <1>1, <2>2, SentTyped DEF FramesInv, PInv
    <2> QED
      BY <2>1, <2>2
  <1> QED
    BY <1>3, <1>4 DEF FramesInv, OneCall

\* What is in the queue after packets were enqueued.
LEMMA EnqueuedIsOldOrNew ==
    ASSUME TypeOK, NEW packets \in Seq(Packet), Enqueue(packets)
    PROVE  \A i \in 1..Len(queue') :
               \/ i \in 1..Len(queue) /\ queue'[i] = queue[i]
               \/ \E j \in 1..Len(packets) : queue'[i] = packets[j]
  <1> DEFINE length == Len(queue) + Room(packets)
  <1>1. Room(packets) \in Nat /\ Room(packets) <= Len(packets)
    BY RoomTyped
  <1>2. Len(queue) \in Nat /\ Len(packets) \in Nat
    BY DEF TypeOK
  <1>3. length \in Nat
    BY <1>1, <1>2
  <1>4. \A i \in 1..length : i > Len(queue) => i - Len(queue) \in 1..Len(packets)
    BY <1>1, <1>2
  <1>5. queue' = [i \in 1..length |->
                     IF i <= Len(queue) THEN queue[i] ELSE packets[i - Len(queue)]]
    BY DEF Enqueue
  <1> HIDE DEF length
  <1>6. Len(queue') = length
    BY <1>3, <1>5
  <1>7. ASSUME NEW i \in 1..length
        PROVE  \/ i \in 1..Len(queue) /\ queue'[i] = queue[i]
               \/ \E j \in 1..Len(packets) : queue'[i] = packets[j]
    <2>1. CASE i <= Len(queue)
      <3>1. i \in 1..Len(queue)
        BY <1>2, <1>3, <2>1
      <3> QED
        BY <1>5, <2>1, <3>1
    <2>2. CASE ~(i <= Len(queue))
      <3>1. i - Len(queue) \in 1..Len(packets)
        BY <1>2, <1>3, <1>4, <2>2
      <3>2. queue'[i] = packets[i - Len(queue)]
        BY <1>5, <2>2
      <3> QED
        BY <3>1, <3>2
    <2> QED
      BY <2>1, <2>2
  <1> QED
    BY <1>6, <1>7

LEMMA FramesInvPublishes ==
    ASSUME PInv, FramesInv, Publishes
    PROVE  FramesInv'
  <1>1. PICK entry \in 1..Len(config.metrics.enabled), payload \in host.payloads :
            Publish(entry, payload)
    BY DEF Publishes
  <1>2. UNCHANGED <<life, received>>
    BY <1>1 DEF Publish
  <1>3. payload \in Nat \ {0} /\ next_stream_id \in Nat /\ TypeOK /\ queue \in Seq(Packet)
    BY HostTyped DEF PInv, TypeOK, StartupTypeOK
  <1>4. \A part \in received \union Queued :
            /\ part.call.life <= life'
            /\ part.call.life = life' =>
                   part.frame.stream_id < next_stream_id /\ part.frame.stream_id < next_stream_id + 1
    BY <1>2, <1>3, SentTyped DEF FramesInv
  <1>5. CASE UNCHANGED queue /\ next_stream_id' \in {next_stream_id, next_stream_id + 1}
    <2>1. received' \union Queued' \subseteq received \union Queued
      BY <1>2, <1>5 DEF Queued
    <2> QED
      BY <1>4, <1>5, <2>1, NothingNew
  <1>6. CASE PublishWhole(entry, payload) /\ ~UNCHANGED queue
    <2> DEFINE packet == [entry |-> entry, bytes |-> payload,
                          frame |-> NoFrame, call |-> ThisCall(payload)]
    <2>1. packet \in Packet
      BY <1>3 DEF Packet, NoFrame, Frame, ThisCall, Call, TypeOK
    <2>2. Enqueue(<<packet>>) /\ UNCHANGED next_stream_id
      BY <1>6 DEF PublishWhole, Refuses
    <2>3. packet.frame = NoFrame
      OBVIOUS
    <2> DEFINE packets == <<packet>>
    <2> HIDE DEF packet
    <2>4. packets \in Seq(Packet) /\ \A j \in 1..Len(packets) : packets[j] = packet
      BY <2>1
    <2>5. Enqueue(packets)
      BY <2>2
    <2> HIDE DEF packets
    <2>6. \A i \in 1..Len(queue') :
              \/ i \in 1..Len(queue) /\ queue'[i] = queue[i]
              \/ \E j \in 1..Len(packets) : queue'[i] = packets[j]
      BY <1>3, <2>4, <2>5, EnqueuedIsOldOrNew
    <2>7. \A i \in 1..Len(queue') :
              (i \in 1..Len(queue) /\ queue'[i] = queue[i]) \/ queue'[i] = packet
      BY <2>4, <2>6
    <2>8. received' \union Queued' \subseteq received \union Queued
      BY <1>2, <2>3, <2>7 DEF Queued
    <2> QED
      BY <1>4, <2>2, <2>8, NothingNew
  <1>7. CASE PublishFramed(entry, payload) /\ ~UNCHANGED queue
    <2> DEFINE room == MaxPayload(entry)
               chunk_max == room - FRAME_HEADER_LEN
               frames == Frames(payload, next_stream_id, room)
               packets == FramePackets(entry, payload)
               call == ThisCall(payload)
    <2>1. /\ Enqueue(packets) /\ next_stream_id' = next_stream_id + 1
          /\ CanFrame(payload, room)
      BY <1>7 DEF PublishFramed, Refuses
    <2>2. room \in Int
      BY EntryTyped DEF PInv, TypeOK, StartupTypeOK
    <2>3. room > FRAME_HEADER_LEN /\ chunk_max \in Nat \ {0}
      BY <1>3, <2>1, <2>2 DEF CanFrame, FRAME_HEADER_LEN
    <2>4. packets \in Seq(Packet)
      BY <1>3, <2>3, FramePacketsKept
    <2>5. call \in Call /\ call.payload = payload /\ call.life = life
      BY <1>3 DEF ThisCall, Call, TypeOK
    <2>6. ASSUME NEW j \in 1..Len(packets)
          PROVE  [frame |-> packets[j].frame, call |-> packets[j].call]
                     \in PartsOfCall(next_stream_id, call, chunk_max)
      <3>1. Len(frames) = Len(Chunks(payload, chunk_max)) /\ Len(frames) \in Nat
        <4>1. Len(Chunks(payload, chunk_max)) \in Nat
          BY <1>3, <2>3, ChunksAreThePayload
        <4> QED
          BY <4>1 DEF Frames
      <3>2. j \in 1..Len(frames) /\ packets[j].frame = frames[j] /\ packets[j].call = call
        BY <3>1 DEF FramePackets
      <3>3. frames[j] = [stream_id |-> next_stream_id, frame_index |-> j - 1,
                         frame_total |-> FrameTotal(payload, chunk_max),
                         chunk |-> Chunks(payload, chunk_max)[j]]
        BY <3>1, <3>2 DEF Frames
      <3> HIDE DEF frames, packets, call, chunk_max
      <3> QED
        BY <2>5, <3>1, <3>2, <3>3 DEF PartsOfCall, PartOfCall
    <2> HIDE DEF packets, call, chunk_max
    <2>7. \A i \in 1..Len(queue') :
              \/ i \in 1..Len(queue) /\ queue'[i] = queue[i]
              \/ \E j \in 1..Len(packets) : queue'[i] = packets[j]
      BY <1>3, <2>1, <2>4, EnqueuedIsOldOrNew
    <2>8. Queued' \subseteq Queued \union PartsOfCall(next_stream_id, call, chunk_max)
      <3> SUFFICES ASSUME NEW part \in Queued'
                   PROVE  part \in Queued \union PartsOfCall(next_stream_id, call, chunk_max)
        OBVIOUS
      <3>1. PICK i \in 1..Len(queue') :
                /\ queue'[i].frame # NoFrame
                /\ part = [frame |-> queue'[i].frame, call |-> queue'[i].call]
        BY DEF Queued
      <3>2. CASE i \in 1..Len(queue) /\ queue'[i] = queue[i]
        BY <3>1, <3>2 DEF Queued
      <3>3. CASE \E j \in 1..Len(packets) : queue'[i] = packets[j]
        BY <2>6, <3>1, <3>3
      <3> QED
        BY <2>7, <3>2, <3>3
    <2>9. call.payload > 0
      BY <1>3, <2>5
    <2> QED
      BY <1>2, <2>1, <2>3, <2>5, <2>8, <2>9, NewStream
  <1> QED
    BY <1>1, <1>5, <1>6, <1>7 DEF Publish, EncodeFails, Refuses, PublishWhole, PublishFramed

LEMMA FramesInvStep ==
    ASSUME PInv, FramesInv, [Next]_vars
    PROVE  FramesInv'
  <1>1. /\ next_stream_id \in Nat /\ life \in Nat /\ queue \in Seq(Packet)
        /\ Len(queue) \in Nat
        /\ \A part \in received \union Queued : part.call.life \in Nat
    BY SentTyped DEF PInv, TypeOK
  <1>2. CASE UNCHANGED <<next_stream_id, queue, life, received>>
    <2>1. received' \union Queued' \subseteq received \union Queued
      BY <1>2 DEF Queued
    <2> QED
      BY <1>2, <2>1, NothingNew DEF FramesInv
  <1>3. CASE Publishes
    BY <1>3, FramesInvPublishes
  <1>4. CASE Delivers \/ Loses
    <2>1. /\ queue # <<>> /\ queue' = Tail(queue) /\ UNCHANGED <<next_stream_id, life>>
          /\ \/ received' = received
             \/ /\ Head(queue).frame # NoFrame
                /\ received' = received \union {[frame |-> Head(queue).frame,
                                                 call |-> Head(queue).call]}
      BY <1>4 DEF Delivers, Loses
    <2>2. /\ 1 \in 1..Len(queue) /\ Head(queue) = queue[1]
          /\ \A i \in 1..Len(queue') : i + 1 \in 1..Len(queue) /\ queue'[i] = queue[i + 1]
      BY <1>1, <2>1
    <2>3. Queued' \subseteq Queued
      BY <2>2 DEF Queued
    <2>4. received' \subseteq received \union Queued
      BY <2>1, <2>2 DEF Queued
    <2> QED
      BY <2>1, <2>3, <2>4, NothingNew DEF FramesInv
  <1>5. CASE Restart
    <2>1. queue' = <<>> /\ received' = received /\ life' = life + 1 /\ next_stream_id' = 1
      BY <1>5 DEF Restart
    <2>2. Queued' = {}
      BY <2>1 DEF Queued
    <2>3. \A part \in received \union Queued :
              part.call.life <= life' /\ part.call.life # life'
      BY <1>1, <2>1 DEF FramesInv
    <2> QED
      BY <2>1, <2>2, <2>3, NothingNew
  <1> QED
    BY <1>2, <1>3, <1>4, <1>5 DEF Next, StartupStep, Killed, Done, vars, publishVars

\* The subscriber takes a stream for whole if and only if it has the payload, for
\* any payloads, any limits and whatever was lost or refused on the way.
THEOREM StreamsReassemble == Spec => []Reassembles
  <1>1. PInv /\ FramesInv => Reassembles
    <2> SUFFICES ASSUME PInv, FramesInv, NEW stream_id \in 1..MaxPublishes,
                        NEW incarnation \in 1..MaxLives,
                        NEW part \in PartsOf(stream_id, incarnation)
                 PROVE  LET parts == PartsOf(stream_id, incarnation) IN
                        part.frame.frame_total = Cardinality(parts) <=>
                            /\ \A other \in parts : other.call = part.call
                            /\ MapThenSumSet(LAMBDA p : p.frame.chunk, parts) = part.call.payload
      BY DEF Reassembles
    <2> DEFINE parts == PartsOf(stream_id, incarnation)
    <2>1. stream_id \in Nat /\ incarnation \in Nat
      BY PublishingAssumption
    <2>2. PICK call \in Call, chunk_max \in Nat \ {0} :
              call.payload > 0 /\ Stream(stream_id, incarnation)
                                     \subseteq PartsOfCall(stream_id, call, chunk_max)
      BY <2>1 DEF FramesInv, OneCall
    <2>3. parts \in SUBSET PartsOfCall(stream_id, call, chunk_max) /\ part \in parts
      BY <2>2 DEF PartsOf, Stream
    <2> HIDE DEF parts
    <2>4. TellWhole(parts, call, chunk_max)
      <3>1. call.payload > 0 /\ parts \in SUBSET PartsOfCall(stream_id, call, chunk_max)
        BY <2>2, <2>3
      <3> QED
        BY <2>1, <3>1, PartsAddUp
    <2>5. part.frame.frame_total = Cardinality(parts) <=>
              /\ \A other \in parts : other.call = part.call
              /\ Together(parts) = part.call.payload
      BY <2>3, <2>4 DEF TellWhole
    <2> QED
      BY <2>5 DEF parts, Together
  <1>2. Spec => []FramesInv
    BY InductiveInvariant, FramesInvInit, FramesInvStep, PTL DEF Spec
  <1> QED
    BY <1>1, <1>2, InductiveInvariant, PTL

=============================================================================
