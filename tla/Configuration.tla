---------------------------- MODULE Configuration ---------------------------
(***************************************************************************)
(* What the agent reads at its start and what it accepts: the text of the  *)
(* configuration file, the expansion of ${NAME}, and the validate methods  *)
(* of every section.  A string is what the code asks of it: its length, or *)
(* the class it falls into.                                                *)
(***************************************************************************)
EXTENDS Integers, Sequences

CONSTANT REGISTRY  \* the names of the collectors compiled into the binary

MAX_PACKET_SIZE_LIMIT == 268435455
MIN_KEEP_ALIVE_SECS == 5
MAX_TOPIC_LEN == 65535

\* A topic, as far as validation and join_topic look at it.  slashes are those
\* at the end where base and topic are joined, bytes the rest; forbidden says
\* whether there is a wildcard or a NUL.
Topic == [slashes : Nat, bytes : Nat, forbidden : BOOLEAN]
TlsFile == {"ca", "cert", "key"}
EndpointMetadata == [topic : Topic, qos : Nat]
Entry == [name : STRING, metadata : EndpointMetadata]

\* Nat stands for every unsigned type; the parser has refused what is wider.
TransportConfig ==
    [host : {"name", "padded", "blank", "two words"},
     port : Nat,
     client_id : {"empty", "with NUL", "given", "derived"},
     username : BOOLEAN,  \* is it set
     password : BOOLEAN,
     clean_session : BOOLEAN,
     keep_alive : Nat,
     max_inflight : Nat,
     max_packet_size : Nat,
     request_channel_capacity : Nat,
     base_topic : Topic,
     tls : [enabled : BOOLEAN, paths : SUBSET TlsFile],
     framing : BOOLEAN]

LoggerConfig ==
    [level : {"level", "directives", "bad directives", "word"},
     console : BOOLEAN,
     journald : BOOLEAN,
     identifier : {"empty", "given"}]

Config ==
    [transport : TransportConfig,
     metrics : [collection_interval : Nat, enabled : Seq(Entry)],
     logger : LoggerConfig]

\* The file: how far it can be read, the kinds of $ in its strings, its values.
File ==
    [text : {"absent", "unreadable", "not TOML", "unknown key", "readable"},
     dollars : SUBSET {"literal", "escaped", "set", "unset", "malformed"},
     config : Config]

-----------------------------------------------------------------------------
validate_topic_chars(topic) ==
    /\ topic.slashes + topic.bytes <= MAX_TOPIC_LEN
    /\ ~topic.forbidden

MetadataValid(metadata) ==
    /\ metadata.topic.slashes + metadata.topic.bytes > 0
    /\ validate_topic_chars(metadata.topic)
    /\ metadata.qos <= 2

is_enabled(tls) == tls.enabled \/ "ca" \in tls.paths

has_client_auth(tls) == {"cert", "key"} \subseteq tls.paths

\* With TLS off the paths are not looked at.
TlsValid(tls, present) ==
    is_enabled(tls) =>
        /\ "cert" \in tls.paths <=> "key" \in tls.paths
        /\ tls.paths \subseteq present

MutScalarsWithoutKeepAlive(transport) ==
    /\ transport.host \in {"name", "padded"}
    /\ transport.port # 0
    /\ transport.client_id \in {"given", "derived"}
    /\ transport.max_inflight # 0
    /\ transport.max_packet_size \in 64..MAX_PACKET_SIZE_LIMIT
    /\ transport.request_channel_capacity # 0
    /\ transport.password => transport.username
    /\ validate_topic_chars(transport.base_topic)

\* Config::validate of the transport, up to the TLS settings.
ScalarsValid(transport) ==
    /\ transport.host \in {"name", "padded"}
    /\ transport.port # 0
    /\ transport.client_id \in {"given", "derived"}
    /\ transport.keep_alive >= MIN_KEEP_ALIVE_SECS
    /\ transport.max_inflight # 0
    /\ transport.max_packet_size \in 64..MAX_PACKET_SIZE_LIMIT
    /\ transport.request_channel_capacity # 0
    /\ transport.password => transport.username
    /\ validate_topic_chars(transport.base_topic)

TransportValid(transport, present) ==
    ScalarsValid(transport) /\ TlsValid(transport.tls, present)

\* A bare word must be a level, anything with = or , a list of directives.
LoggerValid(logger) ==
    /\ logger.level \in {"level", "directives"}
    /\ logger.journald => logger.identifier # "empty"

MetricsValid(metrics) ==
    /\ metrics.collection_interval # 0
    /\ metrics.enabled # <<>>
    /\ \A i, j \in 1..Len(metrics.enabled) :
           metrics.enabled[i].name = metrics.enabled[j].name => i = j
    /\ \A i \in 1..Len(metrics.enabled) :
           /\ metrics.enabled[i].name # ""
           /\ MetadataValid(metrics.enabled[i].metadata)

Found(metrics) ==
    \A i \in 1..Len(metrics.enabled) : metrics.enabled[i].name \in REGISTRY

\* The part of Config::validate that does not look at the file system.
ValuesValid(config) ==
    /\ LoggerValid(config.logger)
    /\ MetricsValid(config.metrics)
    /\ Found(config.metrics)
    /\ ScalarsValid(config.transport)
    /\ config.transport.request_channel_capacity >= Len(config.metrics.enabled) + 1

MutValidWithoutFiles(config, present) == ValuesValid(config)

Valid(config, present) == ValuesValid(config) /\ TlsValid(config.transport.tls, present)

-----------------------------------------------------------------------------
\* $NAME stays as it is and $${ is a literal; ${NAME} needs its variable.
Expandable(dollars) == dollars \cap {"unset", "malformed"} = {}

\* An empty client id becomes the host name.
Parsed(file) ==
    [file.config EXCEPT !.transport.client_id = IF @ = "empty" THEN "derived" ELSE @]

\* Config::load: present are the TLS files that exist.
Loads(file, present) ==
    /\ file.text = "readable"
    /\ Expandable(file.dollars)
    /\ Valid(Parsed(file), present)

=============================================================================
