---------------------------- MODULE MCPublishing ----------------------------
(***************************************************************************)
(* A sound installation, and every other one with a single defect or a     *)
(* single different choice.                                                *)
(***************************************************************************)
EXTENDS Publishing

CONSTANTS
    BaseTopics,     \* the lengths of base_topic with frames
    WholePayloads,  \* the lengths of payloads without frames
    FramedPayloads  \* and with frames

Collectors == {"cpu", "ram"}

SlashTopic == [slashes |-> 1, bytes |-> 0, forbidden |-> FALSE]
ShortTopic == [slashes |-> 1, bytes |-> 4, forbidden |-> FALSE]
BadTopic == [slashes |-> 0, bytes |-> 4, forbidden |-> TRUE]
LongTopic == [slashes |-> 0, bytes |-> 65535, forbidden |-> FALSE]

Cpu == [name |-> "cpu", metadata |-> [topic |-> ShortTopic, qos |-> 1]]
Ram == [name |-> "ram", metadata |-> [topic |-> SlashTopic, qos |-> 0]]

SoundTransport ==
    [host |-> "padded", port |-> 1883, client_id |-> "empty",
     username |-> TRUE, password |-> TRUE, clean_session |-> FALSE,
     keep_alive |-> 5, max_inflight |-> 1, max_packet_size |-> 2100000,
     request_channel_capacity |-> 3,
     base_topic |-> [slashes |-> 1, bytes |-> 3, forbidden |-> FALSE],
     tls |-> [enabled |-> FALSE, paths |-> {}], framing |-> FALSE]

SoundConfig ==
    [transport |-> SoundTransport,
     metrics |-> [collection_interval |-> 1, enabled |-> <<Cpu, Ram>>],
     logger |-> [level |-> "level", console |-> TRUE, journald |-> TRUE,
                 identifier |-> "given"]]

Sound ==
    [file |-> [text |-> "readable", dollars |-> {"literal", "escaped", "set"},
               config |-> SoundConfig],
     present |-> {"ca", "cert", "key"}, unreadable |-> {}, rust_log |-> "unset",
     journald |-> TRUE, runtime |-> TRUE, payloads |-> {1}]

With(file) == [Sound EXCEPT !.file = file]

Around ==
    {[Sound EXCEPT !.rust_log = "invalid"], [Sound EXCEPT !.runtime = FALSE],
     [Sound EXCEPT !.journald = FALSE],
     [Sound EXCEPT !.journald = FALSE, !.file.config.logger.console = FALSE]}
    \union {With([Sound.file EXCEPT !.text = text]) :
                text \in {"absent", "unreadable", "not TOML", "unknown key"}}
    \union {With([Sound.file EXCEPT !.dollars = {kind}]) :
                kind \in {"unset", "malformed"}}

WithEnabled(enabled) == [Sound EXCEPT !.file.config.metrics.enabled = enabled]

Sections ==
    {[Sound EXCEPT !.file.config.logger.level = "word"],
     [Sound EXCEPT !.file.config.logger.identifier = "empty"],
     [Sound EXCEPT !.file.config.metrics.collection_interval = 0]}
    \union {WithEnabled(enabled) : enabled \in
                {<<>>, <<Cpu, Cpu>>, <<[Cpu EXCEPT !.name = ""]>>,
                 <<[Cpu EXCEPT !.name = "gpu"]>>,
                 <<[Cpu EXCEPT !.metadata.qos = 3]>>,
                 <<[Cpu EXCEPT !.metadata.topic = BadTopic]>>,
                 <<[Cpu EXCEPT !.metadata.topic = LongTopic]>>}}

WithTransport(transport) == [Sound EXCEPT !.file.config.transport = transport]

Transports ==
    {WithTransport(transport) : transport \in
        {[SoundTransport EXCEPT !.host = "two words"],
         [SoundTransport EXCEPT !.client_id = "with NUL"],
         [SoundTransport EXCEPT !.keep_alive = 4],
         [SoundTransport EXCEPT !.max_inflight = 0],
         [SoundTransport EXCEPT !.max_packet_size = 63],
         [SoundTransport EXCEPT !.request_channel_capacity = 2],
         [SoundTransport EXCEPT !.username = FALSE],
         [SoundTransport EXCEPT !.base_topic = LongTopic]}}
    \union {WithTransport([SoundTransport EXCEPT !.tls = tls]) :
                tls \in [enabled : BOOLEAN, paths : SUBSET TlsFile]}
    \union {[WithTransport([SoundTransport EXCEPT !.tls.paths = TlsFile])
                EXCEPT !.present = {"ca"}]}
    \union {[WithTransport([SoundTransport EXCEPT !.tls = [enabled |-> TRUE, paths |-> paths]])
                EXCEPT !.unreadable = {path}] :
                    paths \in {TlsFile, {"ca"}, {"cert", "key"}}, path \in {"ca", "key"}}

Whole == {[Sound EXCEPT !.payloads = WholePayloads, !.present = {}]}

\* The shortest packets, and topics that leave ever less room in them.
Framed ==
    {[WithTransport([SoundTransport EXCEPT !.framing = TRUE,
                                           !.max_packet_size = 64,
                                           !.base_topic.bytes = bytes])
        EXCEPT !.payloads = FramedPayloads, !.present = {}] : bytes \in BaseTopics}

AllInstallations == Whole \union Framed \union Around \union Sections \union Transports

=============================================================================
