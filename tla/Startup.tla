------------------------------- MODULE Startup ------------------------------
(***************************************************************************)
(* main and run up to the start of the sampling loop: the file is loaded,  *)
(* the logger and the runtime are started, Transport::connect builds the   *)
(* options of rumqttc, the collectors are built.  Other processes may      *)
(* remove the TLS files meanwhile.                                         *)
(***************************************************************************)
EXTENDS Configuration

CONSTANT Installations  \* the files and surroundings the agent may start in

\* present: the TLS files on disk; unreadable: those that cannot be read though
\* they are there, for want of permission or after an I/O error; payloads: the
\* lengths that the samples of this machine have when encoded; the rest:
\* RUST_LOG, journald, the kernel.
Surroundings ==
    [file : File,
     present : SUBSET TlsFile,
     unreadable : SUBSET TlsFile,
     rust_log : {"unset", "valid", "invalid"},
     journald : BOOLEAN,
     runtime : BOOLEAN,
     payloads : SUBSET (Nat \ {0})]

ASSUME InstallationsAssumption == Installations \subseteq Surroundings

VARIABLES
    host,    \* the installation
    stage,   \* the step main is at
    config,  \* the configuration in memory
    files,   \* the TLS files that exist now
    client_auth,  \* do the options of rumqttc carry a client certificate
    exit     \* how the process ended

startVars == <<host, stage, config, files, client_auth, exit>>

Stage == {"load", "logger", "runtime", "connect", "options", "entries",
          "running", "exited"}

StartupTypeOK ==
    /\ host \in Installations
    /\ stage \in Stage
    /\ config \in Config
    /\ files \subseteq TlsFile
    /\ client_auth \in BOOLEAN
    /\ exit \in {"none", "1", "2", "panic", "killed"}

Boots(installation) ==
    /\ host = installation
    /\ stage = "load"
    /\ config = installation.file.config
    /\ files = installation.present
    /\ client_auth = FALSE
    /\ exit = "none"

StartupInit == \E installation \in Installations : Boots(installation)

-----------------------------------------------------------------------------
Ends(how) == stage' = "exited" /\ exit' = how

Goes(next) == stage' = next /\ UNCHANGED exit

\* Config::load and the first arm of main.
Load ==
    /\ stage = "load"
    /\ config' = Parsed(host.file)
    /\ IF Loads(host.file, files) THEN Goes("logger") ELSE Ends("2")
    /\ UNCHANGED <<host, files, client_auth>>

\* logger::init: RUST_LOG overrides the level; journald may be missing as
\* long as there is a console.
LoggerStarts ==
    /\ host.rust_log # "invalid"
    /\ config.logger.console \/ (config.logger.journald /\ host.journald)

InitLogger ==
    /\ stage = "logger"
    /\ IF LoggerStarts THEN Goes("runtime") ELSE Ends("2")
    /\ UNCHANGED <<host, config, files, client_auth>>

BuildRuntime ==
    /\ stage = "runtime"
    /\ IF host.runtime THEN Goes("connect") ELSE Ends("1")
    /\ UNCHANGED <<host, config, files, client_auth>>

\* Transport::connect validates once more.
Validate ==
    /\ stage = "connect"
    /\ IF TransportValid(config.transport, files) THEN Goes("options") ELSE Ends("1")
    /\ UNCHANGED <<host, config, files, client_auth>>

\* What the setters of MqttOptions assert.
OptionsAccept(transport) ==
    /\ transport.keep_alive >= 5
    /\ transport.max_inflight # 0
    /\ transport.clean_session \/ transport.client_id # "empty"

\* The files that build_transport reads; without a CA none.
ReadFiles(tls) ==
    IF "ca" \notin tls.paths THEN {}
    ELSE IF has_client_auth(tls) THEN TlsFile ELSE {"ca"}

\* fs::read fails on a file that is gone and on one that cannot be read, of
\* which is_file() has said nothing.  A file is read once in a start: when it
\* became unreadable makes no difference.
Readable == files \ host.unreadable

\* build_options and build_transport.
BuildOptions ==
    /\ stage = "options"
    /\ IF ~OptionsAccept(config.transport) THEN Ends("panic")
       ELSE IF ReadFiles(config.transport.tls) \subseteq Readable THEN Goes("entries")
       ELSE Ends("1")
    /\ client_auth' = ("cert" \in ReadFiles(config.transport.tls))
    /\ UNCHANGED <<host, config, files>>

\* run() looks every name up again and expects to find it.
BuildEntries ==
    /\ stage = "entries"
    /\ IF Found(config.metrics) THEN Goes("running") ELSE Ends("panic")
    /\ UNCHANGED <<host, config, files, client_auth>>

FileVanishes ==
    /\ stage \notin {"running", "exited"}
    /\ \E path \in files : files' = files \ {path}
    /\ UNCHANGED <<host, stage, config, client_auth, exit>>

Starting ==
    \/ Load \/ InitLogger \/ BuildRuntime
    \/ Validate \/ BuildOptions \/ BuildEntries

-----------------------------------------------------------------------------
(* Properties *)

\* The start never ends in an assertion of rumqttc nor in the expect() on a
\* collector's name (connection.rs:157-163, main.rs:64).
NeverPanics == exit # "panic"

\* The TLS files that the start reads, and cannot.
Unreadable == ReadFiles(config.transport.tls) \cap host.unreadable

\* A configuration that Config::load refuses ends the process with 2, and a
\* start that ends with 1 had one that is sound, its TLS files included: then
\* the runtime could not be built, or a TLS file went away between two of the
\* three times it is looked at, or is there and cannot be read (main.rs:15-53,
\* config.rs:179, connection.rs:193-203).
ExitOneIsNotTheFile ==
    exit = "1" =>
        /\ Loads(host.file, host.present)
        /\ ~host.runtime \/ files # host.present \/ Unreadable # {}

\* docs/.../mqtt.md:46-47: client_cert_path and client_key_path "enable mutual
\* TLS": when TLS is on and both are set, the connection authenticates.
MutualTls ==
    stage = "running" /\ is_enabled(config.transport.tls)
        /\ has_client_auth(config.transport.tls)
        => client_auth

=============================================================================
