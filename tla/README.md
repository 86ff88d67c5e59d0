# BlazeBee: specifications, model checking and proofs

BlazeBee is a metrics agent for Linux. It samples the kernel's counters at a
fixed interval and publishes each sample over MQTT; a retained status message
and a last will tell the subscribers whether the host can be reached. The
program is small, sequential in most places and runs on one thread, and still
the parts that matter are hard to test: two tasks that share a thread and two
channels, a broker that goes away at any moment, blocking system calls that
never return, a shutdown with two nested deadlines, restarts by systemd while
subscribers live on.

This directory holds TLA+ modules for these parts, TLC configurations that
check them on small instances, and TLAPS proofs of the properties that matter
most, for every value of the constants. Paths are relative to the repository;
`scheduler.rs` is `src/core/scheduler.rs`, `connection.rs`, `publisher.rs` and
`framer.rs` are in `crates/mqtt/v3/src/`, `filesys.rs` is in
`src/core/collectors/`.

    cd tla
    tlc -config Agent_safety.cfg MCAgent     # one run
    tlapm AgentProofs.tla                    # one module of proofs

## 1. Inventory

| component | state | operations | modelled in |
|---|---|---|---|
| Sampling loop (`scheduler.rs`) | `paused`, `ever_connected`, `skipped`, one failure counter per entry | wait for the tick or the link; skip, run or return; collect and publish each entry | Scheduler, Cadence |
| Connection driver (`connection.rs`) | the event loop of rumqttc, the watch sender, backoff | poll, report the state, back off, give up; say goodbye within a grace | Driver |
| Process lifecycle (`main.rs`, the systemd unit) | where `main` is, the exit code | start in stages, select between signal and loop, shut down, be killed, be restarted | Startup, Agent, FilesystemCollector (the last wait) |
| Publisher (`publisher.rs`) | `next_stream_id`, `size_hint` | measure, refuse, cut into frames, queue | Publishing |
| Framer (`framer.rs`) | none | `frames` | Framer |
| Configuration (`config/`, `crates/mqtt/v3/src/config.rs`) | none | read, expand, parse, validate | Configuration |
| Filesystem collector (`filesys.rs`) | the map `stuck`, the awaited call | one statvfs per mount with a deadline; parse the mount table | FilesystemCollector, MountTable |
| Logger (`logger.rs`) | the global subscriber | `init`, which can fail | Startup (success or failure) |
| Serializer (`serializer.rs`) | none | encode, compress | Publishing (a length, or a failure) |
| Systemd collector (`sysmd.rs`) | none | a child process with a deadline; parse its output | Scheduler (a collector that awaits), Readers |
| 26 synchronous collectors | a read buffer, or none | read and parse kernel files; walk a class of sysfs | Readers, Reports, Sysfs, Collectors |
| Backoff (`backoff.rs`) | next delay, jitter generator | `next_delay`, `reset` | Backoff, Cadence |
| Procfs reader (`procfs.rs`) | a read buffer | read; parse a field, unescape a name | Procfs, Readers, Reports |

How they interact:

* The sampling loop and the driver are two tasks on one thread (the runtime is
  `new_current_thread`). One runs only while the other awaits. The loop awaits
  between cycles and inside the collectors that really suspend (filesystem,
  systemd); every other collector holds the thread.
* They share a `watch` channel (driver to loop, the connection state) and the
  bounded request queue of rumqttc (both write, the event loop reads).
* `main` selects, biased, between the signals and the loop's future; when one is
  ready it resolves a oneshot that the driver listens to and awaits the driver.
* The filesystem collector parks threads of the blocking pool; the loop may drop
  its future at `COLLECT_TIMEOUT`.
* The broker knows the agent only by its packets and by the end of its
  connection; systemd knows it only by the exit code.

What is hard, and what correctness means there:

* **Wake-ups and stale reads** (loop and driver): no news of the link may be lost
  between `changed()` and `borrow_and_update()`; the link is read once per cycle
  and is stale for the rest of it. An outage must leave a bounded backlog, and
  the loop must pause, resume and end when it should.
* **A shared bounded queue**: the status of a new connection and the farewell
  compete with samples for slots; partially queued samples must stay harmless.
* **Order across crashes** (driver and broker): DISCONNECT discards the last
  will, so it must never leave without an `offline` in front of it: through
  replay list, queue, wire, takeovers, kills and restarts.
* **Nested deadlines**: 3 s in the driver inside 5 s in `main`; 2 s per mount
  inside 10 s per collector.
* **Time** (loop and driver): ticks that are missed, a ticker that is reset when the
  link wakes the loop, cycles longer than the interval, delays that grow, are capped
  and scattered. A connected loop must sample, a broker that is back must be found.
* **Boundaries**: an overhead that is subtracted before a payload is measured,
  a frame count and the frames computed by two different divisions.
* **A table that changes while it is used**: the mount table is read in pieces, and
  each mount is looked up again, by name, when it is measured.
* **Devices that come and go** during a walk of sysfs, file by file and by path.
* **Files of many kernels**: columns and lines that some kernels do not have, names
  and values on different lines, lines that are about the one before.
* **Checked once, used later**: values and files validated by `Config::load` and
  asserted or read again several calls later.

`PROJECT.json` lists each of these as a hazard, at its line, with the properties
that would catch it going wrong.

## 2. Modules

    Channels ---- Scheduler ----------.
                    |    |             |
                    |    |  Driver ----+-- Agent ---- MCAgent
                    |    |    |               `------ AgentProofs
                    |    | StatusTopic (INSTANCE)
                    |    `-- SchedulerProofs
        Backoff ----+-- Cadence ---- MCCadence
                               `---- CadenceProofs (and SchedulerProofs)
    Configuration ---- Startup ----.
             Framer ---------------+-- Publishing ---- MCPublishing
                                   `--------------------- PublishingProofs
    FilesystemCollector ---- FilesystemProofs
    Procfs ---- MountTable ---- MCMountTable, MountTableProofs
    Readers ---- Reports ----.
                    Sysfs ---+-- Collectors ---- MCCollectors, CollectorsProofs
    DataTheorems ---- PublishingProofs, MountTableProofs, CollectorsProofs

**Channels** has the watch channel (`link`, `unseen`) and the request queue
(`queue`, `attached`). `SetState` is `send_if_modified`, `SetLost` the two states
`Disconnected` and `Reconnecting` that the driver sets without an await between
them, `TrySend` the refusal of a full queue.

**Scheduler** is `Scheduler::run`. `TickWake`, `LinkWake` and `LinkClosed` are
the branches of the two waits; each includes everything up to the next await or
the start of the cycle (`Examine`: return, skip, or start). `RunEntry` is one
round of the `for` loop with `run_entry`: collect and publish, or fail. `cur` is
the entry that is being run and decides, with `Suspending`, whether other tasks
may run (`AtAwait`). `Env...` are the driver's effects on the channels, for runs
of the loop alone; they include the driver's panic. Time is not modelled here: a
tick may come at any moment between cycles.

**Backoff** is `Backoff`: the capped sequence, its reset, and the scatter that is
applied after the cap. **Cadence** puts the clock into Scheduler: the deadline of the
ticker (`tick`, negative when it is missed; `Rearmed` is `MissedTickBehavior::Skip`),
`reset` on a wake-up by the link, the deadline of each `collect()` (`spent`), the
backoff sleep and the attempt of the driver (`wait`, `trying`), and a broker that can
be reached or not. Every action of Cadence is one of Scheduler with its effect on
the timers, so Cadence implements Scheduler. `Elapse` lets one unit go by, and only
when no task of the process is ready (`Busy`): computing takes no time. `phase`, `due`,
`quiet` and `blank` are histories that only properties read.

**Driver** is `Driver::run` and `disconnect` with what lies under them. The code
of the repository: `ConnectOk`, `ConnectFails`, `Loses`, `BackoffEnds`,
`StopsAsleep`, `StopsUnconnected`, `StartsFlush`, `FlushEnds` and their parts.
External, modelled from how the driver uses it: the event loop of rumqttc (what
is taken next, inflight limit, replay list), the wire and the broker (session,
retained message, takeover, last will). Which errors are fatal is left open
(`ConnectFails` and `Loses` may choose), so every property holds for any list.
The backoff delay is left open too: it may end at any moment.

**StatusTopic** is the promise to subscribers: the retained message says
`online` only while the broker holds a session, and when a session ends it says
`offline` already or becomes it in the same step. Driver and Agent implement it;
the refinement mapping hides the driver, the queue, the replay list and the wire and
leaves whether there is a session, and the retained message.

**Agent** composes the two tasks with `run()`: `Signal`, `OnSignal` (the loop is
dropped where it stands), `Scheduling`, `Driving`, the two ways
`Transport::shutdown` returns, seconds of the two deadlines, a process that is
starved for seconds (`Stall`, when `Punctual` is false), `Killed` and `Restart`.

**Configuration** has the validation of every section as predicates; a string
is the class or the length that the code asks of it. **Startup** is `main` and
`run` up to the loop: one action per stage with its exit code, TLS files that
vanish meanwhile, and TLS files that are there and cannot be read (`unreadable`), of
which only `fs::read` finds out. The two setters of rumqttc that assert are `OptionsAccept`.

**Framer** and **Publishing** are `publish()` to the byte: join, overhead, the
refusals and their order, an encoder that fails, stream ids, frames queued one by one until the queue
refuses. The packet's true size (`PacketSize`) is external: it is what rumqttc
and the broker compare with `max_packet_size`. A subscriber collects frames and
outlives the publisher.

**FilesystemCollector** is `usage()` and `collect()` with the threads: `stuck` is
the map, `leaked` the threads whose handle was dropped, `Cancelled` the drop of
the future by the loop. `Stops` is the end of the select in `run()`, which drops
the collector with all its handles, and `Exits` the drop of the runtime, which waits
for the threads that are still parked.

**Procfs** is `ProcFile::read` with `read_into`: one action per read(2), with the
room made before it (`Want`, `Resizes`), the end of the file, an error that
leaves the filler behind, text that is not UTF-8. A piece of the file is a line,
which the kernel never splits. **MountTable** adds the collector: `parse_mounts`
as the fold over the lines, and the loop that measures, now without time or
threads but with the kernel's mounts, and so with the question which filesystem
a record is about. `touched` is a history of the paths that changed hands since
the table was read or since the late call was made; `torn` tells that an unmount
removed a line that had been read already, so that the lines behind it moved past
the reader.

**Readers** has the parsers of tables and keyed files, **Reports** those of
`/proc/mdstat` (a fold that attributes lines to the array before them) and of the
pressure files, numbers in files of their own, the clock, and the escapes in mount
points, byte by byte. A line has a first token, a number of columns, and some
columns that are not numbers; a record does not hold numbers but the places they
were taken from, so a value from the wrong line or column is told apart from the
right one. Which columns are looked at, in what order, and what a missing or
malformed one does to the line and to the sample, is that of the code. **Sysfs**
walks a class directory: the `Plan` of a class is the order of its reads, and each
read is an action, between which devices are unplugged and others take over their
names; an open directory of a device that is gone is empty. `held` is a history: the
devices that were at a name while the walk was in that directory. **Collectors** chooses
between one parse and some walks, and has the properties of both.

`Mut...` definitions stand next to the ones they deform: plausible bugs (a
dropped guard, an off-by-one, a wrong order), one for each checked property.
Nothing else uses them.

## 3. Runs

| run | states (distinct) | what it shows |
|---|---|---|
| Scheduler_loop | 32245 | the loop and the backoff in time against a broker that comes and goes |
| Agent_safety | 26943 | inductive invariants, exit codes, deadlines, status topic |
| Agent_liveness | 28032 | termination, death announced, status and samples get through |
| Publishing_sizes | 637148 | the start under 56 installations, then publishing at every boundary |
| Filesystem_deadlines | 62108 | threads, samples and recovery while the deadlines fit, and what remains when they do not |
| Mounts_table | 2948530 | the mount table read, parsed and measured while it changes |
| Collectors_files | 1383504 | every parser on files around its limits, every walk of sysfs under hotplug |
| Agent_framing, Driver_drop, Filesystem_exit, Filesystem_leak, Startup_tls | stop at the counterexample | statements of the documentation that the code does not keep (section 6) |

**Scheduler_loop** (3 collectors of which the first and the last await, capacity 4,
up to 2 frames per sample; interval 2, `COLLECT_TIMEOUT` 3, so that a cycle takes up
to three intervals; delays from 2, doubled, capped at 8, scattered by a half; an
attempt takes up to 1): `NoLostWakeup`, `OutageBacklog`, `OutagePauses` of the loop;
`NeverQuiet`: a connected loop starts a cycle within an interval or a cycle;
`NoBurst`: missed ticks are not replayed; `RecoversInTime` and `OutagesDoNotAddUp`:
how long it takes to find a broker that is back, after any number of outages of
any length. An interval of 2 and cycles of 0 to 6 make ticks that are in time, late
by a part of the interval and late by several. `SkipCap` 1 and `FailCap` 0 saturate
counters of which nothing but zero or not zero matters.

**Agent_safety** (2 collectors, both awaiting, capacity 3, the smallest that is
accepted; the real deadlines of 3 and 5 seconds; one restart): the inductive
invariants `IInv` and `StatusInv` of the proofs; `RoomForOnline`: the configured
capacity always leaves a slot for the status when a connection is accepted;
`ExitOneMeansFatal`; `NeverAborted`: the farewell is never cut by `main`;
`StatusTopicSpec`: the refinement of StatusTopic, across kills, takeovers and
restarts. `WireCap` 2 lets `offline` and DISCONNECT be under way together;
`ReplayCap` 1 lets a resumed session replay.

**Agent_liveness** (one collector awaits, the other does not; tracked samples; the
process may be starved; one restart): `SignalEnds`, `FatalEnds`,
`DeathIsAnnounced`, `OnlineWhileConnected`, `SampledWhileConnected`. Deadlines are
1 and 2 here: only their order matters.

**Publishing_sizes**: a sound installation and every one that differs from it in
one choice or defect (unreadable file, bad reference, each rule of each
`validate`, all 16 combinations of the TLS settings, missing files, files that cannot
be read, logger, runtime), followed by two calls of `publish` in each of two lives. Payload
lengths are those at the limits: without frames, at the largest payload that is
accepted and one past it, for both entries (QoS 1 and QoS 0, which differ by
the packet identifier and the topic), where the length field grows to four
bytes; with frames, `max_packet_size` 64 and base topics that leave room for
several bytes, for one byte, for none and not even for the header. `FrameLimit` 3
stands for `u32::MAX`; 79 bytes need more. Properties: `PInv` (the invariant of
the proofs), `PacketsFit`, `RefusalsAreTight`, `Reassembles`, `ValidatedIsEnough`,
`ExitOneIsNotTheFile`: a start that ends with 1 had a configuration that loads, and
a runtime that failed, a TLS file that went away, or one that is there and cannot be
read (section 6 says why the last is not 2).

**Filesystem_deadlines** (1 to 4 mounts, a deadline of 1, `COLLECT_TIMEOUT` 4; in the
code 2 s and 10 s, so that four mounts fit and five do not; here three and
four): `OneThreadWhileItFits`, `SampleSurvives`, `MountsComeBack` while the
deadlines fit, `HungMountsSettle` always.

**Mounts_table** (a mount point that changes hands between two disks and a tmpfs,
behind a second one that comes and goes, and a third whose name is not UTF-8; three
lines, a chunk of three; a read takes any number of lines that fit):
`WholeFile`, `SteadyBuffer`, `OnePerPath`, `RecordsAreOfTheirDisk`. Three lines are the
fewest with which a table can be torn so that it names the wrong filesystem: two of
one path behind one of another that is unmounted between two reads. They include a
disk covered by a tmpfs, and a file that fills its room exactly, so that the read that
finds the end makes the buffer grow. The two disks are symmetric; no liveness is
checked here.

**Collectors_files** has 11222 files and, of four classes of sysfs, every arrangement of
two devices under three names with three changes in two walks. Files have up to
five lines, of the numbers of columns at which a parser changes its mind, whole and
with one line too short or one column malformed; mdstat has every sequence of up
to four lines and every header of up to four tokens; mount points have every
sequence of up to five bytes out of those that matter to an escape.
`RecordsAreTheirLines`, `NothingLeftOut`: what is sent is what the file says, each
value from its own column, no line lost, and no failure without a reason.
`SummariesAreMeasured`: a record that is put together from several lines or files (stat,
processes, ram, pressure) has each value from a line about it, of its own file; what is
malformed or unreadable makes the sample fail, and a zero stands only for a value
that the file lacks. `NamesComeBack`: what the kernel escapes is unescaped.
`ArraysOwnTheirLines`: geometry and rebuild belong to their array.
`RecordsAreOfTheirDevice`: nothing in a record is left over from a device that was gone
when the walk entered the directory; two devices can be in one record only when they
are exchanged between its own reads, and then they can (section 6). `SteadyDevicesAreReported`: hotplug does not cost the sample a device
that stayed while the walk was with it. What the files say is
defined in the properties from the description of each file in the sources, not by
the parsers. Three changes are enough for a name to be freed, taken over and freed
again within one walk, two walks for what is left of the first to reach the second.

### Fairness

No run assumes that a connection attempt succeeds, that a signal comes, that
anyone restarts the process or that a mount recovers.

* Cadence: weak fairness of the clock, of the waits of the loop and of the entries: a
  current-thread runtime polls what is ready. None of the driver or the broker.
* Loop in Agent: weak fairness of `TickWake` (the interval timer), of `LinkClosed` (the
  select polls both branches) and of `RunEntry` (every `collect` returns or is
  timed out, by `COLLECT_TIMEOUT`).
* Driver: strong fairness of its writes, of the handling of acknowledgements, of
  noticing a dead connection and of the request to stop. Strong, because a
  collector that does not await takes the thread away again and again; the
  runtime polls a ready task at the next await, however often that happens.
* Timers (`GraceExpires`, `Second`, `ShutdownAborts`): weak.
* Network and broker: what is on the wire of an open session arrives, and a
  broker whose client is gone notices (keep-alive). Neither is assumed for a
  connection that dies first.
* Filesystem: the collector is called again and again, time passes, a call on a
  mount that answers returns, and a process that nothing holds up exits. A mount
  that hangs may hang for ever.

## 4. Proofs

Eight modules, 44 theorems on 274 lemmas, 10051 obligations, all checked to the last leaf.
Every invariant that a passing run checks is stated by a theorem, and so are its action
properties and the refinements, so the runs and the proofs are about the same formulas.

**DataTheorems** has what the others need about data. The prover cannot instantiate the
induction theorems of the library, and it does not know that a recursive function
exists; both are had from the fact that a set of naturals that is not empty has a
least element. `InductionUpTo` and `InductionOnSubsets` are about sets instead of
predicates; `RecursiveFunction` says that a definition `f[d] == body` by a rank has a
function that it defines, if the body only asks for smaller ones; `FoldExists` is that
for the folds of the community modules; `SumInAnyOrder` and `WholeOrLess` are about sums
over a finite set, `RanksAreAllPlaces` about sorting by the number of those that precede.

**SchedulerProofs**. `LoopTypeCorrect`, `WakeUpsAreKept` (`NoLostWakeup`),
`SkipsAreCountedPerPause` and `OutagesLeaveLittle` (`OutageBacklog`) of the loop against
any behaviour of the link. A wake-up could only be lost if the loop were paused
within a cycle, so `PauseInv` adds that it is not. `OutageBacklog` needs that a queue is
emptied by the reconnect before the cycle that refills it begins.

**CadenceProofs**. `Refines`: `CadenceSpec => SchedulerSpec`, so the four theorems above
hold with time as well. The rest is about time, for any interval, deadline, delays,
growth, jitter and number of collectors. `CycleInv` relates how long a cycle has
taken (`Taken`) to how late the ticker is and how long the loop has been quiet; from it
`TimedTypeCorrect` and `NeverQuietForLong`. `GridInv` says that the ticker stays on the
multiples of the interval since its last reset, through late ticks; from it
`NoTicksReplayed`. `RecoveryInv` says how the sleep and the attempt under way use up the
time since the broker is back; from it `ConnectedAgainInTime` (the scattered cap and two
attempts) and `OutagesStartAfresh`. The rounding of the products is done with integer
division, bounded by the lemmas on `Grown`, `Shortest` and `Longest`.

**FilesystemProofs**. `CollectorTypeCorrect` for any number of mounts and any deadlines;
while the deadlines of the mounts fit into that of the collector,
`OneThreadPerMountWhileItFits` and `SamplesSurviveHungMounts`. The invariant, `FsInv`, adds to
the types that a mount with a call is not called again (`CallsOnce`), what the end of
the process leaves (`Dropped`), that a handle is lost only when the process stops, at most one per mount
(`NoLeak`), and the one that
carries the others, `OnTime`: before the mount at position p, `collect()` has spent at
most p - 1 deadlines, so the one of the collector is never reached.

**AgentProofs**. `TypeCorrect`, `LinkTellsTheTruth`, `InductiveInvariant`,
`BacklogIsOneCycle`, `OnlineAlwaysFits`, for any number of collectors, any set of
suspending ones, any frames, capacity, inflight limit, QoS and number of
restarts. `OutageBacklog` (the queue of an unreachable agent holds at most the
rest of one cycle) is not inductive alone: that the queue is empty when an outage
begins follows only if the watch state is that of the socket, since the event
loop empties its queue when the socket closes. `IInv` is therefore the type
invariant, `LinkIsNet` and `OutageBacklog`. `OnlineAlwaysFits` follows when a
sample is one message (`MaxFrames = 1`) from `ConfigAssumption`, the rule of
`Config::validate` that the capacity exceeds the number of collectors.

`ExitOneIsFatal` rests on `FatalInv`: while `main` selects, the Transport is held, so the
only way for the driver to end, and for the loop to return, is a fatal error.
`TheGraceEndsFirst` assumes only `DisconnectGrace < ShutdownTimeout`: the seconds of the
driver and those of `main` begin in the same step and, on a process that is not
starved, go by together (`DeadlineInv`).

`GoodbyeBeforeDisconnect` (`StatusInv`): a DISCONNECT exists
only in a driver that flushes, directly behind `offline`, in the queue or, once
the replay list is empty, behind what was written last; on the wire it is the
last packet. It rests on `main` having asked the driver to stop before, so that
nothing else is queued in between. `StatusIsHonest`: hence every step of the
agent, the network and the broker is a step of StatusTopic or leaves the topic
alone; the step that needs the invariant is the broker's receipt of DISCONNECT.

**PublishingProofs**. `InductiveInvariant` (`PInv`): the configuration in use
is the one that was loaded, with the TLS files that were there at boot (`Accepted`); TLS
files only go away (`FilesOnlyGo`); no exit code is set before the end
(`NoneTillExited`); each queued packet and each refusal was measured against the
configuration in force. From it, for any installations, topics and lengths: `EveryPacketFits` (the
subtracted overhead covers rumqttc's own for every width of the length field,
framed or not), `NoPayloadRefusedInVain` (and exceeds it by at most three bytes),
`ValidationSuffices` (no assertion of rumqttc, no `expect` and no invalid QoS
after `Config::load`), `ExitOneIsTheMachine` (the second validation, in `connect`,
fails only if a file went away; the reads behind it also on a file that cannot be
read). `StreamsReassemble` (`Reassembles`): what a
subscriber takes for a whole sample is one. `FramesInv` says of the frames, queued
or delivered, that those of one stream id and one life are frames of one call, cut in
one way, and that the stream ids to come are not in use. So the frames of one id are
different chunks of one payload; the chunks add up to the payload
(`ChunksAreThePayload`, the two divisions), and a sum over some of them is the whole
only if it is over all (`WholeOrLess`).

**MountTableProofs**. `ReadsTheWholeFile` (`WholeFile`) and `BufferIsSteady`
(`SteadyBuffer`), for any mount table, any size of the chunk and any way the reads
are cut. `ReaderInv` adds to the types that what has been read is a prefix of a
file that does not change, and that the room behind the longest text so far is
at least a chunk. The second part is what the comment in the code leaves out:
the read that finds the end of the file needs room as well, so the buffer grows
once more than to the file's size, and not again. `CollectorIsReader` shows that
every step of the collector is a step of the reader or leaves it alone.

`ParseMounts` says what the fold over the lines computes, for every text: one mount per
path that has a disk, with the last disk of that path. `TableInv` carries it through
the reading and the measuring: unless the table was torn, what has been read is a
prefix of the file; hence the mounts that were parsed are of the filesystem that is
seen at their path, but for the paths that were `touched` since and those that
something skipped is mounted over, and the calls that were given up are of the
filesystem seen at theirs, but for the touched ones. `OnePerPathThm` and
`RecordsAreOfTheirDiskThm` follow. The invariant would not become inductive without
`torn`, and rightly: an earlier form of `RecordsAreOfTheirDisk` excepted only the paths
that changed hands, held with the two lines of an earlier run, and is false with
three. An unmount of one path between two reads moves the top line of another
past the reader, and a line that is covered is taken for the top.

**CollectorsProofs**, for any files and any devices, names, foreign entries and number of
changes and walks.

* *Walks.* `WalkInv` adds to `RecordsAreOfTheirDevice` the types, that what was read of
  the device at hand is of one that was there since the walk entered its directory
  (`GotIsHere`), that a directory is entered once in a walk (`EnteredOnce`: otherwise
  the history of a name would start again under its records), and, for
  `SteadyDevicesAreReported`, `NoneIsForgotten`: a device that stays and can be read is
  still to be entered, or is being read and has a record of each sensor that the rest of
  the plan does not read, or has all its records. The plan of reads is unfolded once
  (`PlanShape`); that sorting loses nothing is `SortedKeepsAll`.
* *Lines.* `RecordsAreTheirLinesThm` and `NothingLeftOutThm`, for all fourteen line-wise
  parsers. `Rows` is a concatenation of what each line gives, and what that is is proved
  by induction (`FlatRuns`, `FlatExists`). Twelve parsers make at most one record of a
  line: for each, one lemma (`CpuIsFaithful` to `SchedstatIsFaithful`) says which, and
  `TableIsFaithful` makes the properties of them. The two that pair names and values
  (`NetstatIsFaithful`, `SockstatIsFaithful`) need that the pairs of different lines,
  and of different places in one, are different ones.
* *Summaries.* `SummariesAreMeasuredThm`: that as many lines were found as there are keys
  means that each key was found only if no key is there twice, a pigeonhole over the
  keys (`CountedIsMeasured`); a slot is the first column of a line of its key
  (`SlotIsOfLine`, `RamIsMeasured`); the columns of a line of pressure are all of one
  line (`StallIsOfOneLine`), and each record of the file that it names
  (`PressureIsMeasured`).
* *Arrays.* `ArraysOwnTheirLinesThm`: after k lines of mdstat the fold has one array per
  header so far, each with what its block says so far (`OneMoreLine`).
* *Escapes.* `NamesComeBackThm`: unescaping is a recursive function on the places of the
  text (`UnescapeRuns`); every byte of the name became a piece that gives the byte back
  wherever it stands (`PieceIs`, `FlatPrefix`), so the text is read from its end to
  its start without ever stopping within a piece.

The assumptions, each named in the module that declares the constants and
evaluated by TLC in every run: `CapacityAssumption`, `SchedulerAssumption`,
`ConfigAssumption`, `DriverAssumption`, `AgentAssumption`, `BackoffAssumption`,
`CadenceAssumption`, `InstallationsAssumption`, `FrameAssumption`,
`PublishingAssumption`, `FilesystemAssumption`, `ProcfsAssumption`,
`MountTableAssumption`, `LineAssumption`, `SysfsAssumption`, `FilesAssumption`. They give
the constants their types. Three have content. `FilesAssumption` says what the kernel
keeps to in its files: the lines of the CPUs follow one another in /proc/stat
(`Cpu` stops at the first other line behind them) and no key is there twice; in netstat
the name line and the value line of a protocol start with the same word, and a
blank line has no columns, so that a single blank line, which would shift the pairs
behind it, is excluded; a mount point has no NUL in it. The others are
`ConfigAssumption`, the rule of `Config::validate` on the
capacity, and `Shortest(Initial) > 0` in `CadenceAssumption`: the shortest sleep is not empty,
as it is with the delays of `Backoff::default()`, which `Transport::connect` uses, and a unit that is small
enough.

Only model-checked: the liveness properties (`OutagePauses`, `SignalEnds`, `FatalEnds`,
`DeathIsAnnounced`, `OnlineWhileConnected`, `SampledWhileConnected`, `MountsComeBack`,
`HungMountsSettle`), because fairness and ENABLED are out of the prover's reach.

## 5. Bounds

`SkipCap`, `FailCap`, `LeakCap` saturate counters; `WireCap` and `ReplayCap` bound
what is on the way and when the broker resumes a session, `MaxRestarts` and
`MaxLives` the starts of the process, `MaxPublishes` the calls of `publish`,
`MaxMounts` the mounts and the lines of the mount table, `MaxChanges` and `MaxWalks`
the hotplug events and the calls of a sysfs collector. Cadence needs no bound: its
timers are bounded by what is proved of them, and TLC finds the same finite ranges. One
restart is enough to have an old and a new connection, an old and a new stream;
two publishes are enough for a sample cut off by a full queue and a second one.
The proofs hold for every value of these constants.

Quality of service 2 behaves as 1 in Driver (one acknowledgement; the second
round trip changes nothing for the driver). Broker messages of other clients
do not exist. The watch values' reasons and delays are left out.

## 6. Where code and documentation disagree

Five have a run that finds the counterexample.

1. **Agent_framing**: `mqtt.md:26` says that every successful connection publishes
   `online`. With framing a sample is several messages, one cycle can fill a
   queue of the validated capacity, and the status is refused and only logged
   (`connection.rs:233-240`). Without framing it holds, and is proved.
2. **Driver_drop**: `connection.rs:67-69` says that dropping the Transport without
   `shutdown` closes the socket without DISCONNECT. The drop resolves the oneshot
   like a shutdown, and the detached driver says goodbye. The agent itself always
   calls `shutdown`.
3. **Filesystem_leak**: `filesys.rs:5-7` says that at most one thread is parked per
   stuck mount. When so many mounts hang in one cycle that their deadlines reach it,
   `COLLECT_TIMEOUT` drops `collect()` before the handle is filed, and the next cycle
   parks another thread. `HungMountsSettle` shows that the leak ends.
4. **Filesystem_exit**: `blazebee.service:13` says that after SIGTERM the process exits
   well within the 15 seconds of `TimeoutStopSec`. The farewell does, but dropping the
   runtime (`main.rs:37`) waits for threads of the blocking pool: one mount that does
   not answer keeps the process until systemd kills it.
5. **Startup_tls**: `mqtt.md:46` says that the client certificate and key enable
   mutual TLS. Without `ca_cert_path`, `build_transport` returns before it looks at
   them (`connection.rs:190-192`).

Disagreements without a run, seen in what the models do:

* `scheduler.rs:3-4` says that no sample is taken or queued while the broker is
  unreachable. The cycle that an outage interrupts goes on sampling and queueing
  (`scheduler.rs:147-152`); `OutageBacklog` bounds what it leaves.
* `framer.rs:11` calls the stream id unique per payload. It starts at 1 in each
  process (`publisher.rs:35`), so a subscriber can combine frames of two samples
  across a restart. `Reassembles` holds for the frames of one life.
* `softnet.rs:17` says that the index of a line equals the CPU number. The kernel has no
  line for a CPU that is offline, and the CPUs behind it are then reported under
  the number of another. `RecordsAreTheirLines` excepts it.
* `config.rs:182` refuses a TLS file that "is not a readable file", and `overview.md:18-19`
  says that a wrong value ends the process with 2. The check is `is_file()`: a key that
  only root may read passes it, `fs::read` fails in `connection.rs:193-203`, and the
  process ends with 1, which `mqtt.md:90-91` does name for local permission problems.
  `ExitOneIsNotTheFile` has it as its last case.
* `hwmon.rs:3-4` says that every input of every chip is reported with the chip's name and
  label. Name, input and label are read by path, one after the other: when two chips
  exchange their places between two of these reads, one record has the values of both.
  `RecordsAreOfTheirDevice` allows exactly that.
* `scheduler.rs:7` speaks of skipped cycles; the count also grows with every wake-up by
  a reconnect attempt that failed, which is not a cycle.

Noted, and contradicted by no document: the replay list has no bound of its own when connections die
before a cycle is written; the result of a statvfs call that hung for hours is
taken as the current one; an error count of edac that cannot be read is sent as 0
(`edac.rs:42-46`); an empty file of disk, network, arp or mdraid is a success
without a record; the status message is not measured against
`max_packet_size`; `base_topic` and `topic` may each have 65535 bytes, which
their join then exceeds; a topic of `/` with an empty base becomes the empty
topic; systemd's `Restart=on-failure` also restarts after exit code 2; one mount
point whose name is not UTF-8 makes the whole table unreadable.

`filesys.rs:92-94` says that the last entry of a mount point wins, "matching what a
process sees at that path". Entries are filtered first, so a disk covered by a
tmpfs or an overlay is still listed, and its record holds the numbers of what
covers it. No run shows it; `RecordsAreOfTheirDisk` has it as an exception.

## 7. Not modelled, and the plan

Not modelled: what the encoders and compressors of other crates write, and how the
two are configured (their result is a length or a failure); the child process of the
systemd collector, its exit status and its deadline (to everything that depends on
it, one more success or failure of a `collect()` that awaits); units and conversions of
the numbers in a record, but for the clock's offset; the arithmetic on the numbers
of statvfs; the trust store of the system, which `tls_with_default_config()` reads inside
rumqttc and panics without (`connection.rs:191`); the layout of log lines and of a frame header; benchmarks and the
example. Two sensors stand for those of a chip, one number for the ten of a power
supply, one read for the labels of the memory modules.

Next, in this order:

1. **Lifecycle**: the driver's panic inside Agent (the loop goes on against a closed
   queue; so far it is in Scheduler and Cadence only).
2. **Status messages in Publishing**: their size, and the reaction of the event
   loop to a packet that is too large.
3. **Configuration**: the expansion of `${NAME}` character by character.
4. **Proofs**: what `Valid` of Configuration promises to each of its readers, as theorems
   of their own; that Agent with framing loses `online` only to a full queue; the
   steps behind the liveness properties that are safety (that what the fairness is
   about stays enabled until it happens).
