----------------------------- MODULE Collectors -----------------------------
(***************************************************************************)
(* The synchronous collectors.  A behaviour is either one parse of a       *)
(* kernel file in one of its forms, well-formed or not, or some walks of a *)
(* sysfs class while devices come and go.                                  *)
(***************************************************************************)
EXTENDS Reports, Sysfs

CONSTANT Files(_)   \* the forms of the files, per collector

VARIABLES
    job,    \* the collector of a file, and the file
    parsed,
    out     \* what it made of the file

vars == <<job, parsed, out, sysfsVars>>

Columned == {"cpu", "disk", "network", "softnet", "schedstat", "ipvs", "load_average",
             "filefd", "uptime", "vmstat", "arp", "systemd"}
Paired == {"netstat", "sockstat"}
Keyed == {"stat", "processes", "ram"}
FileCollector ==
    Columned \union Paired \union Keyed
        \union {"mdraid", "pressure", "entropy", "conntrack", "ntp", "filesystem"}

FileLine == {line \in [of : STRING, n : Nat, bad : SUBSET Nat] : line.bad \subseteq 1..line.n}

FileOf(lines) == [state : {"absent", "unreadable", "there"}, lines : Seq(lines)]

\* Besides the types: the lines of the CPUs are not interrupted by others, no
\* counter is printed twice, a blank line has no columns, and the two lines of a
\* group are of the same protocol: a single blank line in netstat, which would
\* shift the pairs behind it, is not printed.
ASSUME FilesAssumption ==
    /\ \A c \in Columned \union Paired \union Keyed : Files(c) \subseteq Seq(FileLine)
    /\ \A file \in Files("cpu") : \A l, m \in DOMAIN file :
           IsCpu(file[l]) /\ IsCpu(file[m]) => \A k \in l..m : IsCpu(file[k])
    /\ \A file \in Files("stat") \union Files("processes") : \A l, m \in DOMAIN file :
           file[l].of = file[m].of /\ file[l].of \in StatKeys \union ProcessKeys => l = m
    /\ \A file \in Files("netstat") : \A l \in DOMAIN file :
           /\ file[l].of = "" => file[l].n = 0
           /\ l % 2 = 1 /\ l < Len(file) => file[l].of = file[l + 1].of
    /\ Files("mdraid") \subseteq
           Seq([kind : STRING, tokens : Seq(STRING), geometry : {<<>>} \union (Nat \X Nat),
                action : STRING, percent : BOOLEAN])
    /\ Files("pressure") \subseteq [1..3 -> FileOf(FileLine)]
    /\ Files("entropy") \subseteq FileOf(FileLine)
    /\ Files("conntrack") \subseteq [1..2 -> FileOf(FileLine)]
    /\ Files("ntp") \subseteq [state : Int, flags : SUBSET STRING, offset : Int]
    /\ Files("filesystem") \subseteq Seq(1..255)

\* No device has two names.
Arrangements ==
    {d \in [Range(Name) -> Device \union {None}] :
        \A n, m \in Range(Name) : n # m /\ d[n] # None => d[n] # d[m]}

Init ==
    /\ parsed = FALSE
    /\ out = Skip
    /\ \/ /\ \E c \in FileCollector : \E f \in Files(c) : job = [collector |-> c, file |-> f]
          /\ SysfsInit("none", [n \in Range(Name) |-> None])
       \/ /\ job = [collector |-> "none", file |-> <<>>]
          /\ \E c \in Class, d \in Arrangements : SysfsInit(c, d)

\* collect() of the collectors that read files.
Parse(collector, file) ==
    CASE collector = "cpu" -> Cpu(file)
      [] collector = "disk" -> Disk(file)
      [] collector = "network" -> Network(file)
      [] collector = "softnet" -> Softnet(file)
      [] collector = "schedstat" -> Schedstat(file)
      [] collector = "ipvs" -> Ipvs(file)
      [] collector = "load_average" -> LoadAverage(file)
      [] collector = "filefd" -> FileFd(file)
      [] collector = "uptime" -> Uptime(file)
      [] collector = "stat" -> Stat(file)
      [] collector = "processes" -> Processes(file)
      [] collector = "ram" -> Ram(file)
      [] collector = "netstat" -> Netstat(file)
      [] collector = "sockstat" -> Sockstat(file)
      [] collector = "vmstat" -> Vmstat(file)
      [] collector = "arp" -> Arp(file)
      [] collector = "systemd" -> Units(file)
      [] collector = "mdraid" -> MdRaid(file)
      [] collector = "pressure" -> Pressure(file)
      [] collector = "entropy" -> Entropy(file)
      [] collector = "conntrack" -> Conntrack(file)
      [] collector = "ntp" -> Ntp(file)
      [] collector = "filesystem" -> MountPoint(file)

Collects ==
    /\ job.collector # "none"
    /\ ~parsed
    /\ parsed' = TRUE
    /\ out' = Parse(job.collector, job.file)
    /\ UNCHANGED <<job, sysfsVars>>

Walks == class # "none" /\ (Walk \/ Hotplug) /\ UNCHANGED <<job, parsed, out>>

Finished == (parsed \/ WalkDone) /\ UNCHANGED vars

Next == Collects \/ Walks \/ Finished

Spec == Init /\ [][Next]_vars

-----------------------------------------------------------------------------
(* Properties of the parsers *)

Collector == job.collector
File == job.file

\* Where the values of a record are among n columns, by the documents of the
\* files (network.rs:3-5, softnet.rs:3-4, schedstat.rs:3-5), and which of them
\* must be there.
Places(n) ==
    LET First(k) == [i \in 1..k |-> i]
    IN  CASE Collector = "cpu" -> First(10)
          [] Collector = "disk" -> First(11)
          [] Collector = "network" -> First(4) \o [i \in 1..4 |-> i + 8]
          [] Collector = "softnet" -> <<1, 2, 3, 10, 11>>
          [] Collector = "schedstat" -> <<n - 2, n - 1, n>>
          [] Collector \in {"ipvs", "arp"} -> First(5)
          [] Collector \in {"load_average", "systemd"} -> First(4)
          [] Collector = "filefd" -> <<1, 3>>
          [] Collector = "uptime" -> First(2)
          [] Collector = "vmstat" -> First(1)

Needed(n) ==
    CASE Collector = "cpu" -> 1..7
      [] Collector \in {"softnet", "systemd", "filefd"} -> 1..3
      [] Collector = "schedstat" -> 1..9
      [] Collector = "network" -> 1..12
      [] OTHER -> Range(Places(n))

\* The lines that describe something.
Subjects ==
    CASE Collector \in {"cpu", "disk", "schedstat"} ->
            {l \in DOMAIN File : File[l].of # "other"}
      [] Collector = "network" -> {l \in DOMAIN File : l > 2 /\ File[l].of # "other"}
      [] Collector = "ipvs" -> DOMAIN File \intersect {3}
      [] Collector \in {"load_average", "filefd", "uptime"} -> DOMAIN File \intersect {1}
      [] Collector = "arp" -> DOMAIN File \ {1}
      [] OTHER -> DOMAIN File

Complete(l) == Needed(File[l].n) \subseteq 1..File[l].n

\* The columns that are taken for numbers.
Examined(l) ==
    CASE Collector \in {"arp", "systemd"} -> {}
      [] Collector \in {"network", "filefd"} -> Needed(File[l].n)
      [] OTHER -> Range(Places(File[l].n))

Clean(l) == File[l].bad \intersect Examined(l) = {}

\* A parser that expects more than the file has fails; a lenient one, or that
\* of softnet for a short line, leaves the line out.
Tolerated(l) ==
    \/ Collector \in {"vmstat", "arp", "systemd"}
    \/ Collector = "softnet" /\ ~Complete(l)
    \/ Clean(l) /\ Complete(l)

\* A pair of a name and a number, at a name's line and column.
PairAt(l, c) ==
    IF Collector = "netstat"
    THEN /\ l % 2 = 1 /\ l < Len(File)
         /\ c \in 1..File[l + 1].n /\ c \notin File[l + 1].bad
    ELSE c % 2 = 1 /\ c < File[l].n /\ c + 1 \notin File[l].bad

PairsOfFile == {p \in UNION {{l} \X (1..File[l].n) : l \in DOMAIN File} : PairAt(p[1], p[2])}

\* Whichever columns a kernel has, and wherever they are malformed, each value
\* of a record is the number in its own column of the line that the record
\* names, and never one of a neighbour (next_field consumes the columns one by
\* one, procfs.rs:111-120; netstat.rs:50 zips before it parses).  For softnet
\* the name is right only if no CPU is offline (softnet.rs:46).
RecordsAreTheirLines ==
    parsed /\ out.ok => \A i \in DOMAIN out.stats :
        LET r == out.stats[i]
        IN  /\ Collector \in Columned =>
                /\ r.values = [k \in DOMAIN Places(File[r.line].n) |->
                                  Text(File, r.line, Places(File[r.line].n)[k])]
                /\ \/ r.label = File[r.line].of
                   \/ /\ Collector = "softnet"
                      /\ \E l \in DOMAIN File : File[l].of # ToString(l - 1)
            /\ Collector \in Paired =>
                /\ r.values[2] = IF Collector = "netstat"
                                 THEN <<r.line + 1, r.values[1][2]>>
                                 ELSE <<r.line, r.values[1][2] + 1>>
                /\ r.label = File[r.values[2][1]].of

\* A sample that is sent has everything the file says, in its order, and a
\* parser that fails has met something malformed or missing: no line is lost
\* behind one that is skipped, and nothing in the file that is not looked at
\* makes a sample fail.
NothingLeftOut ==
    parsed =>
        /\ Collector \in Columned =>
            /\ out.ok <=> /\ \A l \in Subjects : Tolerated(l)
                         /\ (Subjects = {} => Collector \notin
                                {"cpu", "ipvs", "load_average", "filefd", "uptime"})
            /\ out.ok =>
                /\ {out.stats[i].line : i \in DOMAIN out.stats}
                   = {l \in Subjects : Complete(l) /\ Clean(l)}
                /\ \A i, j \in DOMAIN out.stats : i < j => out.stats[i].line < out.stats[j].line
        /\ Collector \in Paired =>
            /\ out.ok
            /\ {out.stats[i].values[1] : i \in DOMAIN out.stats} = PairsOfFile
            /\ \A i, j \in DOMAIN out.stats :
                   out.stats[i].values[1] = out.stats[j].values[1] => i = j

\* Where a column of the lines about a key is a number.
Measurements(key, c) ==
    {<<l, c>> : l \in {m \in DOMAIN File :
                          File[m].of = key /\ c \in 1..File[m].n \ File[m].bad}}

\* The values of one line about kind; a column that it lacks is sent as zero.
FromALine(file, kind, values) ==
    \E l \in DOMAIN file : file[l].of = kind /\ values = [c \in 1..4 |-> Text(file, l, c)]

\* A record that is put together from several lines or files has each value from
\* a line about it, of its own file, and a line that lacks a value is never
\* completed from another (pressure.rs:50 resets the columns, pressure.rs:93 the
\* buffer).  A zero stands for what the file does not have and never for what is
\* malformed or could not be read: those make the sample fail, and so does the
\* absence of a counter of /proc/stat, of MemTotal, of the line of some, or of
\* all files of pressure (stat.rs:47, processes.rs:50, ram.rs:61, pressure.rs:81,
\* 100).  A resource without a file has no record.
SummariesAreMeasured ==
    parsed =>
        /\ Collector \in {"stat", "processes"} =>
            LET keys == IF Collector = "stat" THEN StatKeys ELSE ProcessKeys
            IN  /\ out.ok <=> \A key \in keys : Measurements(key, 1) # {}
                /\ out.ok => \A key \in keys : out.stats[1][key] \in Measurements(key, 1)
        /\ Collector = "ram" =>
            /\ out.ok <=> /\ Measurements("MemTotal", 1) # {}
                         /\ \A l \in DOMAIN File : File[l].of \in RamKeys => 1 \notin File[l].bad
            /\ out.ok => \A key \in RamKeys :
                   out.stats[1][key] \in IF Measurements(key, 1) = {} THEN {Absent}
                                         ELSE Measurements(key, 1)
        /\ Collector = "pressure" =>
            LET there == {r \in 1..3 : File[r].state = "there"}
                Full(r) == {l \in DOMAIN File[r].lines : File[r].lines[l].of = "full"}
            IN  /\ out.ok <=>
                    /\ there # {}
                    /\ \A r \in 1..3 : File[r].state # "unreadable"
                    /\ \A r \in there :
                        /\ \A l \in DOMAIN File[r].lines : File[r].lines[l].bad \intersect 1..4 = {}
                        /\ \E l \in DOMAIN File[r].lines : File[r].lines[l].of = "some"
                /\ out.ok =>
                    /\ {out.stats[i].metric_type : i \in DOMAIN out.stats} = there
                    /\ \A i, j \in DOMAIN out.stats :
                           i < j => out.stats[i].metric_type < out.stats[j].metric_type
                    /\ \A i \in DOMAIN out.stats :
                        LET r == out.stats[i].metric_type
                        IN  /\ FromALine(File[r].lines, "some", out.stats[i].some)
                            /\ IF Full(r) = {} THEN out.stats[i].full = Absent
                               ELSE FromALine(File[r].lines, "full", out.stats[i].full)

\* A mount point is measured under the name it has, whatever white space,
\* backslashes and digits are in it, at its end too, and even if the name itself
\* looks like an escape (procfs.rs:138-143).
NamesComeBack ==
    parsed /\ Collector = "filesystem" => out.stats = <<File>>

-----------------------------------------------------------------------------
(* RAID arrays *)

\* The lines of an array: up to the next one.
Block(h) == {l \in h + 1..Len(File) : \A k \in h + 1..l : File[k].kind # "array"}

Geometries(h) == {l \in Block(h) : File[l].kind = "blocks" /\ File[l].geometry # <<>>}

Progress(h) == {l \in Block(h) : File[l].kind = "progress"}

\* Every array has its own geometry and its own progress, or none: a rebuild or
\* a missing member is never reported of the array before or after, whatever
\* lines the kernel prints of it (mdraid.rs:104, last_mut).
ArraysOwnTheirLines ==
    parsed /\ Collector = "mdraid" =>
        LET heads == {l \in DOMAIN File : File[l].kind = "array"}
        IN  /\ Len(out.stats) = Cardinality(heads)
            /\ \A h \in heads :
                LET array == out.stats[Cardinality({l \in heads : l <= h})]
                    Has(kind) == Cardinality({t \in DOMAIN File[h].tokens : File[h].tokens[t] = kind})
                IN  /\ array.failed = Has("sd(F)") /\ array.spare = Has("sd(S)")
                    /\ IF Geometries(h) = {}
                       THEN /\ array.total = array.active + array.failed + array.spare
                            /\ ~array.degraded
                       ELSE LET g == File[Max(Geometries(h))].geometry
                            IN  /\ array.total = g[1] /\ array.active = g[2]
                                /\ array.degraded = (g[2] < g[1])
                    /\ IF Progress(h) = {} THEN array.action = "none"
                       ELSE array.action = File[Max(Progress(h))].action

-----------------------------------------------------------------------------
(* Walks of sysfs *)

WalkOver == walks > 0 /\ left = {} /\ at = None

\* A record holds nothing of a device that was not at its name while the walk was
\* in that directory: what was read of the directory before never stays behind,
\* and a record of two devices takes an exchange between two of its own reads.  A
\* sensor that cannot be read has no record (hwmon.rs:45-73, thermal.rs:42-48:
\* "skip them for this cycle").
RecordsAreOfTheirDevice ==
    \A i \in DOMAIN sample :
        /\ {v.value : v \in sample[i].values} \subseteq held[sample[i].name] \union {None}
        /\ \A v \in sample[i].values : v.attr \in {"input", "temp"} => v.value # None

\* A device that stays where it is while the walk is there, and can be read, is in
\* the sample with all its sensors and values, whatever happens to the others and
\* to the directory before and after: no error ends the walk (hwmon.rs:45-66,
\* thermal.rs:37-48, edac.rs:37-49).
SteadyDevicesAreReported ==
    WalkOver => \A n \in Range(Name), d \in Device :
        held[n] = {d} /\ n \notin failing /\ Wanted(n) =>
            \A s \in {r.sensor : r \in Range(Plan[class])} \ {0} :
                \E i \in DOMAIN sample :
                    /\ sample[i].name = n /\ sample[i].sensor = s
                    /\ \A v \in sample[i].values : v.value = d

=============================================================================
