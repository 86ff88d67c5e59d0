-------------------------------- MODULE Sysfs --------------------------------
(***************************************************************************)
(* The collectors that walk a class directory of sysfs: hwmon, thermal,    *)
(* power supplies and memory controllers.  A walk lists the devices and    *)
(* then opens one small file after the other by its path, while devices    *)
(* are unplugged and others get their names.                               *)
(***************************************************************************)
EXTENDS Integers, Sequences, FiniteSets, SequencesExt

CONSTANTS
    Class,      \* the collectors to be checked
    Name,       \* directories of the class, in their order: <<name, ...>>
    Foreign,    \* those that are something else than a device of the class
    Device,     \* what may be plugged in
    None,       \* no device
    MaxChanges, \* bound: devices plugged and unplugged
    MaxWalks    \* bound: calls of collect()

ASSUME SysfsAssumption ==
    /\ Class \subseteq {"hwmon", "thermal", "power", "edac"}
    /\ Name \in Seq(Range(Name))
    /\ Foreign \subseteq Range(Name)
    /\ None \notin Device \union Range(Name)
    /\ MaxChanges \in Nat
    /\ MaxWalks \in Nat

VARIABLES
    class,      \* the collector
    dev,        \* per name, the device there
    left,       \* names that the walk has still to enter
    at,         \* the device it is in: its name, or None
    opened,     \* hwmon: the directory that was opened
    step,       \* the next read of the plan
    got,        \* what was read of this device
    sample,     \* the records
    walks,      \* number of calls; the last is over when left is empty
    changes,
    held,       \* history: per name, the devices that were there while the walk
                \* was in it; before that, the one that was listed
    failing     \* history: names where a read failed though a device was there

walkVars == <<left, at, opened, step, got, sample, walks, failing>>
kernelVars == <<dev, changes, held>>
sysfsVars == <<class, walkVars, kernelVars>>

\* A read of the walk: of one sensor, or of all of a device (0).  Without what
\* is required there is no record of the sensor.
Read(kind, attr, sensor) == [kind |-> kind, attr |-> attr, sensor |-> sensor]

\* Two sensors stand for those of a chip, one number for the ten of a supply,
\* and one read for the labels of the memory modules.
Plan == [
    hwmon |-> <<Read("open", "dir", 0), Read("optional", "name", 0), Read("list", "dir", 0),
                Read("required", "input", 1), Read("optional", "label", 1),
                Read("required", "input", 2), Read("optional", "label", 2)>>,
    thermal |-> <<Read("required", "temp", 1), Read("optional", "type", 1)>>,
    power |-> <<Read("optional", "type", 1), Read("optional", "status", 1),
                Read("optional", "number", 1)>>,
    edac |-> <<Read("optional", "labels", 1), Read("optional", "ce_count", 1),
               Read("optional", "ue_count", 1)>>]

Values == [attr : {r.attr : r \in UNION {Range(Plan[c]) : c \in DOMAIN Plan}},
           sensor : 0..2, value : Device \union {None}]

\* thermal and edac look at the name of a directory.
Wanted(name) == class \in {"thermal", "edac"} => name \notin Foreign

SysfsInit(collector, devices) ==
    /\ class = collector
    /\ dev = devices
    /\ left = {}
    /\ at = None
    /\ opened = None
    /\ step = 1
    /\ got = {}
    /\ sample = <<>>
    /\ walks = 0
    /\ changes = 0
    /\ held = [n \in Range(Name) |-> {dev[n]}]
    /\ failing = {}

-----------------------------------------------------------------------------
(* One call of collect() *)

\* read_dir of the class: all its names, or an error and no sample.
Lists ==
    /\ left = {} /\ at = None
    /\ walks < MaxWalks
    /\ walks' = walks + 1
    /\ \/ left' = {n \in Range(Name) : dev[n] # None /\ Wanted(n)} /\ failing' = {}
       \/ left' = {} /\ failing' = Range(Name)
    /\ sample' = <<>>
    /\ held' = [n \in Range(Name) |-> {dev[n]}]
    /\ UNCHANGED <<class, dev, changes, at, opened, step, got>>

MutEnters ==
    /\ at = None
    /\ \E n \in left :
           at' = n /\ left' = left \ {n} /\ held' = [held EXCEPT ![n] = {dev[n]}]
    /\ step' = 1
    /\ UNCHANGED <<class, dev, changes, opened, got, sample, walks, failing>>

\* The devices come in the order of the directory, which is any.
Enters ==
    /\ at = None
    /\ \E n \in left :
           at' = n /\ left' = left \ {n} /\ held' = [held EXCEPT ![n] = {dev[n]}]
    /\ step' = 1
    /\ got' = {}
    /\ UNCHANGED <<class, dev, changes, opened, sample, walks, failing>>

Position(n) == CHOOSE i \in 1..Len(Name) : Name[i] = n

\* By name and sensor, equal ones as they came.
Precedes(records, i, j) ==
    LET p == Position(records[i].name)
        q == Position(records[j].name)
    IN  \/ p < q
        \/ p = q /\ records[i].sensor < records[j].sensor
        \/ p = q /\ records[i].sensor = records[j].sensor /\ i <= j

\* sort_by: each record goes behind all that precede it.
Sorted(records) ==
    LET Rank(j) == Cardinality({i \in DOMAIN records : Precedes(records, i, j)})
    IN  [k \in DOMAIN records |-> records[CHOOSE j \in DOMAIN records : Rank(j) = k]]

\* The device is finished, and with the last one the walk.
Leaves(records) ==
    /\ at' = None
    /\ left' = left
    /\ sample' = IF left = {} THEN Sorted(records) ELSE records

MutSkips == at' = None /\ left' = {} /\ sample' = Sorted(sample)

\* continue of the loop over the devices.
Skips == Leaves(sample)

\* What follows the reads of one sensor.
Proceeds(next, records) ==
    IF next > Len(Plan[class]) THEN Leaves(records) /\ UNCHANGED step
    ELSE step' = next /\ sample' = records /\ UNCHANGED <<at, left>>

\* The last read of a sensor completes its record.
WithRecord(known) ==
    LET sensor == Plan[class][step].sensor
        last == step = Len(Plan[class]) \/ Plan[class][step + 1].sensor # sensor
    IN  IF last
        THEN Append(sample, [name |-> at, sensor |-> sensor,
                             values |-> {v \in known : v.sensor \in {0, sensor}}])
        ELSE sample

\* Where the reads of the next sensor begin.
NextSensor ==
    CHOOSE i \in step..Len(Plan[class]) + 1 :
        /\ i = Len(Plan[class]) + 1 \/ Plan[class][i].sensor # Plan[class][step].sensor
        /\ \A j \in step..i - 1 : Plan[class][j].sensor = Plan[class][step].sensor

Know(value) ==
    got \union {[attr |-> Plan[class][step].attr, sensor |-> Plan[class][step].sensor,
                 value |-> value]}

\* A file of the device that is there now is read, or its content parsed.
ReadsFile ==
    /\ at # None
    /\ Plan[class][step].kind \in {"required", "optional"}
    /\ dev[at] # None
    /\ got' = Know(dev[at])
    /\ Proceeds(step + 1, WithRecord(Know(dev[at])))
    /\ UNCHANGED <<class, kernelVars, opened, walks, failing>>

\* It cannot be: there is no device, or the driver reports an error.
FileFails ==
    /\ at # None
    /\ failing' = IF dev[at] = None THEN failing ELSE failing \union {at}
    /\ \/ /\ Plan[class][step].kind = "required"
          /\ Proceeds(NextSensor, sample)
          /\ UNCHANGED <<got, opened>>
       \/ /\ Plan[class][step].kind = "optional"
          /\ Proceeds(step + 1, WithRecord(Know(None)))
          /\ got' = Know(None)
          /\ UNCHANGED opened
       \/ /\ Plan[class][step].kind \in {"open", "list"}
          /\ Skips
          /\ opened' = None
          /\ UNCHANGED <<step, got>>
    /\ UNCHANGED <<class, kernelVars, walks>>

\* hwmon: read_dir of the device.
Opens ==
    /\ at # None
    /\ Plan[class][step].kind = "open"
    /\ dev[at] # None
    /\ opened' = dev[at]
    /\ step' = step + 1
    /\ UNCHANGED <<class, kernelVars, at, left, got, sample, walks, failing>>

\* The directory that was opened is listed after the next read; when its device
\* has gone it is empty.
ListsFiles ==
    /\ at # None
    /\ Plan[class][step].kind = "list"
    /\ dev[at] = opened
    /\ opened' = None
    /\ step' = step + 1
    /\ UNCHANGED <<class, kernelVars, at, left, got, sample, walks, failing>>

Walk == Lists \/ Enters \/ ReadsFile \/ FileFails \/ Opens \/ ListsFiles

-----------------------------------------------------------------------------
(* The kernel *)

Becomes(n, device) ==
    /\ changes < MaxChanges
    /\ changes' = changes + 1
    /\ dev' = [dev EXCEPT ![n] = device]
    /\ held' = [held EXCEPT ![n] = IF n = at THEN @ \union {device} ELSE @]
    /\ UNCHANGED <<class, walkVars>>

Unplugs(n) == dev[n] # None /\ Becomes(n, None)

\* A name that is free is given to the next device.
Plugs(n, device) == dev[n] = None /\ device \notin Range(dev) /\ Becomes(n, device)

Hotplug == \E n \in Range(Name) : Unplugs(n) \/ \E d \in Device : Plugs(n, d)

WalkDone == walks = MaxWalks /\ left = {} /\ at = None

=============================================================================
