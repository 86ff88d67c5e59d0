----------------------------- MODULE MountTable -----------------------------
(***************************************************************************)
(* What the filesystem collector measures: /proc/self/mounts is read and   *)
(* parsed, and then every mount point that was found is handed to statvfs, *)
(* while mounts come and go.  Deadlines and threads are the business of    *)
(* FilesystemCollector.tla; here a call is answered or given up.           *)
(***************************************************************************)
EXTENDS Procfs, SequencesExt

CONSTANTS
    Path,       \* mount points
    BadPath,    \* those whose name is not UTF-8
    Disk,       \* filesystems worth measuring
    Other,      \* those of a skipped type or without a device
    MaxMounts   \* bound: lines of the mount table

ASSUME MountTableAssumption ==
    /\ Disk \intersect Other = {}
    /\ "parent" \notin Disk \union Other
    /\ BadPath \subseteq Path
    /\ MaxMounts \in Nat

VARIABLES
    mounts,     \* what parse_mounts made of the text
    pos,        \* the mount collect() is at; 0 while it is not measuring
    stuck,      \* per path, the call that was given up: blocked or finished,
                \* and the filesystem it was made on
    sample,     \* the records so far
    touched,    \* history: the paths where something was mounted or unmounted
                \* since the file was opened or since the call in stuck
    torn        \* history: a line was removed that this cycle had read already,
                \* so that the lines behind it moved past the reader

tableVars == <<mounts, pos, stuck, sample, touched, torn>>
vars == <<procfsVars, tableVars>>

Line == [path : Path, fs : Disk \union Other]

\* The lines that may come.
ASSUME LineAssumption ==
    /\ Piece \subseteq Line
    /\ Invalid = {line \in Piece : line.path \in BadPath}

Calls == [state : {"absent", "blocked", "finished"},
          fs : Disk \union Other \union {"parent"}]
NoCall == [state |-> "absent", fs |-> "parent"]
Record == [path : Path, fs : Disk, measured : Disk \union Other \union {"parent"}]

TypeOK ==
    /\ ProcfsTypeOK
    /\ Len(file) <= MaxMounts
    /\ mounts \in Seq([path : Path, fs : Disk])
    /\ pos \in 0..Len(mounts) + 1
    /\ stuck \in [Path -> Calls]
    /\ sample \in Seq(Record)
    /\ touched \subseteq Path
    /\ torn \in BOOLEAN

Init ==
    /\ ProcfsInit
    /\ file = <<>>
    /\ mounts = <<>>
    /\ pos = 0
    /\ stuck = [path \in Path |-> NoCall]
    /\ sample = <<>>
    /\ touched = {}
    /\ torn = FALSE

-----------------------------------------------------------------------------
(* The mount table *)

LinesAt(path) == {i \in 1..Len(file) : file[i].path = path}

IsTop(i, path) == i \in LinesAt(path) /\ \A j \in LinesAt(path) : j <= i

\* What a process finds at the path: the filesystem mounted there last, or else
\* the one that the directory belongs to.
Seen(path) ==
    IF LinesAt(path) = {} THEN "parent"
    ELSE file[CHOOSE i \in LinesAt(path) : IsTop(i, path)].fs

Mounts(line) ==
    /\ Len(file) < MaxMounts
    /\ Changes(Append(file, line))
    /\ touched' = touched \union {line.path}
    /\ UNCHANGED <<mounts, pos, stuck, sample, torn>>

Unmounts(path) ==
    /\ \E i \in 1..Len(file) :
           /\ IsTop(i, path)
           /\ Changes(RemoveAt(file, i))
           /\ torn' = (torn \/ (reader = "reading" /\ i <= Len(buf)))
    /\ touched' = touched \union {path}
    /\ UNCHANGED <<mounts, pos, stuck, sample>>

-----------------------------------------------------------------------------
(* collect() *)

MutEnter(parsed, line) ==
    IF line.fs \notin Disk \/ line.path \in DOMAIN parsed.by_path THEN parsed
    ELSE [by_path |-> (line.path :> line) @@ parsed.by_path,
          order |-> Append(parsed.order, line.path)]

\* One round of the for loop of parse_mounts.
Enter(parsed, line) ==
    IF line.fs \notin Disk THEN parsed
    ELSE [by_path |-> [path \in DOMAIN parsed.by_path \union {line.path} |->
                          IF path = line.path THEN line ELSE parsed.by_path[path]],
          order |-> IF line.path \in DOMAIN parsed.by_path THEN parsed.order
                    ELSE Append(parsed.order, line.path)]

MutParse(lines) == SelectSeq(lines, LAMBDA line : line.fs \in Disk)

parse_mounts(lines) ==
    LET parsed == FoldLeft(Enter, [by_path |-> <<>>, order |-> <<>>], lines)
    IN [i \in 1..Len(parsed.order) |-> parsed.by_path[parsed.order[i]]]

Waits == pos = 0 /\ UNCHANGED <<mounts, pos, stuck, sample>>

StartsCollect ==
    /\ Waits
    /\ Opens \/ OpenFails
    /\ touched' = {path \in touched : stuck[path].state # "absent"}
    /\ torn' = FALSE

ReadsOn == Waits /\ (Reads \/ ReadFails) /\ UNCHANGED <<touched, torn>>

\* The text is parsed in the same poll.
Parses ==
    /\ pos = 0
    /\ ReachesEnd
    /\ IF result' = "ok"
       THEN /\ mounts' = parse_mounts(buf)
            /\ pos' = 1
       ELSE UNCHANGED <<mounts, pos>>
    /\ UNCHANGED <<stuck, sample, touched, torn>>

NextMount == pos' = pos + 1

Here == mounts[pos].path

InLoop == pos \in 1..Len(mounts)

Measures(fs) ==
    sample' = Append(sample, [path |-> Here, fs |-> mounts[pos].fs, measured |-> fs])

\* A fresh call that answers in time.
Answers ==
    /\ InLoop
    /\ stuck[Here].state = "absent"
    /\ Measures(Seen(Here))
    /\ NextMount
    /\ UNCHANGED <<procfsVars, mounts, stuck, touched, torn>>

\* A fresh call that fails.
StatvfsFails ==
    /\ InLoop
    /\ stuck[Here].state = "absent"
    /\ NextMount
    /\ UNCHANGED <<procfsVars, mounts, stuck, sample, touched, torn>>

\* A fresh call that misses its deadline: the path was looked up when it was made.
GivesUp ==
    /\ InLoop
    /\ stuck[Here].state = "absent"
    /\ stuck' = [stuck EXCEPT ![Here] = [state |-> "blocked", fs |-> Seen(Here)]]
    /\ NextMount
    /\ UNCHANGED <<procfsVars, mounts, sample, touched, torn>>

SkipsBlocked ==
    /\ InLoop
    /\ stuck[Here].state = "blocked"
    /\ NextMount
    /\ UNCHANGED <<procfsVars, mounts, stuck, sample, touched, torn>>

\* The result of the old call, numbers or an error, is that of this cycle.
TakesFinished ==
    /\ InLoop
    /\ stuck[Here].state = "finished"
    /\ Measures(stuck[Here].fs) \/ UNCHANGED sample
    /\ stuck' = [stuck EXCEPT ![Here] = NoCall]
    /\ NextMount
    /\ UNCHANGED <<procfsVars, mounts, touched, torn>>

\* collect() returns the sample or, COLLECT_TIMEOUT being over, is dropped where
\* it awaits.
Ends ==
    /\ pos # 0
    /\ pos' = 0
    /\ mounts' = <<>>
    /\ sample' = <<>>
    /\ UNCHANGED <<procfsVars, stuck, touched, torn>>

\* A call that was given up returns.
Returns(path) ==
    /\ stuck[path].state = "blocked"
    /\ stuck' = [stuck EXCEPT ![path].state = "finished"]
    /\ UNCHANGED <<procfsVars, mounts, pos, sample, touched, torn>>

Collecting ==
    \/ StartsCollect \/ ReadsOn \/ Parses
    \/ Answers \/ StatvfsFails \/ GivesUp \/ SkipsBlocked \/ TakesFinished \/ Ends

Next ==
    \/ Collecting
    \/ \E path \in Path : Returns(path) \/ Unmounts(path)
    \/ \E line \in Piece : Mounts(line)

Spec == Init /\ [][Next]_vars

-----------------------------------------------------------------------------
(* Properties *)

\* No mount point is measured twice for one sample, even if the table was torn
\* between two reads (filesys.rs:95-129).
OnePerPath ==
    \A i, j \in 1..Len(sample) : sample[i].path = sample[j].path => i = j

\* The numbers of a record are those of the filesystem it names, unless the
\* mount point was mounted over by something that is skipped, or changed hands
\* since the table was read or since the late call was made, or the table was
\* torn by an unmount between two reads of it (filesys.rs:189-209, 217-236).
RecordsAreOfTheirDisk ==
    [][\A i \in 1..Len(sample') :
           \/ i <= Len(sample)
           \/ torn
           \/ sample'[i].path \in touched
           \/ Seen(sample'[i].path) \in Other
           \/ sample'[i].measured = sample'[i].fs]_vars

=============================================================================
