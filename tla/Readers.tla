------------------------------- MODULE Readers -------------------------------
(***************************************************************************)
(* The parsers of the collectors that read kernel files.  A line says what *)
(* it is about and has columns, some of which are not numbers.  A record   *)
(* holds, for each of its values, where it comes from: line and column.    *)
(***************************************************************************)
EXTENDS Integers, Sequences, FiniteSets, SequencesExt

\* of: the first token, a CPU, device, key or protocol; "" for a blank line and
\* "other" for one that the parser does not look for.  n: the columns behind it.
Line(of, n, bad) == [of |-> of, n |-> n, bad |-> bad]

Absent == <<0, 0>>
Bad == <<0, -1>>

Text(file, l, c) == IF c \in 1..file[l].n THEN <<l, c>> ELSE Absent

\* parse: the column as a number.
At(file, l, c) == IF c \in file[l].bad THEN Bad ELSE Text(file, l, c)

Done(stats) == [ok |-> TRUE, stats |-> stats]
Fail == [ok |-> FALSE, stats |-> <<>>]
Skip == Done(<<>>)

Record(label, l, values) == <<[label |-> label, line |-> l, values |-> values]>>

MutColumns(file, l, need, most) ==
    LET values == [c \in 1..most |-> At(file, l, c)]
    IN  IF file[l].n < need THEN Fail ELSE Done(Record(file[l].of, l, values))

\* next_field for the columns that must be there, parse for those that may.
Columns(file, l, need, most) ==
    LET values == [c \in 1..most |-> At(file, l, c)]
    IN  IF file[l].n < need \/ Bad \in Range(values) THEN Fail
        ELSE Done(Record(file[l].of, l, values))

\* What a loop makes of its rounds, each of which skips, adds records or returns
\* an error.
Rows(rows) ==
    IF \E i \in DOMAIN rows : ~rows[i].ok THEN Fail
    ELSE Done(FlattenSeq([i \in DOMAIN rows |-> rows[i].stats]))

-----------------------------------------------------------------------------
(* One record per line; a malformed line fails the sample *)

IsCpu(line) == line.of # "other"

\* The loop breaks at the first other line behind a CPU.
Reaches(file, l) == \A k \in 1..l : IsCpu(file[k]) \/ \A j \in 1..k : ~IsCpu(file[j])

MutCpu(file) ==
    LET rows == Rows([l \in DOMAIN file |->
                    IF IsCpu(file[l]) THEN Columns(file, l, 8, 10) ELSE Skip])
    IN  IF rows.stats = <<>> THEN Fail ELSE rows

Cpu(file) ==
    LET rows == Rows([l \in DOMAIN file |->
                    IF IsCpu(file[l]) /\ Reaches(file, l) THEN Columns(file, l, 7, 10) ELSE Skip])
    IN  IF rows.stats = <<>> THEN Fail ELSE rows

\* Lines of less than three tokens name no device.
Disk(file) ==
    Rows([l \in DOMAIN file |-> IF file[l].of = "other" THEN Skip ELSE Columns(file, l, 11, 11)])

\* Of the numbers that were read, those that the record has.
Kept(read, columns) ==
    IF read.ok
    THEN Done(<<[read.stats[1] EXCEPT !.values = [i \in DOMAIN columns |-> @[columns[i]]]]>>)
    ELSE Fail

\* Behind two lines of headings.  Of 12 numbers 8 are kept.
Network(file) ==
    Rows([l \in DOMAIN file |->
        IF l <= 2 \/ file[l].of = "other" THEN Skip
        ELSE Kept(Columns(file, l, 12, 12), <<1, 2, 3, 4, 9, 10, 11, 12>>)])

\* The index of the line is taken for the CPU.  The last two columns are newer
\* than the first three; the others are not looked at.
Softnet(file) ==
    Rows([l \in DOMAIN file |->
        LET read == [i \in 1..5 |-> At(file, l, IF i <= 3 THEN i ELSE i + 6)]
        IN  IF file[l].n < 3 THEN Skip
            ELSE IF Bad \in Range(read) THEN Fail
            ELSE Done(Record(ToString(l - 1), l, read))])

\* Whatever comes before the last three columns.
Schedstat(file) ==
    Rows([l \in DOMAIN file |->
        LET last == [i \in 1..3 |-> At(file, l, file[l].n - 3 + i)]
        IN  IF ~IsCpu(file[l]) THEN Skip
            ELSE IF file[l].n < 9 \/ Bad \in Range(last) THEN Fail
            ELSE Done(Record(file[l].of, l, last))])

\* Files of which one line is read.
OneLine(file, l, need) == IF Len(file) < l THEN Fail ELSE Columns(file, l, need, need)

Ipvs(file) == OneLine(file, 3, 5)

\* The last column is running/total, malformed if either is or the slash is missing.
LoadAverage(file) == OneLine(file, 1, 4)

FileFd(file) == Kept(OneLine(file, 1, 3), <<1, 3>>)

Uptime(file) == OneLine(file, 1, 2)

-----------------------------------------------------------------------------
(* One record from lines with keys *)

StatKeys == {"btime", "processes", "intr"}
ProcessKeys == {"processes", "procs_running", "procs_blocked", "ctxt"}
RamKeys == {"MemTotal", "MemFree", "MemAvailable", "Buffers", "Cached", "SwapTotal", "SwapFree"}

KeyLines(file, keys) == {l \in 1..Len(file) : file[l].of \in keys}

\* Each key has the value that was read last, 0 without one.
Slots(file, keys) ==
    LET Lines(key) == {l \in KeyLines(file, {key}) : file[l].n > 0}
    IN  [key \in keys |-> IF Lines(key) = {} THEN Absent ELSE <<Max(Lines(key)), 1>>]

\* The lines that were found are counted.
Counted(file, keys) ==
    IF \/ \E l \in KeyLines(file, keys) : At(file, l, 1) \in {Absent, Bad}
       \/ Cardinality(KeyLines(file, keys)) < Cardinality(keys)
    THEN Fail ELSE Done(<<Slots(file, keys)>>)

Stat(file) == Counted(file, StatKeys)

Processes(file) == Counted(file, ProcessKeys)

\* A key may be missing or have no value, but for the total.
Ram(file) ==
    IF \/ \E l \in KeyLines(file, RamKeys) : At(file, l, 1) = Bad
       \/ Slots(file, RamKeys)["MemTotal"] = Absent
    THEN Fail ELSE Done(<<Slots(file, RamKeys)>>)

-----------------------------------------------------------------------------
(* Lenient parsers: what cannot be read is left out *)

\* A name in column c of line l and a number in column d of line m.
Pair(file, l, c, m, d) ==
    IF At(file, m, d) = Bad THEN Skip ELSE Done(Record(file[l].of, l, <<<<l, c>>, <<m, d>>>>))

\* Lines are taken in twos, names and values; those of which one is blank are
\* skipped.  Names and values are zipped before a value is parsed.
Netstat(file) ==
    LET Zipped(l) == IF file[l].n < file[l + 1].n THEN file[l].n ELSE file[l + 1].n
    IN  Rows([l \in DOMAIN file |->
            IF l % 2 = 0 \/ l = Len(file) \/ "" \in {file[l].of, file[l + 1].of} THEN Skip
            ELSE Rows([k \in 1..Zipped(l) |-> Pair(file, l, k, l + 1, k)])])

\* Behind the protocol, a name and a value in turn.
Sockstat(file) ==
    Rows([l \in DOMAIN file |->
        Rows([k \in 1..file[l].n \div 2 |-> Pair(file, l, 2 * k - 1, l, 2 * k)])])

Vmstat(file) ==
    Rows([l \in DOMAIN file |->
        IF At(file, l, 1) \in {Absent, Bad} THEN Skip ELSE Columns(file, l, 1, 1)])

\* Texts, behind a line of headings.
Arp(file) ==
    Rows([l \in DOMAIN file |->
        IF l = 1 \/ file[l].n < 5 THEN Skip
        ELSE Done(Record(file[l].of, l, [c \in 1..5 |-> Text(file, l, c)]))])

\* Three states and what follows them, the description, which may be empty.
Units(file) ==
    Rows([l \in DOMAIN file |->
        IF file[l].n < 3 THEN Skip
        ELSE Done(Record(file[l].of, l, [c \in 1..4 |-> Text(file, l, c)]))])

=============================================================================
