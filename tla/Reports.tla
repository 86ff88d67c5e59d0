------------------------------- MODULE Reports -------------------------------
(***************************************************************************)
(* The collectors whose source is not a table: RAID arrays that are told   *)
(* over several lines, the pressure files, numbers in files of their own,  *)
(* the names in the table of mounts and the clock.                         *)
(***************************************************************************)
EXTENDS Readers

-----------------------------------------------------------------------------
(* mdraid *)

\* A line of /proc/mdstat: an array with its tokens, a "blocks" line with the
\* geometry <<n, m>> if it shows one, the progress of an action, or another.
MdLine(kind, tokens, geometry, action, percent) ==
    [kind |-> kind, tokens |-> tokens, geometry |-> geometry, action |-> action, percent |-> percent]

Member == {"sd", "sd(F)", "sd(S)"}

\* is_level.
Level == {"raid"}

Counts(tokens, kinds) == Cardinality({i \in DOMAIN tokens : tokens[i] \in kinds})

\* The words in front of the first level are the state, those behind it are
\* not; members are counted wherever they stand.
Header(tokens) ==
    LET levels == {i \in DOMAIN tokens : tokens[i] \in Level}
        words == {i \in DOMAIN tokens : tokens[i] = "word" /\ \A j \in levels : i < j}
    IN  [words |-> Cardinality(words),
         level |-> levels # {},
         total |-> Counts(tokens, Member),
         active |-> Counts(tokens, {"sd"}),
         failed |-> Counts(tokens, {"sd(F)"}),
         spare |-> Counts(tokens, {"sd(S)"}),
         degraded |-> FALSE,
         action |-> "none",
         percent |-> FALSE]

MutScan(stats, line) ==
    LET current == Len(stats)
    IN  IF line.kind = "array" THEN Append(stats, Header(line.tokens))
        ELSE IF stats = <<>> THEN stats
        ELSE IF line.kind = "blocks" /\ line.geometry # <<>>
        THEN [stats EXCEPT ![1].total = line.geometry[1],
                           ![1].active = line.geometry[2],
                           ![1].degraded = line.geometry[2] < line.geometry[1]]
        ELSE IF line.kind = "progress"
        THEN [stats EXCEPT ![current].action = line.action, ![current].percent = line.percent]
        ELSE stats

\* One line; what is not an array is about the array that was named last.
Scan(stats, line) ==
    LET current == Len(stats)
    IN  IF line.kind = "array" THEN Append(stats, Header(line.tokens))
        ELSE IF stats = <<>> THEN stats
        ELSE IF line.kind = "blocks" /\ line.geometry # <<>>
        THEN [stats EXCEPT ![current].total = line.geometry[1],
                           ![current].active = line.geometry[2],
                           ![current].degraded = line.geometry[2] < line.geometry[1]]
        ELSE IF line.kind = "progress"
        THEN [stats EXCEPT ![current].action = line.action, ![current].percent = line.percent]
        ELSE stats

MdRaid(file) == Done(FoldLeft(Scan, <<>>, file))

-----------------------------------------------------------------------------
(* pressure *)

\* What the last line of a kind says; its columns are avg10, avg60, avg300 and
\* total, by their keys.  A line that is of neither kind is parsed all the same.
LinesOf(file, kind) == {l \in 1..Len(file) : file[l].of = kind}

MutStall(file, kind) ==
    LET With(c) == {l \in 1..Max(LinesOf(file, kind)) : c <= file[l].n}
    IN  IF LinesOf(file, kind) = {} THEN Absent
        ELSE [c \in 1..4 |-> IF With(c) = {} THEN Absent ELSE At(file, Max(With(c)), c)]

Stall(file, kind) ==
    IF LinesOf(file, kind) = {} THEN Absent
    ELSE [c \in 1..4 |-> At(file, Max(LinesOf(file, kind)), c)]

\* Without a line of some there is nothing; any malformed column fails.
Resource(metric_type, file) ==
    IF LinesOf(file, "some") = {} \/ \E l \in 1..Len(file) : file[l].bad \intersect 1..4 # {}
    THEN Fail
    ELSE Done(<<[metric_type |-> metric_type,
                 some |-> Stall(file, "some"), full |-> Stall(file, "full")]>>)

Unsupported == [ok |-> FALSE, stats |-> <<"unsupported">>]

\* A resource whose file is absent is left out; without any there is nothing to
\* report.
Pressure(files) ==
    IF \A r \in DOMAIN files : files[r].state = "absent" THEN Unsupported
    ELSE Rows([r \in DOMAIN files |-> IF files[r].state = "absent" THEN Skip
                                      ELSE IF files[r].state = "unreadable" THEN Fail
                                      ELSE Resource(r, files[r].lines)])

-----------------------------------------------------------------------------
(* Numbers in files of their own *)

\* read_number: the whole text, without the white space at its end, is the number.
ReadNumber(file) ==
    IF file.state # "there" \/ Len(file.lines) # 1 THEN Fail
    ELSE IF file.lines[1].n # 1 THEN Fail
    ELSE Columns(file.lines, 1, 1, 1)

Entropy(file) == ReadNumber(file)

\* The count and then the maximum; the module may go in between.
Conntrack(files) ==
    IF files[1].state = "absent" THEN Unsupported
    ELSE Rows([i \in DOMAIN files |-> ReadNumber(files[i])])

-----------------------------------------------------------------------------
(* Mount points, in bytes *)

Backslash == 92
Digit == 48..55

MutUnescape(field) ==
    LET Escaped(i) == field[i] = Backslash /\ i + 3 < Len(field)
                      /\ \A k \in 1..3 : field[i + k] \in Digit
        from[i \in 1..Len(field) + 1] ==
            IF i > Len(field) THEN <<>>
            ELSE IF Escaped(i)
            THEN <<((field[i + 1] - 48) * 64 + (field[i + 2] - 48) * 8 + field[i + 3] - 48) % 256>>
                 \o from[i + 4]
            ELSE <<field[i]>> \o from[i + 1]
    IN  from[1]

\* unescape_mount_field: a backslash and three octal digits are one byte; what
\* is not such an escape is taken as it is.
Unescape(field) ==
    LET Escaped(i) == field[i] = Backslash /\ i + 3 <= Len(field)
                      /\ \A k \in 1..3 : field[i + k] \in Digit
        from[i \in 1..Len(field) + 1] ==
            IF i > Len(field) THEN <<>>
            ELSE IF Escaped(i)
            THEN <<((field[i + 1] - 48) * 64 + (field[i + 2] - 48) * 8 + field[i + 3] - 48) % 256>>
                 \o from[i + 4]
            ELSE <<field[i]>> \o from[i + 1]
    IN  from[1]

\* The kernel writes white space and the backslash itself as escapes.
Mangled(path) ==
    FlattenSeq([i \in DOMAIN path |->
        IF path[i] \in {9, 10, 32, Backslash}
        THEN <<Backslash, 48 + path[i] \div 64, 48 + ((path[i] \div 8) % 8), 48 + (path[i] % 8)>>
        ELSE <<path[i]>>])

MountPoint(path) == Done(<<Unescape(Mangled(path))>>)

-----------------------------------------------------------------------------
(* ntp *)

TIME_ERROR == 5

\* The offset comes in nanoseconds under STA_NANO, else in microseconds; in the
\* record it is a number of milliseconds, here of nanoseconds.
FromTimex(state, flags, offset) ==
    [synchronized |-> state # TIME_ERROR /\ "unsync" \notin flags,
     clock_state |-> state,
     offset |-> IF "nano" \in flags THEN offset ELSE 1000 * offset]

\* adjtimex; a negative result is an error.
Ntp(timex) ==
    IF timex.state < 0 THEN Fail
    ELSE Done(<<FromTimex(timex.state, timex.flags, timex.offset)>>)

=============================================================================
