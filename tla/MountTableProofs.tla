--------------------------- MODULE MountTableProofs ---------------------------
(***************************************************************************)
(* What ProcFile promises to the filesystem collector, for any file, any   *)
(* chunk and any way the reads are cut: a read that succeeds returns the   *)
(* whole file, and the buffer is not reallocated for a text no longer than *)
(* one before.  What the collector makes of it, for any table: no mount    *)
(* point twice, and under each the filesystem that was measured.           *)
(***************************************************************************)
EXTENDS MountTable, SequenceTheorems, DataTheorems, TLAPS

\* The steps of Procfs.tla, with the kernel's as MountTable.tla has it.
ReaderStep ==
    \/ Opens \/ OpenFails \/ Reads \/ ReachesEnd \/ ReadFails
    \/ \E next \in Seq(Piece) : Changes(next)
    \/ UNCHANGED procfsVars

\* Removing one line of a mount table leaves a mount table.
LEMMA RemoveAtType ==
    ASSUME NEW S, NEW s \in Seq(S), NEW i \in 1..Len(s)
    PROVE  RemoveAt(s, i) \in Seq(S)
  <1>1. SubSeq(s, 1, i - 1) \in Seq(S)
    BY SubSeqProperties
  <1>2. SubSeq(s, i + 1, Len(s)) \in Seq(S)
    BY SubSeqProperties
  <1> QED
    BY <1>1, <1>2, ConcatProperties DEF RemoveAt

LEMMA RemoveAtElements ==
    ASSUME NEW S, NEW s \in Seq(S), NEW i \in 1..Len(s)
    PROVE  /\ Len(RemoveAt(s, i)) = Len(s) - 1
           /\ \A j \in 1..Len(RemoveAt(s, i)) :
                  RemoveAt(s, i)[j] = s[IF j < i THEN j ELSE j + 1]
  <1> DEFINE head == SubSeq(s, 1, i - 1)
             tail == SubSeq(s, i + 1, Len(s))
  <1>1. head \in Seq(S) /\ Len(head) = i - 1 /\ \A j \in 1..Len(head) : head[j] = s[j]
    BY SubSeqProperties
  <1>2. /\ tail \in Seq(S) /\ Len(tail) = Len(s) - i
        /\ \A j \in 1..Len(tail) : tail[j] = s[i + j]
    BY SubSeqProperties
  <1>5. Len(s) \in Nat
    OBVIOUS
  <1> HIDE DEF head, tail
  <1>3. /\ Len(head \o tail) = Len(head) + Len(tail)
        /\ \A j \in 1..Len(head \o tail) :
               (head \o tail)[j] = IF j <= Len(head) THEN head[j] ELSE tail[j - Len(head)]
    <2>1. head \in Seq(S) /\ tail \in Seq(S)
      BY <1>1, <1>2
    <2> QED
      BY <2>1, ConcatProperties
  <1>4. RemoveAt(s, i) = head \o tail
    BY DEF RemoveAt, head, tail
  <1>6. Len(head \o tail) = Len(s) - 1
    BY <1>1, <1>2, <1>3, <1>5
  <1>7. ASSUME NEW j \in 1..Len(head \o tail)
        PROVE  (head \o tail)[j] = s[IF j < i THEN j ELSE j + 1]
    <2>1. CASE j < i
      BY <1>1, <1>3, <1>5, <2>1
    <2>2. CASE ~(j < i)
      <3>1. j - Len(head) \in 1..Len(tail) /\ i + (j - Len(head)) = j + 1 /\ ~(j <= Len(head))
        BY <1>1, <1>2, <1>5, <1>6, <2>2
      <3> QED
        BY <1>2, <1>3, <2>2, <3>1
    <2> QED
      BY <2>1, <2>2
  <1> QED
    BY <1>4, <1>6, <1>7

\* Every step of the collector is one of its reader.
LEMMA CollectorIsReader ==
    ASSUME ProcfsTypeOK, [Next]_vars
    PROVE  ReaderStep
  <1>1. CASE Collecting
    BY <1>1 DEF Collecting, StartsCollect, ReadsOn, Parses, Answers, StatvfsFails,
                GivesUp, SkipsBlocked, TakesFinished, Ends, ReaderStep
  <1>2. ASSUME NEW path \in Path, Returns(path)
        PROVE  ReaderStep
    BY <1>2 DEF Returns, ReaderStep
  <1>3. ASSUME NEW path \in Path, Unmounts(path)
        PROVE  ReaderStep
    <2>1. PICK i \in 1..Len(file) : Changes(RemoveAt(file, i))
      BY <1>3 DEF Unmounts
    <2>2. RemoveAt(file, i) \in Seq(Piece)
      BY RemoveAtType DEF ProcfsTypeOK
    <2> QED
      BY <2>1, <2>2 DEF ReaderStep
  <1>4. ASSUME NEW line \in Piece, Mounts(line)
        PROVE  ReaderStep
    <2>1. Append(file, line) \in Seq(Piece)
      BY AppendProperties DEF ProcfsTypeOK
    <2> QED
      BY <1>4, <2>1 DEF Mounts, ReaderStep
  <1>5. CASE UNCHANGED vars
    BY <1>5 DEF vars, ReaderStep
  <1> QED
    BY <1>1, <1>2, <1>3, <1>4, <1>5 DEF Next

\* How far one read(2) takes the buffer: never past the room that was made.
LEMMA ResizesMakesRoom ==
    ASSUME ProcfsTypeOK, Resizes
    PROVE  /\ Want \in Nat
           /\ capacity' \in Nat
           /\ capacity' >= capacity
           /\ capacity' >= Len(buf) + CHUNK
           /\ capacity >= Len(buf) + CHUNK => capacity' = capacity
  <1>1. Len(buf) \in Nat
    BY DEF ProcfsTypeOK
  <1> QED
    BY <1>1, ProcfsAssumption DEF ProcfsTypeOK, Resizes, Want, Larger

\* A read appends what follows in the file to what has been read.
LEMMA ReadsAppends ==
    ASSUME ProcfsTypeOK, Reads
    PROVE  /\ ProcfsTypeOK'
           /\ ReadsPrefix => ReadsPrefix'
           /\ buf \in Seq(Piece) => buf' \in Seq(Piece)
  <1>1. Len(buf) \in Nat /\ Len(file) \in Nat
    BY DEF ProcfsTypeOK
  <1>2. PICK n \in 1..Want :
            /\ Len(buf) + n <= Len(file)
            /\ buf' = buf \o SubSeq(file, Len(buf) + 1, Len(buf) + n)
    BY DEF Reads
  <1>3. Want \in Nat /\ capacity' \in Nat
    BY ResizesMakesRoom DEF Reads
  <1> DEFINE part == SubSeq(file, Len(buf) + 1, Len(buf) + n)
  <1>4. /\ part \in Seq(Piece)
        /\ Len(part) = n
        /\ \A i \in 1..n : part[i] = file[Len(buf) + i]
    <2> DEFINE from == Len(buf) + 1
               to == Len(buf) + n
    <2>1. n \in Nat /\ from \in Int /\ to \in Int /\ to - from + 1 = n
          /\ \A i \in 1..n : from + i - 1 = Len(buf) + i
      BY <1>1, <1>2, <1>3
    <2>2. n >= 1 /\ from <= to
      BY <1>1, <1>2, <1>3
    <2>3. \A i \in from..to : file[i] \in Piece
      BY <1>1, <1>2, <1>3 DEF ProcfsTypeOK
    <2> HIDE DEF from, to
    <2>4. /\ SubSeq(file, from, to) \in Seq(Piece)
          /\ Len(SubSeq(file, from, to)) = to - from + 1
          /\ \A i \in 1..to - from + 1 : SubSeq(file, from, to)[i] = file[from + i - 1]
      BY <2>1, <2>2, <2>3, SubSeqProperties
    <2>5. part = SubSeq(file, from, to)
      BY DEF from, to
    <2> HIDE DEF part
    <2> QED
      BY <2>1, <2>4, <2>5
  <1>5. part \in Seq(Piece \union {NUL})
    BY <1>4
  <1>6. /\ buf' \in Seq(Piece \union {NUL})
        /\ Len(buf') = Len(buf) + n
        /\ \A i \in 1..Len(buf') :
               buf'[i] = IF i <= Len(buf) THEN buf[i] ELSE part[i - Len(buf)]
    <2>1. buf \in Seq(Piece \union {NUL}) /\ buf' = buf \o part
      BY <1>2 DEF ProcfsTypeOK
    <2>2. Len(part) = n
      BY <1>4
    <2> HIDE DEF part
    <2>3. /\ buf \o part \in Seq(Piece \union {NUL})
          /\ Len(buf \o part) = Len(buf) + Len(part)
          /\ \A i \in 1..Len(buf) + Len(part) :
                 (buf \o part)[i] = IF i <= Len(buf) THEN buf[i] ELSE part[i - Len(buf)]
      BY <1>5, <2>1, ConcatProperties, Zenon
    <2> QED
      BY <2>1, <2>2, <2>3
  <1>7. ASSUME ReadsPrefix
        PROVE  ReadsPrefix'
    <2>1. ASSUME NEW i \in 1..Len(buf')
          PROVE  buf'[i] = file[i]
      <3>1. CASE i <= Len(buf)
        BY <1>1, <1>6, <1>7, <3>1 DEF ReadsPrefix
      <3>2. CASE i > Len(buf)
        <4>1. i - Len(buf) \in 1..n
          BY <1>1, <1>2, <1>3, <1>6, <3>2
        <4> QED
          BY <1>1, <1>4, <1>6, <3>2, <4>1
      <3> QED
        BY <1>1, <3>1, <3>2
    <2> QED
      BY <1>2, <1>6, <2>1 DEF Reads, ReadsPrefix
  <1>8. buf \in Seq(Piece) => buf' \in Seq(Piece)
    BY <1>2, <1>4, ConcatProperties
  <1> QED
    BY <1>3, <1>6, <1>7, <1>8 DEF Reads, ProcfsTypeOK

\* The inductive invariant holds at the start.
LEMMA ReaderInvInit == Init => ReaderInv
  BY DEF Init, ProcfsInit, ReaderInv, ProcfsTypeOK, ReadsPrefix

\* Every step of the reader and of the kernel keeps it.
LEMMA ReaderInvStep ==
    ASSUME ReaderInv, ReaderStep
    PROVE  ReaderInv'
  <1> USE DEF ReaderInv
  <1>0. Len(buf) \in Nat /\ Len(file) \in Nat
    BY DEF ProcfsTypeOK
  <1>1. CASE Opens
    BY <1>0, <1>1 DEF Opens, ProcfsTypeOK, ReadsPrefix
  <1>2. CASE OpenFails
    BY <1>2 DEF OpenFails, ProcfsTypeOK
  <1>3. CASE Reads
    <2>1. capacity' \in Nat /\ capacity' >= capacity
      BY <1>3, ResizesMakesRoom DEF Reads
    <2>2. ProcfsTypeOK' /\ (steady' => ReadsPrefix')
      BY <1>3, ReadsAppends DEF Reads
    <2> QED
      BY <1>3, <2>1, <2>2, ProcfsAssumption DEF Reads, ProcfsTypeOK
  <1>4. CASE ReachesEnd
    <2>1. /\ Want \in Nat /\ capacity' \in Nat /\ capacity' >= capacity
          /\ capacity' >= Len(buf) + CHUNK
      BY <1>4, ResizesMakesRoom DEF ReachesEnd
    <2>2. Want > 0
      BY <1>0, ProcfsAssumption DEF Want, Larger, ProcfsTypeOK
    <2>3. ProcfsTypeOK'
      <3>1. longest' \in Nat
        BY <1>0, <1>4 DEF ReachesEnd, ProcfsTypeOK, Larger
      <3>2. buf' = <<>> \/ buf' = buf
        BY <1>4 DEF ReachesEnd
      <3>3. buf' \in Seq(Piece \union {NUL})
        BY <3>2, EmptySeq DEF ProcfsTypeOK
      <3> QED
        BY <1>4, <2>1, <3>1, <3>3 DEF ReachesEnd, ProcfsTypeOK
    <2>4. longest' >= 0 => capacity' >= longest' + CHUNK
      BY <1>0, <1>4, <2>1, ProcfsAssumption DEF ReachesEnd, ProcfsTypeOK, Larger
    <2>5. result' = "ok" /\ steady' => buf' = file'
      <3> SUFFICES ASSUME result' = "ok", steady
                   PROVE  buf' = file'
        BY <1>4 DEF ReachesEnd
      <3>1. ReadsPrefix /\ Len(buf) >= Len(file) /\ buf' = buf /\ file' = file
        BY <1>4, <2>2 DEF ReachesEnd
      <3>2. Len(buf) = Len(file) /\ \A i \in 1..Len(buf) : buf[i] = file[i]
        BY <1>0, <3>1 DEF ReadsPrefix
      <3>3. buf \in Seq(Piece \union {NUL}) /\ file \in Seq(Piece \union {NUL})
        BY DEF ProcfsTypeOK
      <3>4. buf = file
        BY <3>2, <3>3, SeqEqual
      <3> QED
        BY <3>1, <3>4
    <2> QED
      BY <1>4, <2>3, <2>4, <2>5 DEF ReachesEnd
  <1>5. CASE ReadFails
    <2>1. Want \in Nat /\ capacity' \in Nat /\ capacity' >= capacity
      BY <1>5, ResizesMakesRoom DEF ReadFails
    <2> DEFINE filler == [i \in 1..Want |-> NUL]
    <2>2. filler \in Seq(Piece \union {NUL})
      BY <2>1
    <2>3. buf \o filler \in Seq(Piece \union {NUL})
      BY <2>2, ConcatProperties DEF ProcfsTypeOK
    <2>4. buf' \in Seq(Piece \union {NUL})
      BY <1>5, <2>3, EmptySeq DEF ReadFails
    <2>5. ProcfsTypeOK'
      BY <1>5, <2>1, <2>4 DEF ReadFails, ProcfsTypeOK
    <2>6. longest' >= 0 => capacity' >= longest' + CHUNK
      BY <1>5, <2>1, ProcfsAssumption DEF ReadFails, ProcfsTypeOK
    <2> QED
      BY <1>5, <2>5, <2>6 DEF ReadFails
  <1>6. ASSUME NEW next \in Seq(Piece), Changes(next)
        PROVE  ReaderInv'
    BY <1>6 DEF Changes, readVars, ProcfsTypeOK
  <1>7. CASE UNCHANGED procfsVars
    BY <1>7 DEF procfsVars, readVars, ProcfsTypeOK, ReadsPrefix
  <1> QED
    BY <1>1, <1>2, <1>3, <1>4, <1>5, <1>6, <1>7 DEF ReaderStep

\* ReaderInv holds in every reachable state of the collector.
THEOREM ReaderInvariant == Spec => []ReaderInv
  <1>1. ReaderInv /\ [Next]_vars => ReaderInv'
    BY CollectorIsReader, ReaderInvStep DEF ReaderInv
  <1> QED
    BY <1>1, ReaderInvInit, PTL DEF Spec

\* A read that reports success has returned the whole file, if nothing was
\* mounted or unmounted meanwhile (procfs.rs:35, 54-64).
THEOREM ReadsTheWholeFile == Spec => []WholeFile
  <1>1. ReaderInv => WholeFile
    BY DEF ReaderInv, WholeFile
  <1> QED
    BY <1>1, ReaderInvariant, PTL

\* The buffer is reallocated only for a text longer than every one before
\* (procfs.rs:48-49).
THEOREM BufferIsSteady == Spec => SteadyBuffer
  <1>1. ASSUME ReaderInv, [Next]_vars
        PROVE  [capacity' # capacity => Len(buf) > longest]_procfsVars
    <2>1. ReaderStep
      BY <1>1, CollectorIsReader DEF ReaderInv
    <2> SUFFICES ASSUME capacity' # capacity
                 PROVE  Len(buf) > longest
      OBVIOUS
    <2>2. Resizes
      BY <2>1 DEF ReaderStep, Opens, OpenFails, Reads, ReachesEnd, ReadFails,
                  Changes, readVars, procfsVars
    <2>3. ~(capacity >= Len(buf) + CHUNK)
      BY <1>1, <2>2, ResizesMakesRoom DEF ReaderInv
    <2>4. Len(buf) \in Nat
      BY <1>1 DEF ReaderInv, ProcfsTypeOK
    <2> QED
      BY <1>1, <2>3, <2>4, ProcfsAssumption DEF ReaderInv, ProcfsTypeOK
  <1> QED
    BY <1>1, ReaderInvariant, PTL DEF Spec, SteadyBuffer

-----------------------------------------------------------------------------
(* parse_mounts, for every text *)

Parsed == [by_path : UNION {[P -> Line] : P \in SUBSET Path}, order : Seq(Path)]

Nothing == [by_path |-> <<>>, order |-> <<>>]

LEMMA NothingIsParsed == Nothing \in Parsed
  <1> DEFINE Tables == UNION {[P -> Line] : P \in SUBSET Path}
  <1>1. Nothing.by_path \in [{} -> Line] /\ {} \in SUBSET Path
    BY DEF Nothing
  <1>2. Nothing.by_path \in Tables
    BY <1>1
  <1> HIDE DEF Tables
  <1>3. Nothing.order \in Seq(Path)
    BY DEF Nothing
  <1> QED
    BY <1>2, <1>3 DEF Parsed, Nothing, Tables

\* One round of the loop.
LEMMA EnterType ==
    ASSUME NEW parsed \in Parsed, NEW line \in Line
    PROVE  Enter(parsed, line) \in Parsed
  <1> DEFINE Tables == UNION {[P -> Line] : P \in SUBSET Path}
             entered == [path \in DOMAIN parsed.by_path \union {line.path} |->
                            IF path = line.path THEN line ELSE parsed.by_path[path]]
  <1>1. PICK P \in SUBSET Path : parsed.by_path \in [P -> Line]
    BY DEF Parsed
  <1>2. line.path \in Path
    BY DEF Line
  <1>3. Append(parsed.order, line.path) \in Seq(Path) /\ parsed.order \in Seq(Path)
    BY <1>2 DEF Parsed
  <1>4. entered \in [P \union {line.path} -> Line] /\ P \union {line.path} \in SUBSET Path
    BY <1>1, <1>2
  <1>5. entered \in Tables
    BY <1>4
  <1> QED
    BY <1>3, <1>5 DEF Parsed, Enter

\* The loop as it runs: what is known after each line.
LEMMA ParsingRuns ==
    ASSUME NEW lines \in Seq(Line)
    PROVE  \E run \in [0..Len(lines) -> Parsed] :
               /\ run[0] = Nothing
               /\ \A i \in 1..Len(lines) : run[i] = Enter(run[i - 1], lines[i])
               /\ FoldLeft(Enter, Nothing, lines) = run[Len(lines)]
  <1> DEFINE n == Len(lines)
             Solves(it) == it = [s \in SUBSET (1..n) |->
                                    IF s = {} THEN Nothing
                                    ELSE Enter(it[s \ {Max(s)}], lines[Max(s)])]
             iter == CHOOSE it : Solves(it)
  <1>1. FoldLeft(Enter, Nothing, lines) = iter[1..n]
    <2>1. DOMAIN lines = 1..n
      OBVIOUS
    <2> QED
      BY <2>1 DEF FoldLeft, MapThenFoldSet
  <1>2. n \in Nat /\ \A i \in 1..n : lines[i] \in Line
    OBVIOUS
  <1> HIDE DEF n
  <1>3. \E it : Solves(it)
    <2> DEFINE next == [p \in Parsed \X (1..n) |-> Enter(p[1], lines[p[2]])]
    <2>1. next \in [Parsed \X (1..n) -> Parsed]
      BY <1>2, EnterType
    <2>2. \A v \in Parsed, i \in 1..n : next[<<v, i>>] = Enter(v, lines[i])
      OBVIOUS
    <2> HIDE DEF next
    <2>3. PICK f : IsFold(f, n, Parsed, Nothing, next)
      <3>1. Foldable(n, Parsed, Nothing, next)
        BY <1>2, <2>1, NothingIsParsed DEF Foldable
      <3> QED
        BY <3>1, FoldExists
    <2>4. ASSUME NEW s \in SUBSET (1..n), s # {}
          PROVE  f[s] = Enter(f[s \ {Max(s)}], lines[Max(s)])
      <3>1. Max(s) \in 1..n
        BY <1>2, <2>4, s \in SUBSET (0..n), GreatestBelow
      <3>2. s \ {Max(s)} \in SUBSET (1..n)
        OBVIOUS
      <3>3. f[s \ {Max(s)}] \in Parsed
        BY <2>3, <3>2 DEF IsFold
      <3> QED
        BY <2>2, <2>3, <2>4, <3>1, <3>3 DEF IsFold
    <2>5. f = [s \in SUBSET (1..n) |->
                  IF s = {} THEN Nothing ELSE Enter(f[s \ {Max(s)}], lines[Max(s)])]
      BY <2>3, <2>4 DEF IsFold
    <2> QED
      BY <2>5
  <1>4. Solves(iter)
    <2> HIDE DEF Solves
    <2> QED
      BY <1>3
  <1> HIDE DEF iter
  <1>5. \A s \in SUBSET (1..n) :
            iter[s] = IF s = {} THEN Nothing ELSE Enter(iter[s \ {Max(s)}], lines[Max(s)])
    BY <1>4
  <1> DEFINE run == [i \in 0..n |-> iter[1..i]]
             S == {i \in 0..n : run[i] \in Parsed}
  <1>6. run[0] = Nothing
    <2>1. 1..0 = {} /\ {} \in SUBSET (1..n) /\ 0 \in 0..n
      BY <1>2
    <2>2. iter[{}] = Nothing
      BY <1>5, <2>1
    <2> QED
      BY <2>1, <2>2
  <1>7. ASSUME NEW i \in 1..n
        PROVE  run[i] = Enter(run[i - 1], lines[i])
    <2>1. Max(1..i) = i /\ (1..i) \ {i} = 1..i - 1
      <3>1. i \in Nat \ {0}
        BY <1>2
      <3> QED
        BY <3>1, LastOfFirst
    <2>2. i \in 0..n /\ i - 1 \in 0..n
      BY <1>2
    <2>3. \A x \in 1..i : x \in 1..n
      BY <1>2
    <2>4. 1..i \in SUBSET (1..n) /\ i \in 1..i
      BY <1>2, <2>3
    <2>5. iter[1..i] = Enter(iter[(1..i) \ {Max(1..i)}], lines[Max(1..i)])
      BY <1>5, <2>4
    <2>6. iter[1..i] = Enter(iter[1..i - 1], lines[i])
      BY <2>1, <2>5
    <2> QED
      BY <2>2, <2>6
  <1> HIDE DEF run
  <1>8. 0..n \subseteq S
    <2>1. 0 \in S
      BY <1>2, <1>6, NothingIsParsed
    <2>2. ASSUME NEW k \in 0..n, k \in S, k < n
          PROVE  k + 1 \in S
      <3>1. k + 1 \in 1..n /\ k + 1 \in 0..n /\ (k + 1) - 1 = k
        BY <1>2, <2>2
      <3>2. run[k + 1] = Enter(run[k], lines[k + 1]) /\ lines[k + 1] \in Line
        BY <1>2, <1>7, <3>1
      <3> QED
        BY <2>2, <3>1, <3>2, EnterType
    <2> HIDE DEF S
    <2> QED
      BY <1>2, <2>1, <2>2, InductionUpTo
  <1>9. run \in [0..n -> Parsed] /\ run[n] = iter[1..n]
    BY <1>2, <1>8 DEF run
  <1> QED
    BY <1>1, <1>6, <1>7, <1>9 DEF n

OnceEach(table) == \A i, j \in 1..Len(table) : table[i].path = table[j].path => i = j

\* Line m is the last disk at the path among the first k.
LastDisk(lines, k, m, path) ==
    /\ lines[m].path = path
    /\ lines[m].fs \in Disk
    /\ \A q \in m + 1..k : lines[q].path = path => lines[q].fs \notin Disk

\* What the loop knows after k lines.
Tabled(parsed, lines, k) ==
    /\ parsed \in Parsed
    /\ DOMAIN parsed.by_path = {parsed.order[i] : i \in 1..Len(parsed.order)}
    /\ \A i, j \in 1..Len(parsed.order) : parsed.order[i] = parsed.order[j] => i = j
    /\ \A path \in DOMAIN parsed.by_path :
           \E m \in 1..k : LastDisk(lines, k, m, path) /\ parsed.by_path[path] = lines[m]
    /\ \A m \in 1..k : lines[m].fs \in Disk => lines[m].path \in DOMAIN parsed.by_path

LEMMA NothingIsTabled ==
    ASSUME NEW lines \in Seq(Line)
    PROVE  Tabled(Nothing, lines, 0)
  <1>1. DOMAIN Nothing.by_path = {} /\ Len(Nothing.order) = 0
    BY DEF Nothing
  <1> QED
    BY <1>1, NothingIsParsed DEF Tabled

\* One round keeps what the loop knows.
LEMMA EnterIsTabled ==
    ASSUME NEW lines \in Seq(Line), NEW k \in 1..Len(lines), NEW parsed,
           Tabled(parsed, lines, k - 1)
    PROVE  Tabled(Enter(parsed, lines[k]), lines, k)
  <1> DEFINE line == lines[k]
             next == Enter(parsed, line)
             known == DOMAIN parsed.by_path
  <1>1. k \in Nat /\ k - 1 \in Nat /\ line \in Line /\ line.path \in Path
    <2>1. line \in Line
      OBVIOUS
    <2>2. line.path \in Path
      BY <2>1 DEF Line
    <2> QED
      BY <2>1, <2>2
  <1>2. parsed \in Parsed /\ next \in Parsed
    BY <1>1, EnterType DEF Tabled
  <1>3. parsed.order \in Seq(Path) /\ Len(parsed.order) \in Nat
    BY <1>2 DEF Parsed
  <1>4. ASSUME NEW path \in known, path # line.path \/ line.fs \notin Disk
        PROVE  \E m \in 1..k : LastDisk(lines, k, m, path) /\ parsed.by_path[path] = lines[m]
    <2>1. PICK m \in 1..k - 1 :
              LastDisk(lines, k - 1, m, path) /\ parsed.by_path[path] = lines[m]
      BY DEF Tabled
    <2>2. ASSUME NEW q \in m + 1..k, lines[q].path = path
          PROVE  lines[q].fs \notin Disk
      <3>1. CASE q = k
        BY <1>4, <2>2, <3>1
      <3>2. CASE q # k
        BY <1>1, <2>1, <2>2, <3>2 DEF LastDisk
      <3> QED
        BY <3>1, <3>2
    <2>3. m \in 1..k
      BY <1>1
    <2> QED
      BY <2>1, <2>2, <2>3 DEF LastDisk
  <1>5. ASSUME NEW m \in 1..k, lines[m].fs \in Disk, m # k
        PROVE  lines[m].path \in known
    <2>1. m \in 1..k - 1
      BY <1>1, <1>5
    <2> QED
      BY <1>5, <2>1 DEF Tabled
  <1>6. CASE line.fs \notin Disk
    <2>1. next = parsed
      BY <1>6 DEF Enter
    <2>2. \A m \in 1..k : lines[m].fs \in Disk => lines[m].path \in known
      BY <1>5, <1>6
    <2>3. \A path \in known :
              \E m \in 1..k : LastDisk(lines, k, m, path) /\ parsed.by_path[path] = lines[m]
      BY <1>4, <1>6
    <2>4. /\ parsed \in Parsed
          /\ known = {parsed.order[i] : i \in 1..Len(parsed.order)}
          /\ \A i, j \in 1..Len(parsed.order) : parsed.order[i] = parsed.order[j] => i = j
      BY DEF Tabled
    <2>5. Tabled(parsed, lines, k)
      BY <2>2, <2>3, <2>4 DEF Tabled
    <2> QED
      BY <2>1, <2>5
  <1>7. CASE line.fs \in Disk
    <2>1. /\ DOMAIN next.by_path = known \union {line.path}
          /\ \A path \in known \union {line.path} :
                 next.by_path[path] = IF path = line.path THEN line ELSE parsed.by_path[path]
          /\ next.order = IF line.path \in known THEN parsed.order
                          ELSE Append(parsed.order, line.path)
      BY <1>7 DEF Enter
    <2>2. LastDisk(lines, k, k, line.path)
      BY <1>1, <1>7 DEF LastDisk
    <2>3. ASSUME NEW path \in DOMAIN next.by_path
          PROVE  \E m \in 1..k : LastDisk(lines, k, m, path) /\ next.by_path[path] = lines[m]
      <3>1. CASE path = line.path
        BY <1>1, <2>1, <2>2, <3>1
      <3>2. CASE path # line.path
        BY <1>4, <2>1, <3>2
      <3> QED
        BY <3>1, <3>2
    <2>4. /\ DOMAIN next.by_path = {next.order[i] : i \in 1..Len(next.order)}
          /\ \A i, j \in 1..Len(next.order) : next.order[i] = next.order[j] => i = j
      <3>1. CASE line.path \in known
        BY <2>1, <3>1 DEF Tabled
      <3>2. CASE line.path \notin known
        <4>1. /\ Len(next.order) = Len(parsed.order) + 1
              /\ next.order[Len(parsed.order) + 1] = line.path
              /\ \A i \in 1..Len(parsed.order) : next.order[i] = parsed.order[i]
          BY <1>1, <1>3, <2>1, <3>2, AppendProperties
        <4>2. \A i \in 1..Len(parsed.order) : parsed.order[i] \in known
          BY DEF Tabled
        <4>3. \A i \in 1..Len(next.order) :
                  i \in 1..Len(parsed.order) \/ i = Len(parsed.order) + 1
          BY <1>3, <4>1
        <4>4. \A i \in 1..Len(parsed.order) : i \in 1..Len(next.order)
          BY <1>3, <4>1
        <4>5. Len(parsed.order) + 1 \in 1..Len(next.order)
          BY <1>3, <4>1
        <4>6. DOMAIN next.by_path = {next.order[i] : i \in 1..Len(next.order)}
          <5>1. known = {parsed.order[i] : i \in 1..Len(parsed.order)}
            BY DEF Tabled
          <5>2. \A path \in known \union {line.path} :
                    \E i \in 1..Len(next.order) : path = next.order[i]
            BY <4>1, <4>4, <4>5, <5>1
          <5>3. \A i \in 1..Len(next.order) : next.order[i] \in known \union {line.path}
            BY <4>1, <4>2, <4>3
          <5>4. DOMAIN next.by_path = known \union {line.path}
            BY <2>1
          <5> HIDE DEF next, known
          <5> QED
            BY <5>2, <5>3, <5>4
        <4>7. \A i, j \in 1..Len(next.order) : next.order[i] = next.order[j] => i = j
          BY <3>2, <4>1, <4>2, <4>3 DEF Tabled
        <4> QED
          BY <4>6, <4>7
      <3> QED
        BY <3>1, <3>2
    <2>5. \A m \in 1..k : lines[m].fs \in Disk => lines[m].path \in DOMAIN next.by_path
      BY <1>5, <2>1
    <2> QED
      BY <1>2, <2>3, <2>4, <2>5 DEF Tabled
  <1> QED
    BY <1>6, <1>7

\* What parse_mounts makes of a text: one entry for every path where a disk is
\* mounted, which is the last line there that names a disk (filesys.rs:95-129).
THEOREM ParseMounts ==
    ASSUME NEW lines \in Seq(Line)
    PROVE  /\ parse_mounts(lines) \in Seq([path : Path, fs : Disk])
           /\ OnceEach(parse_mounts(lines))
           /\ \A i \in 1..Len(parse_mounts(lines)) :
                  \E m \in 1..Len(lines) :
                      /\ parse_mounts(lines)[i] = lines[m]
                      /\ LastDisk(lines, Len(lines), m, lines[m].path)
           /\ \A m \in 1..Len(lines) :
                  lines[m].fs \in Disk =>
                      \E i \in 1..Len(parse_mounts(lines)) :
                          parse_mounts(lines)[i].path = lines[m].path
  <1> DEFINE n == Len(lines)
  <1>1. PICK run \in [0..n -> Parsed] :
            /\ run[0] = Nothing
            /\ \A i \in 1..n : run[i] = Enter(run[i - 1], lines[i])
            /\ FoldLeft(Enter, Nothing, lines) = run[n]
    BY ParsingRuns
  <1>2. n \in Nat
    OBVIOUS
  <1> DEFINE S == {k \in 0..n : Tabled(run[k], lines, k)}
  <1>3. 0..n \subseteq S
    <2>1. 0 \in S
      BY <1>1, <1>2, NothingIsTabled
    <2>2. ASSUME NEW k \in 0..n, k \in S, k < n
          PROVE  k + 1 \in S
      <3>1. k + 1 \in 1..n /\ k + 1 \in 0..n /\ (k + 1) - 1 = k
        BY <1>2, <2>2
      <3>2. Tabled(Enter(run[k], lines[k + 1]), lines, k + 1)
        BY <2>2, <3>1, EnterIsTabled
      <3> QED
        BY <1>1, <3>1, <3>2
    <2> HIDE DEF S, n
    <2> QED
      BY <1>2, <2>1, <2>2, InductionUpTo
  <1> DEFINE parsed == run[n]
             table == [i \in 1..Len(parsed.order) |-> parsed.by_path[parsed.order[i]]]
  <1>4. Tabled(parsed, lines, n)
    BY <1>2, <1>3
  <1>5. parse_mounts(lines) = table
    BY <1>1 DEF parse_mounts, Nothing
  <1> HIDE DEF parsed, n
  <1>6. parsed.order \in Seq(Path) /\ Len(parsed.order) \in Nat
    BY <1>4 DEF Tabled, Parsed
  <1>7. Len(table) = Len(parsed.order) /\ DOMAIN table = 1..Len(parsed.order)
    BY <1>6
  <1>8. ASSUME NEW i \in 1..Len(table)
        PROVE  /\ table[i].path = parsed.order[i]
               /\ \E m \in 1..n : table[i] = lines[m] /\ LastDisk(lines, n, m, lines[m].path)
    <2>1. i \in 1..Len(parsed.order) /\ table[i] = parsed.by_path[parsed.order[i]]
      BY <1>7
    <2>2. parsed.order[i] \in DOMAIN parsed.by_path
      BY <1>4, <2>1 DEF Tabled
    <2>3. PICK m \in 1..n : /\ LastDisk(lines, n, m, parsed.order[i])
                            /\ parsed.by_path[parsed.order[i]] = lines[m]
      BY <1>4, <2>2 DEF Tabled
    <2>4. lines[m].path = parsed.order[i]
      BY <2>3 DEF LastDisk
    <2> QED
      BY <2>1, <2>3, <2>4
  <1>9. table \in Seq([path : Path, fs : Disk])
    <2>1. ASSUME NEW i \in 1..Len(table)
          PROVE  table[i] \in [path : Path, fs : Disk]
      <3>1. PICK m \in 1..n : table[i] = lines[m] /\ lines[m].fs \in Disk
        BY <1>8 DEF LastDisk
      <3>2. lines[m] \in Line
        BY DEF n
      <3> QED
        BY <3>1, <3>2 DEF Line
    <2>2. table \in [1..Len(parsed.order) -> [path : Path, fs : Disk]]
      BY <1>7, <2>1
    <2> QED
      BY <1>6, <2>2
  <1>10. OnceEach(table)
    <2> SUFFICES ASSUME NEW i \in 1..Len(table), NEW j \in 1..Len(table),
                        table[i].path = table[j].path
                 PROVE  i = j
      BY DEF OnceEach
    <2>1. parsed.order[i] = parsed.order[j] /\ {i, j} \subseteq 1..Len(parsed.order)
      BY <1>7, <1>8
    <2> QED
      BY <1>4, <2>1 DEF Tabled
  <1>11. ASSUME NEW m \in 1..n, lines[m].fs \in Disk
         PROVE  \E i \in 1..Len(table) : table[i].path = lines[m].path
    <2>1. PICK i \in 1..Len(parsed.order) : parsed.order[i] = lines[m].path
      BY <1>4, <1>11 DEF Tabled
    <2>2. i \in 1..Len(table)
      BY <1>7
    <2>3. table[i].path = lines[m].path
      BY <1>8, <2>1, <2>2
    <2> QED
      BY <2>2, <2>3
  <1> HIDE DEF table
  <1> QED
    BY <1>5, <1>8, <1>9, <1>10, <1>11 DEF n

-----------------------------------------------------------------------------
(* No mount point twice, and under each the filesystem measured *)

\* The same for any table.
At(table, path) == {i \in 1..Len(table) : table[i].path = path}

Top(table, i, path) == i \in At(table, path) /\ \A j \in At(table, path) : j <= i

SeenIn(table, path) ==
    IF At(table, path) = {} THEN "parent"
    ELSE table[CHOOSE i \in At(table, path) : Top(table, i, path)].fs

LEMMA SeenInFile ==
    ASSUME NEW path
    PROVE  Seen(path) = SeenIn(file, path) /\ Seen(path)' = SeenIn(file', path)
  BY DEF Seen, SeenIn, LinesAt, At, IsTop, Top

\* A path has a topmost line if it has any, and the topmost is what is seen.
LEMMA TopIsSeen ==
    ASSUME NEW table \in Seq(Line), NEW path
    PROVE  /\ At(table, path) # {} => \E i \in 1..Len(table) : Top(table, i, path)
           /\ \A i : Top(table, i, path) => SeenIn(table, path) = table[i].fs
           /\ SeenIn(table, path) \in Disk \union Other \union {"parent"}
  <1> DEFINE S == At(table, path)
  <1>1. S \subseteq 1..Len(table) /\ Len(table) \in Nat
    BY DEF At
  <1>2. S # {} => \E i \in 1..Len(table) : Top(table, i, path)
    <2> SUFFICES ASSUME S # {}
                 PROVE  \E i \in 1..Len(table) : Top(table, i, path)
      OBVIOUS
    <2>1. S \in SUBSET (0..Len(table))
      BY <1>1
    <2>2. Max(S) \in S /\ \A y \in S : Max(S) >= y
      <3> HIDE DEF S
      <3> QED
        BY <1>1, <2>1, GreatestBelow
    <2>3. \A y \in S : y <= Max(S)
      BY <1>1, <2>2
    <2> QED
      BY <1>1, <2>2, <2>3 DEF Top
  <1>3. ASSUME NEW i, Top(table, i, path)
        PROVE  SeenIn(table, path) = table[i].fs /\ table[i].fs \in Disk \union Other
    <2>1. i \in S
      BY <1>3 DEF Top
    <2> DEFINE top == CHOOSE j \in S : Top(table, j, path)
    <2>2. top \in S /\ Top(table, top, path)
      BY <1>3, <2>1
    <2>3. top = i
      <3>1. top <= i /\ i <= top
        BY <1>3, <2>1, <2>2 DEF Top
      <3> QED
        BY <1>1, <2>1, <2>2, <3>1
    <2>4. SeenIn(table, path) = table[top].fs
      BY <2>1 DEF SeenIn
    <2>5. table[i] \in Line
      BY <1>1, <2>1
    <2> QED
      BY <2>3, <2>4, <2>5 DEF Line
  <1>4. S = {} => SeenIn(table, path) = "parent"
    BY DEF SeenIn
  <1> QED
    BY <1>2, <1>3, <1>4

\* What is seen at a path depends on its own topmost line only.
LEMMA SameTopSameSeen ==
    ASSUME NEW f \in Seq(Line), NEW g \in Seq(Line), NEW path,
           At(f, path) = {} => At(g, path) = {},
           \A i \in 1..Len(f) :
               Top(f, i, path) => \E j \in 1..Len(g) : Top(g, j, path) /\ g[j] = f[i]
    PROVE  SeenIn(g, path) = SeenIn(f, path)
  <1>1. CASE At(f, path) = {}
    BY <1>1 DEF SeenIn
  <1>2. CASE At(f, path) # {}
    <2>1. PICK i \in 1..Len(f) : Top(f, i, path)
      BY <1>2, TopIsSeen
    <2>2. PICK j \in 1..Len(g) : Top(g, j, path) /\ g[j] = f[i]
      BY <2>1
    <2>3. SeenIn(f, path) = f[i].fs /\ SeenIn(g, path) = g[j].fs
      BY <2>1, <2>2, TopIsSeen
    <2> QED
      BY <2>2, <2>3
  <1> QED
    BY <1>1, <1>2

\* A mount changes what is seen at its own path only.
LEMMA MountsHere ==
    ASSUME NEW f \in Seq(Line), NEW line \in Line, NEW path, path # line.path
    PROVE  SeenIn(Append(f, line), path) = SeenIn(f, path)
  <1> DEFINE g == Append(f, line)
  <1>1. /\ g \in Seq(Line)
        /\ Len(f) \in Nat
        /\ Len(g) = Len(f) + 1
        /\ g[Len(f) + 1] = line
        /\ \A i \in 1..Len(f) : g[i] = f[i]
    BY AppendProperties
  <1> HIDE DEF g
  <1>2. At(g, path) = At(f, path)
    <2>1. \A i \in 1..Len(g) : i \in 1..Len(f) \/ i = Len(f) + 1
      BY <1>1
    <2>2. \A i \in 1..Len(f) : i \in 1..Len(g)
      BY <1>1
    <2> QED
      BY <1>1, <2>1, <2>2 DEF At
  <1>3. ASSUME NEW i \in 1..Len(f), Top(f, i, path)
        PROVE  \E j \in 1..Len(g) : Top(g, j, path) /\ g[j] = f[i]
    <2>1. i \in 1..Len(g) /\ g[i] = f[i]
      BY <1>1
    <2>2. Top(g, i, path)
      BY <1>2, <1>3 DEF Top
    <2> QED
      BY <2>1, <2>2
  <1>4. SeenIn(g, path) = SeenIn(f, path)
    BY <1>1, <1>2, <1>3, SameTopSameSeen
  <1> QED
    BY <1>4 DEF g

\* So does an unmount.
LEMMA UnmountsHere ==
    ASSUME NEW f \in Seq(Line), NEW i \in 1..Len(f), NEW path, path # f[i].path
    PROVE  SeenIn(RemoveAt(f, i), path) = SeenIn(f, path)
  <1> DEFINE g == RemoveAt(f, i)
             old(j) == IF j < i THEN j ELSE j + 1
             new(j) == IF j < i THEN j ELSE j - 1
  <1>1. g \in Seq(Line) /\ Len(f) \in Nat
    BY RemoveAtType
  <1>2. Len(g) = Len(f) - 1 /\ \A j \in 1..Len(g) : g[j] = f[old(j)]
    BY RemoveAtElements
  <1> HIDE DEF g
  <1>3. \A j \in 1..Len(g) : old(j) \in 1..Len(f)
    BY <1>1, <1>2
  <1>4. ASSUME NEW j \in 1..Len(f), j # i
        PROVE  new(j) \in 1..Len(g) /\ old(new(j)) = j
    BY <1>1, <1>2, <1>4
  <1>5. At(f, path) = {} => At(g, path) = {}
    BY <1>2, <1>3 DEF At
  <1>6. ASSUME NEW k \in 1..Len(f), Top(f, k, path)
        PROVE  \E j \in 1..Len(g) : Top(g, j, path) /\ g[j] = f[k]
    <2>1. f[k].path = path /\ k # i
      BY <1>6 DEF Top, At
    <2>2. new(k) \in 1..Len(g) /\ g[new(k)] = f[k]
      BY <1>2, <1>4, <2>1
    <2>3. ASSUME NEW j \in At(g, path)
          PROVE  j <= new(k)
      <3>1. j \in 1..Len(g) /\ old(j) \in At(f, path)
        BY <1>2, <1>3 DEF At
      <3>2. old(j) <= k
        BY <1>6, <3>1 DEF Top
      <3> QED
        BY <1>1, <1>2, <2>1, <3>1, <3>2
    <2>4. new(k) \in At(g, path)
      BY <2>1, <2>2 DEF At
    <2>5. Top(g, new(k), path)
      BY <2>3, <2>4 DEF Top
    <2> QED
      BY <2>2, <2>5
  <1>7. SeenIn(g, path) = SeenIn(f, path)
    BY <1>1, <1>5, <1>6, SameTopSameSeen
  <1> QED
    BY <1>7 DEF g

\* The records are of mounts that collect() has passed.
SampleIsBehind ==
    \A i \in 1..Len(sample) : \E j \in 1..pos - 1 : mounts[j].path = sample[i].path

CallsAreSeen ==
    \A path \in Path :
        stuck[path].state = "absent" \/ path \in touched \/ stuck[path].fs = Seen(path)

MountsAreSeen ==
    pos # 0 /\ ~torn =>
        \A j \in 1..Len(mounts) :
            \/ mounts[j].path \in touched
            \/ Seen(mounts[j].path) \in Other
            \/ mounts[j].fs = Seen(mounts[j].path)

\* The mounts that are left to measure are those of the table as it is, but for
\* what has changed hands, and so are the calls that were given up.
TableInv ==
    /\ ReaderInv
    /\ TypeOK
    /\ reader = "reading" => pos = 0 /\ buf \in Seq(Piece)
    /\ reader = "reading" /\ ~torn => ReadsPrefix
    /\ OnceEach(mounts)
    /\ pos = 0 => sample = <<>>
    /\ SampleIsBehind
    /\ OnePerPath
    /\ CallsAreSeen
    /\ MountsAreSeen

LEMMA LinesAreLines == ASSUME NEW lines \in Seq(Piece) PROVE lines \in Seq(Line)
  BY LineAssumption

\* The table at the end of a read that succeeded: what is named there is what is
\* seen, unless the table was torn or something skipped is mounted over it.
LEMMA ParsedIsSeen ==
    ASSUME ProcfsTypeOK, buf \in Seq(Piece), buf = file, NEW table, table = parse_mounts(buf)
    PROVE  \A j \in 1..Len(table) :
               Seen(table[j].path) \in Other \/ table[j].fs = Seen(table[j].path)
  <1> TAKE j \in 1..Len(table)
  <1>0. file \in Seq(Line) /\ Len(file) \in Nat
    BY LinesAreLines
  <1>1. PICK m \in 1..Len(file) :
            table[j] = file[m] /\ LastDisk(file, Len(file), m, file[m].path)
    BY <1>0, ParseMounts
  <1> DEFINE path == file[m].path
  <1>2. m \in At(file, path)
    BY DEF At
  <1>3. PICK i \in 1..Len(file) : Top(file, i, path)
    BY <1>0, <1>2, TopIsSeen
  <1>4. file[i].path = path /\ m <= i /\ SeenIn(file, path) = file[i].fs
    BY <1>0, <1>2, <1>3, TopIsSeen DEF Top, At
  <1>5. file[i].fs \in Disk \union Other
    <2>1. file[i] \in Line
      BY <1>0
    <2> QED
      BY <2>1 DEF Line
  <1>6. CASE i = m
    BY <1>1, <1>4, <1>6, SeenInFile
  <1>7. CASE i # m
    <2>1. i \in m + 1..Len(file)
      BY <1>0, <1>4, <1>7
    <2>2. file[i].fs \notin Disk
      BY <1>1, <1>4, <2>1 DEF LastDisk
    <2> QED
      BY <1>1, <1>4, <1>5, <2>2, SeenInFile
  <1> QED
    BY <1>6, <1>7

LEMMA TableInvInit == Init => TableInv
  <1> SUFFICES ASSUME Init
               PROVE  TableInv
    OBVIOUS
  <1>1. ReaderInv
    BY ReaderInvInit
  <1>2. TypeOK
    <2>1. Len(file) = 0 /\ Len(mounts) = 0 /\ mounts \in Seq([path : Path, fs : Disk]) /\ sample \in Seq(Record)
      BY DEF Init
    <2>2. stuck \in [Path -> Calls]
      BY DEF Init, Calls, NoCall
    <2>3. Len(file) <= MaxMounts /\ pos \in 0..Len(mounts) + 1
      BY <2>1, MountTableAssumption DEF Init
    <2>4. touched \subseteq Path /\ torn \in BOOLEAN
      BY DEF Init
    <2> QED
      BY <1>1, <2>1, <2>2, <2>3, <2>4 DEF ReaderInv, TypeOK
  <1> QED
    BY <1>1, <1>2 DEF Init, ProcfsInit, TableInv, OnceEach, OnePerPath, SampleIsBehind, CallsAreSeen,
                        MountsAreSeen, NoCall

\* A record for the mount collect() is at is the first for its path.
LEMMA MeasuresOnce ==
    ASSUME TableInv, InLoop, NextMount, mounts' = mounts,
           NEW fs \in Disk \union Other \union {"parent"}, Measures(fs)
    PROVE  sample' \in Seq(Record) /\ SampleIsBehind' /\ OnePerPath'
  <1> DEFINE last == [path |-> Here, fs |-> mounts[pos].fs, measured |-> fs]
  <1>1. /\ sample \in Seq(Record) /\ Len(sample) \in Nat
        /\ mounts \in Seq([path : Path, fs : Disk]) /\ Len(mounts) \in Nat
    BY DEF TableInv, TypeOK
  <1>2. pos \in 1..Len(mounts) /\ pos \in Nat /\ pos' = pos + 1
    BY <1>1 DEF InLoop, NextMount
  <1>3. last \in Record
    <2>1. mounts[pos] \in [path : Path, fs : Disk]
      BY <1>1, <1>2, ElementOfSeq
    <2> QED
      BY <2>1 DEF Record, Here
  <1>4. /\ sample' \in Seq(Record)
        /\ Len(sample') = Len(sample) + 1
        /\ sample'[Len(sample) + 1] = last
        /\ \A i \in 1..Len(sample) : sample'[i] = sample[i]
    BY <1>1, <1>3, AppendProperties DEF Measures
  <1>5. \A i \in 1..Len(sample') : i \in 1..Len(sample) \/ i = Len(sample) + 1
    BY <1>1, <1>4
  <1>6. ASSUME NEW i \in 1..Len(sample)
        PROVE  \E j \in 1..pos - 1 : mounts[j].path = sample'[i].path
    BY <1>4 DEF TableInv, SampleIsBehind
  <1>7. last.path = mounts[pos].path
    BY DEF Here
  <1> HIDE DEF last
  <1>8. SampleIsBehind'
    <2> SUFFICES ASSUME NEW i \in 1..Len(sample')
                 PROVE  \E j \in 1..pos : mounts[j].path = sample'[i].path
      BY <1>2 DEF SampleIsBehind
    <2>1. CASE i \in 1..Len(sample)
      BY <1>2, <1>6, <2>1
    <2>2. CASE i = Len(sample) + 1
      BY <1>2, <1>4, <1>7, <2>2
    <2> QED
      BY <1>5, <2>1, <2>2
  <1>9. ASSUME NEW i \in 1..Len(sample)
        PROVE  sample'[i].path # last.path
    <2>1. PICK j \in 1..pos - 1 : mounts[j].path = sample'[i].path
      BY <1>6
    <2>2. j \in 1..Len(mounts) /\ j # pos
      BY <1>1, <1>2
    <2> QED
      BY <1>2, <1>7, <2>1, <2>2 DEF TableInv, OnceEach
  <1>10. OnePerPath'
    <2> SUFFICES ASSUME NEW i \in 1..Len(sample'), NEW j \in 1..Len(sample'),
                        sample'[i].path = sample'[j].path
                 PROVE  i = j
      BY DEF OnePerPath
    <2>1. CASE i \in 1..Len(sample) /\ j \in 1..Len(sample)
      BY <1>4, <2>1 DEF TableInv, OnePerPath
    <2>2. CASE ~(i \in 1..Len(sample) /\ j \in 1..Len(sample))
      BY <1>4, <1>5, <1>9, <2>2
    <2> QED
      BY <2>1, <2>2
  <1> QED
    BY <1>4, <1>8, <1>10

\* The mount collect() is at and what is seen there.
LEMMA HereType ==
    ASSUME TableInv, InLoop
    PROVE  /\ Here \in Path /\ mounts[pos] \in [path : Path, fs : Disk]
           /\ pos # 0 /\ pos + 1 \in 0..Len(mounts) + 1
           /\ \A path : Seen(path) \in Disk \union Other \union {"parent"}
  <1>1. mounts \in Seq([path : Path, fs : Disk]) /\ Len(mounts) \in Nat
    BY DEF TableInv, TypeOK
  <1>2. pos \in 1..Len(mounts)
    BY DEF InLoop
  <1>3. file \in Seq(Line)
    BY LinesAreLines DEF TableInv, TypeOK, ProcfsTypeOK
  <1>4. \A path : Seen(path) \in Disk \union Other \union {"parent"}
    BY <1>3, TopIsSeen, SeenInFile
  <1>5. mounts[pos] \in [path : Path, fs : Disk]
    BY <1>1, <1>2, ElementOfSeq
  <1> QED
    BY <1>1, <1>2, <1>4, <1>5 DEF Here

\* What stays of the invariant when collect() passes a mount.
LEMMA PassesMount ==
    ASSUME TableInv, InLoop, NextMount, UNCHANGED <<procfsVars, mounts, touched, torn>>
    PROVE  /\ ReaderInv' /\ ProcfsTypeOK' /\ OnceEach(mounts)' /\ MountsAreSeen'
           /\ pos' \in 0..Len(mounts) + 1 /\ pos' # 0 /\ reader' # "reading"
           /\ sample' = sample => SampleIsBehind' /\ OnePerPath'
           /\ \A path : Seen(path)' = Seen(path)
  <1>1. ReaderInv'
    <2>1. ReaderStep
      BY DEF ReaderStep
    <2> QED
      BY <2>1, ReaderInvStep DEF TableInv
  <1>2. file' = file /\ reader' = reader
    BY DEF procfsVars, readVars
  <1>3. \A path : Seen(path)' = Seen(path)
    BY <1>2, SeenInFile
  <1>4. Len(mounts) \in Nat /\ pos \in 1..Len(mounts) /\ pos' = pos + 1
    BY DEF TableInv, TypeOK, InLoop, NextMount
  <1>5. MountsAreSeen'
    BY <1>3, <1>4 DEF TableInv, MountsAreSeen
  <1>6. sample' = sample => SampleIsBehind'
    <2> SUFFICES ASSUME sample' = sample, NEW i \in 1..Len(sample)
                 PROVE  \E j \in 1..pos : mounts[j].path = sample[i].path
      BY <1>4 DEF SampleIsBehind
    <2>1. PICK j \in 1..pos - 1 : mounts[j].path = sample[i].path
      BY DEF TableInv, SampleIsBehind
    <2> QED
      BY <1>4, <2>1
  <1>7. sample' = sample => OnePerPath'
    BY DEF TableInv, OnePerPath
  <1> QED
    BY <1>1, <1>2, <1>3, <1>4, <1>5, <1>6, <1>7 DEF TableInv, ReaderInv, OnceEach

\* A mount or an unmount at one path leaves what is seen elsewhere, and, but for
\* a line that was read already, what the reader has.
LEMMA KernelStep ==
    ASSUME TableInv, NEW path \in Path,
           Unmounts(path) \/ \E line \in Piece : line.path = path /\ Mounts(line)
    PROVE  /\ Len(file') <= MaxMounts
           /\ UNCHANGED <<readVars, mounts, pos, stuck, sample>>
           /\ touched' = touched \union {path}
           /\ torn' \in BOOLEAN /\ (~torn' => ~torn)
           /\ reader = "reading" /\ ~torn' => ReadsPrefix'
           /\ \A p : p # path => Seen(p)' = Seen(p)
  <1>1. /\ file \in Seq(Line) /\ Len(file) \in Nat /\ Len(buf) \in Nat
        /\ Len(file) <= MaxMounts /\ torn \in BOOLEAN
    BY LinesAreLines DEF TableInv, TypeOK, ProcfsTypeOK
  <1>2. CASE Unmounts(path)
    <2>1. PICK i \in 1..Len(file) :
              /\ IsTop(i, path)
              /\ Changes(RemoveAt(file, i))
              /\ torn' = (torn \/ (reader = "reading" /\ i <= Len(buf)))
      BY <1>2 DEF Unmounts
    <2>2. /\ file' = RemoveAt(file, i)
          /\ Len(file') = Len(file) - 1
          /\ \A j \in 1..Len(file') : file'[j] = file[IF j < i THEN j ELSE j + 1]
      BY <1>1, <2>1, RemoveAtElements DEF Changes
    <2>3. file[i].path = path
      BY <2>1 DEF IsTop, LinesAt
    <2>4. \A p : p # path => Seen(p)' = Seen(p)
      BY <1>1, <2>2, <2>3, UnmountsHere, SeenInFile
    <2>5. ASSUME reader = "reading", ~torn'
          PROVE  ReadsPrefix'
      <3>1. ReadsPrefix /\ i > Len(buf)
        <4>1. ~(torn \/ (reader = "reading" /\ i <= Len(buf)))
          BY <2>1, <2>5, Zenon
        <4>2. ~torn /\ ~(i <= Len(buf))
          BY <2>5, <4>1
        <4> QED
          BY <1>1, <2>1, <2>5, <4>2 DEF TableInv
      <3>2. buf' = buf
        BY <2>1 DEF Changes, readVars
      <3>3. Len(buf) <= Len(file')
        BY <1>1, <2>2, <3>1
      <3>4. ASSUME NEW j \in 1..Len(buf)
            PROVE  buf[j] = file'[j]
        <4>1. j < i /\ j \in 1..Len(file')
          BY <1>1, <3>1, <3>3
        <4> QED
          BY <2>2, <3>1, <4>1 DEF ReadsPrefix
      <3> QED
        BY <3>2, <3>3, <3>4 DEF ReadsPrefix
    <2>6. Len(file') <= MaxMounts
      BY <1>1, <2>2, MountTableAssumption
    <2>7. torn' \in BOOLEAN /\ (~torn' => ~torn)
      BY <1>1, <2>1
    <2>8. /\ UNCHANGED <<readVars, mounts, pos, stuck, sample>>
          /\ touched' = touched \union {path}
      BY <1>2, <2>1 DEF Unmounts, Changes
    <2> QED
      BY <2>4, <2>5, <2>6, <2>7, <2>8
  <1>3. ASSUME NEW line \in Piece, line.path = path, Mounts(line)
        PROVE  /\ Len(file') <= MaxMounts
               /\ reader = "reading" /\ ~torn' => ReadsPrefix'
               /\ \A p : p # path => Seen(p)' = Seen(p)
    <2>1. /\ file' = Append(file, line)
          /\ Len(file') = Len(file) + 1
          /\ \A j \in 1..Len(file) : file'[j] = file[j]
      BY <1>1, <1>3, AppendProperties, LineAssumption DEF Mounts, Changes
    <2>2. \A p : p # path => Seen(p)' = Seen(p)
      BY <1>1, <1>3, <2>1, MountsHere, SeenInFile, LineAssumption
    <2>3. ASSUME reader = "reading", ~torn'
          PROVE  ReadsPrefix'
      <3>1. ReadsPrefix /\ buf' = buf
        BY <1>3, <2>3 DEF TableInv, Mounts, Changes, readVars
      <3>2. \A j \in 1..Len(buf) : j \in 1..Len(file)
        BY <1>1, <3>1 DEF ReadsPrefix
      <3> QED
        BY <1>1, <2>1, <3>1, <3>2 DEF ReadsPrefix
    <2>4. Len(file') <= MaxMounts
      BY <1>1, <1>3, <2>1, MountTableAssumption DEF Mounts
    <2> QED
      BY <2>2, <2>3, <2>4
  <1>4. CASE \E line \in Piece : line.path = path /\ Mounts(line)
    <2>1. PICK line \in Piece : line.path = path /\ Mounts(line)
      BY <1>4
    <2>2. /\ UNCHANGED <<readVars, mounts, pos, stuck, sample, torn>>
          /\ touched' = touched \union {path}
      BY <2>1 DEF Mounts, Changes
    <2> QED
      BY <1>1, <1>3, <2>1, <2>2
  <1> QED
    BY <1>2, <1>4

\* Reading: nothing is measured, and what was read is a part of the table unless
\* that was torn.
LEMMA ReadingKeepsTable ==
    ASSUME TableInv, ReaderInv', StartsCollect \/ ReadsOn \/ Parses
    PROVE  TableInv'
  <1>1. /\ pos = 0 /\ file' = file /\ stuck' = stuck /\ sample' = sample /\ sample = <<>>
        /\ Len(file) <= MaxMounts /\ ProcfsTypeOK /\ touched \subseteq Path
    BY DEF TableInv, TypeOK, StartsCollect, ReadsOn, Parses, Waits, Opens, OpenFails,
           Reads, ReadFails, ReachesEnd
  <1>2. \A path : Seen(path)' = Seen(path)
    BY <1>1, SeenInFile
  <1>3. SampleIsBehind' /\ OnePerPath' /\ (pos' = 0 => sample' = <<>>)
    BY <1>1 DEF SampleIsBehind, OnePerPath
  <1>4. CASE StartsCollect
    <2>1. /\ touched' = {path \in touched : stuck[path].state # "absent"}
          /\ torn' = FALSE /\ mounts' = mounts /\ pos' = 0
          /\ Opens \/ OpenFails
      BY <1>4 DEF StartsCollect, Waits
    <2>2. touched' \subseteq Path
      BY <1>1, <2>1
    <2>3. TypeOK'
      BY <1>1, <2>1, <2>2 DEF TableInv, TypeOK, ReaderInv
    <2>4. CallsAreSeen'
      BY <1>1, <1>2, <2>1 DEF TableInv, CallsAreSeen
    <2>5. buf' = <<>>
      BY <2>1 DEF Opens, OpenFails
    <2>6. ReadsPrefix' /\ buf' \in Seq(Piece)
      BY <1>1, <2>5 DEF ReadsPrefix, ProcfsTypeOK
    <2> QED
      BY <1>3, <2>1, <2>3, <2>4, <2>6 DEF TableInv, OnceEach, MountsAreSeen
  <1>5. CASE ReadsOn
    <2>1. /\ touched' = touched /\ torn' = torn /\ mounts' = mounts /\ pos' = 0
          /\ Reads \/ ReadFails
      BY <1>5 DEF ReadsOn, Waits
    <2>2. TypeOK'
      BY <1>1, <2>1 DEF TableInv, TypeOK, ReaderInv
    <2>3. CallsAreSeen'
      BY <1>1, <1>2, <2>1 DEF TableInv, CallsAreSeen
    <2>4. reader' = "reading" => buf' \in Seq(Piece) /\ (~torn' => ReadsPrefix')
      BY <1>1, <2>1, ReadsAppends DEF TableInv, Reads, ReadFails
    <2> QED
      BY <1>3, <2>1, <2>2, <2>3, <2>4 DEF TableInv, OnceEach, MountsAreSeen
  <1>6. CASE Parses
    <2>1. ReachesEnd /\ touched' = touched /\ torn' = torn /\ reader' = "idle"
      BY <1>6 DEF Parses, ReachesEnd
    <2>2. CASE result' = "ok"
      <3>1. /\ mounts' = parse_mounts(buf) /\ pos' = 1
            /\ buf \in Seq(Piece) /\ reader = "reading"
        BY <1>6, <2>1, <2>2 DEF Parses, ReachesEnd, TableInv
      <3>2. mounts' \in Seq([path : Path, fs : Disk]) /\ OnceEach(mounts')
        BY <3>1, LinesAreLines, ParseMounts
      <3>3. ASSUME ~torn
            PROVE  buf = file
        <4>1. Len(buf) \in Nat /\ Len(file) \in Nat /\ ReadsPrefix
          BY <1>1, <3>1, <3>3 DEF TableInv, ProcfsTypeOK
        <4>2. Want > 0
          BY <1>1, <4>1, ProcfsAssumption DEF Want, Larger, ProcfsTypeOK
        <4>3. Len(buf) = Len(file)
          BY <2>1, <4>1, <4>2 DEF ReachesEnd, ReadsPrefix
        <4>4. buf \in Seq(Piece) /\ file \in Seq(Piece) /\ \A i \in 1..Len(buf) : buf[i] = file[i]
          BY <1>1, <3>1, <4>1 DEF ReadsPrefix, ProcfsTypeOK
        <4> QED
          BY <4>3, <4>4, SeqEqual
      <3>4. MountsAreSeen'
        <4>1. ASSUME ~torn
              PROVE  \A j \in 1..Len(mounts') :
                         \/ Seen(mounts'[j].path) \in Other
                         \/ mounts'[j].fs = Seen(mounts'[j].path)
          BY <1>1, <3>1, <3>3, <4>1, ParsedIsSeen
        <4> QED
          BY <1>2, <2>1, <4>1 DEF MountsAreSeen
      <3>5. TypeOK'
        <4>1. Len(mounts') \in Nat
          BY <3>2
        <4> QED
          BY <1>1, <2>1, <3>1, <3>2, <4>1 DEF TableInv, TypeOK, ReaderInv
      <3>6. CallsAreSeen'
        BY <1>1, <1>2, <2>1 DEF TableInv, CallsAreSeen
      <3> QED
        BY <1>3, <2>1, <3>1, <3>2, <3>4, <3>5, <3>6 DEF TableInv, OnceEach
    <2>3. CASE result' # "ok"
      <3>1. mounts' = mounts /\ pos' = 0
        BY <1>1, <1>6, <2>3 DEF Parses
      <3>2. TypeOK'
        BY <1>1, <2>1, <3>1 DEF TableInv, TypeOK, ReaderInv
      <3>3. CallsAreSeen'
        BY <1>1, <1>2, <2>1 DEF TableInv, CallsAreSeen
      <3> QED
        BY <1>3, <2>1, <3>1, <3>2, <3>3 DEF TableInv, OnceEach, MountsAreSeen
    <2> QED
      BY <2>2, <2>3
  <1> QED
    BY <1>4, <1>5, <1>6

\* Measuring: one record at most for the mount that is passed.
LEMMA MeasuringKeepsTable ==
    ASSUME TableInv, Answers \/ StatvfsFails \/ GivesUp \/ SkipsBlocked \/ TakesFinished
    PROVE  TableInv'
  <1>1. InLoop /\ NextMount /\ UNCHANGED <<procfsVars, mounts, touched, torn>>
    BY DEF Answers, StatvfsFails, GivesUp, SkipsBlocked, TakesFinished
  <1>2. /\ ReaderInv' /\ ProcfsTypeOK' /\ OnceEach(mounts)' /\ MountsAreSeen'
        /\ pos' \in 0..Len(mounts) + 1 /\ pos' # 0 /\ reader' # "reading"
        /\ sample' = sample => SampleIsBehind' /\ OnePerPath'
        /\ \A path : Seen(path)' = Seen(path)
    BY <1>1, PassesMount
  <1>3. /\ Here \in Path /\ \A path : Seen(path) \in Disk \union Other \union {"parent"}
    BY <1>1, HereType
  <1>4. stuck \in [Path -> Calls] /\ sample \in Seq(Record) /\ file' = file
    BY <1>1 DEF TableInv, TypeOK, procfsVars
  <1>5. sample' \in Seq(Record) /\ SampleIsBehind' /\ OnePerPath'
    <2>1. CASE sample' = sample
      BY <1>2, <1>4, <2>1
    <2>2. CASE sample' # sample
      <3>1. PICK fs \in Disk \union Other \union {"parent"} : Measures(fs)
        <4>1. CASE Answers
          BY <1>3, <4>1 DEF Answers
        <4>2. CASE TakesFinished
          <5>1. stuck[Here].fs \in Disk \union Other \union {"parent"}
            BY <1>3, <1>4 DEF Calls
          <5> QED
            BY <2>2, <4>2, <5>1 DEF TakesFinished
        <4> QED
          BY <2>2, <4>1, <4>2 DEF StatvfsFails, GivesUp, SkipsBlocked
      <3> QED
        BY <1>1, <3>1, MeasuresOnce
    <2> QED
      BY <2>1, <2>2
  <1>6. stuck' \in [Path -> Calls] /\ CallsAreSeen'
    <2>1. CASE stuck' = stuck
      BY <1>1, <1>2, <1>4, <2>1 DEF TableInv, CallsAreSeen
    <2>2. CASE GivesUp
      <3> DEFINE call == [state |-> "blocked", fs |-> Seen(Here)]
      <3>1. call \in Calls /\ call.fs = Seen(Here)
        BY <1>3 DEF Calls
      <3>2. stuck' = [stuck EXCEPT ![Here] = call]
        BY <2>2 DEF GivesUp
      <3> HIDE DEF call
      <3> QED
        BY <1>1, <1>2, <1>3, <1>4, <3>1, <3>2 DEF TableInv, CallsAreSeen
    <2>3. CASE TakesFinished
      <3>1. NoCall \in Calls /\ NoCall.state = "absent"
        BY DEF NoCall, Calls
      <3>2. stuck' = [stuck EXCEPT ![Here] = NoCall]
        BY <2>3 DEF TakesFinished
      <3> QED
        BY <1>1, <1>2, <1>3, <1>4, <3>1, <3>2 DEF TableInv, CallsAreSeen
    <2> QED
      BY <2>1, <2>2, <2>3 DEF Answers, StatvfsFails, SkipsBlocked
  <1>7. TypeOK'
    BY <1>1, <1>2, <1>4, <1>5, <1>6 DEF TableInv, TypeOK
  <1> QED
    BY <1>2, <1>5, <1>6, <1>7 DEF TableInv

\* Every step keeps the invariant.
LEMMA TableInvStep ==
    ASSUME TableInv, [Next]_vars
    PROVE  TableInv'
  <1>1. ReaderInv'
    BY CollectorIsReader, ReaderInvStep DEF TableInv, ReaderInv
  <1>2. CASE StartsCollect \/ ReadsOn \/ Parses
    BY <1>1, <1>2, ReadingKeepsTable
  <1>3. CASE Answers \/ StatvfsFails \/ GivesUp \/ SkipsBlocked \/ TakesFinished
    BY <1>3, MeasuringKeepsTable
  <1>4. CASE Ends
    <2>1. /\ UNCHANGED <<file, reader, buf, stuck, touched, torn>>
          /\ pos' = 0 /\ mounts' = <<>> /\ sample' = <<>>
      BY <1>4 DEF Ends, procfsVars, readVars
    <2>2. /\ mounts' \in Seq([path : Path, fs : Disk]) /\ Len(mounts') = 0
          /\ sample' \in Seq(Record) /\ Len(sample') = 0
      BY <2>1
    <2>3. TypeOK'
      <3>1. pos' \in 0..Len(mounts') + 1
        BY <2>1, <2>2
      <3> QED
        BY <1>1, <2>1, <2>2, <3>1 DEF TableInv, TypeOK, ReaderInv
    <2>4. CallsAreSeen'
      BY <2>1, SeenInFile DEF TableInv, CallsAreSeen
    <2>5. reader # "reading"
      BY <1>4 DEF Ends, TableInv
    <2> QED
      BY <1>1, <2>1, <2>2, <2>3, <2>4, <2>5 DEF TableInv, OnceEach, OnePerPath,
         SampleIsBehind, MountsAreSeen
  <1>5. ASSUME NEW path \in Path, Returns(path)
        PROVE  TableInv'
    <2>1. /\ UNCHANGED <<file, reader, buf, mounts, pos, sample, touched, torn>>
          /\ stuck[path].state = "blocked"
          /\ stuck' = [stuck EXCEPT ![path].state = "finished"]
          /\ stuck \in [Path -> Calls]
      BY <1>5 DEF Returns, procfsVars, readVars, TableInv, TypeOK
    <2>2. \A p : Seen(p)' = Seen(p)
      BY <2>1, SeenInFile
    <2>3. stuck[path] \in Calls
      BY <2>1
    <2>4. /\ stuck' \in [Path -> Calls] /\ stuck'[path].fs = stuck[path].fs
          /\ \A p \in Path : p # path => stuck'[p] = stuck[p]
      BY <2>1, <2>3 DEF Calls
    <2>5. CallsAreSeen'
      <3> SUFFICES ASSUME NEW p \in Path
                   PROVE  \/ stuck'[p].state = "absent" \/ p \in touched
                          \/ stuck'[p].fs = Seen(p)
        BY <2>1, <2>2 DEF CallsAreSeen
      <3>1. CASE p = path
        BY <2>1, <2>4, <3>1 DEF TableInv, CallsAreSeen
      <3>2. CASE p # path
        BY <2>4, <3>2 DEF TableInv, CallsAreSeen
      <3> QED
        BY <3>1, <3>2
    <2>6. TypeOK'
      BY <1>1, <2>1, <2>4 DEF TableInv, TypeOK, ReaderInv
    <2>7. MountsAreSeen' /\ SampleIsBehind' /\ OnePerPath' /\ (ReadsPrefix => ReadsPrefix')
      BY <2>1, <2>2 DEF TableInv, MountsAreSeen, SampleIsBehind, OnePerPath, ReadsPrefix
    <2> QED
      BY <1>1, <2>1, <2>5, <2>6, <2>7 DEF TableInv, OnceEach
  <1>6. ASSUME NEW path \in Path,
               Unmounts(path) \/ \E line \in Piece : line.path = path /\ Mounts(line)
        PROVE  TableInv'
    <2>1. /\ Len(file') <= MaxMounts
          /\ UNCHANGED <<reader, buf, mounts, pos, stuck, sample>>
          /\ touched' = touched \union {path}
          /\ torn' \in BOOLEAN /\ (~torn' => ~torn)
          /\ reader = "reading" /\ ~torn' => ReadsPrefix'
          /\ \A p : p # path => Seen(p)' = Seen(p)
      BY <1>6, KernelStep DEF readVars
    <2>2. TypeOK'
      BY <1>1, <2>1 DEF TableInv, TypeOK, ReaderInv
    <2>3. CallsAreSeen'
      BY <2>1 DEF TableInv, CallsAreSeen
    <2>4. MountsAreSeen'
      BY <2>1 DEF TableInv, MountsAreSeen
    <2> QED
      BY <1>1, <2>1, <2>2, <2>3, <2>4 DEF TableInv, OnceEach, OnePerPath, SampleIsBehind
  <1>7. CASE \E line \in Piece : Mounts(line)
    <2>1. PICK line \in Piece : Mounts(line)
      BY <1>7
    <2>2. line.path \in Path
      BY LineAssumption DEF Line
    <2> QED
      BY <1>6, <2>1, <2>2
  <1>8. CASE UNCHANGED vars
    <2>1. UNCHANGED <<file, reader, buf, mounts, pos, stuck, sample, touched, torn>>
      BY <1>8 DEF vars, tableVars, procfsVars, readVars
    <2>2. \A p : Seen(p)' = Seen(p)
      BY <2>1, SeenInFile
    <2>3. CallsAreSeen' /\ MountsAreSeen'
      BY <2>1, <2>2 DEF TableInv, CallsAreSeen, MountsAreSeen
    <2>4. TypeOK'
      BY <1>1, <2>1 DEF TableInv, TypeOK, ReaderInv
    <2> QED
      BY <1>1, <2>1, <2>3, <2>4 DEF TableInv, OnceEach, OnePerPath, SampleIsBehind, ReadsPrefix
  <1> QED
    BY <1>2, <1>3, <1>4, <1>5, <1>6, <1>7, <1>8 DEF Next, Collecting

\* What is left to measure, what was given up and what was recorded agree with
\* the mount table in every reachable state of the collector.
THEOREM TableInvariant == Spec => []TableInv
  BY TableInvInit, TableInvStep, PTL DEF Spec

\* No mount point is measured twice for one sample, for every mount table and
\* however the reads of it are cut (filesys.rs:95-129).
THEOREM OnePerPathThm == Spec => []OnePerPath
  <1>1. TableInv => OnePerPath
    BY DEF TableInv
  <1> QED
    BY <1>1, TableInvariant, PTL

\* The numbers of a record are those of the filesystem it names, but for the
\* changes the property lists (filesys.rs:189-209, 217-236).
THEOREM RecordsAreOfTheirDiskThm == Spec => RecordsAreOfTheirDisk
  <1> DEFINE Ok(i) == \/ i <= Len(sample)
                      \/ torn
                      \/ sample'[i].path \in touched
                      \/ Seen(sample'[i].path) \in Other
                      \/ sample'[i].measured = sample'[i].fs
  <1>1. ASSUME TableInv, [Next]_vars
        PROVE  [\A i \in 1..Len(sample') : Ok(i)]_vars
    <2>1. sample \in Seq(Record) /\ Len(sample) \in Nat
      BY <1>1 DEF TableInv, TypeOK
    <2>2. ASSUME NEW fs, InLoop, Measures(fs),
                 \/ torn \/ Here \in touched \/ Seen(Here) \in Other \/ fs = mounts[pos].fs
          PROVE  \A i \in 1..Len(sample') : Ok(i)
      <3> DEFINE last == [path |-> Here, fs |-> mounts[pos].fs, measured |-> fs]
      <3>1. sample' = Append(sample, last)
        BY <2>2 DEF Measures
      <3>2. last.path = Here /\ last.fs = mounts[pos].fs /\ last.measured = fs
        OBVIOUS
      <3> HIDE DEF last
      <3>3. Len(sample') = Len(sample) + 1 /\ sample'[Len(sample) + 1] = last
        BY <2>1, <3>1
      <3> SUFFICES ASSUME NEW i \in 1..Len(sample'), ~(i <= Len(sample))
                   PROVE  Ok(i)
        OBVIOUS
      <3>4. sample'[i] = last
        BY <2>1, <3>3
      <3> QED
        BY <2>2, <3>2, <3>4
    <2>3. ASSUME InLoop
          PROVE  \/ torn \/ Here \in touched \/ Seen(Here) \in Other
                 \/ Seen(Here) = mounts[pos].fs
      BY <1>1, <2>3 DEF TableInv, TypeOK, MountsAreSeen, InLoop, Here
    <2>4. CASE Answers
      <3>1. InLoop /\ Measures(Seen(Here))
        BY <2>4 DEF Answers
      <3> QED
        BY <2>2, <2>3, <3>1
    <2>5. CASE TakesFinished /\ sample' # sample
      <3>1. InLoop /\ Measures(stuck[Here].fs) /\ stuck[Here].state # "absent"
        BY <2>5 DEF TakesFinished
      <3>2. Here \in touched \/ stuck[Here].fs = Seen(Here)
        BY <1>1, <3>1, HereType DEF TableInv, CallsAreSeen
      <3> QED
        BY <2>2, <2>3, <3>1, <3>2
    <2>6. CASE sample' = sample \/ sample' = <<>>
      <3>1. \A i \in 1..Len(sample') : i <= Len(sample)
        BY <2>1, <2>6
      <3> QED
        BY <3>1
    <2>7. \/ Answers \/ (TakesFinished /\ sample' # sample)
          \/ sample' = sample \/ sample' = <<>>
      BY <1>1 DEF Next, Collecting, StartsCollect, ReadsOn, Parses, Waits, StatvfsFails,
         GivesUp, SkipsBlocked, Ends, Returns, Unmounts, Mounts, vars, tableVars
    <2> QED
      BY <2>4, <2>5, <2>6, <2>7
  <1> QED
    BY <1>1, TableInvariant, PTL DEF Spec, RecordsAreOfTheirDisk

=============================================================================
