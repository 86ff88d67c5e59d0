------------------------------- MODULE Procfs -------------------------------
(***************************************************************************)
(* ProcFile::read and read_into: a kernel file is read piece by piece into *)
(* a buffer that is kept for the next cycle.  A piece is what the kernel   *)
(* never splits, a line of a seq_file; the buffer is measured in pieces.   *)
(* The file may change between two read(2) calls.                          *)
(***************************************************************************)
EXTENDS Integers, Sequences

CONSTANTS
    Piece,      \* the lines a file may have
    Invalid,    \* those that are not UTF-8
    NUL,        \* what resize() fills the buffer with
    CHUNK       \* the least room offered to a read

ASSUME ProcfsAssumption ==
    /\ Invalid \subseteq Piece
    /\ NUL \notin Piece
    /\ CHUNK \in Nat \ {0}

VARIABLES
    file,       \* what the kernel would print now
    reader,     \* "idle" between calls, "reading" inside read_into
    buf,        \* ProcFile.buf
    capacity,   \* of buf
    result,     \* of the last call: "none", "ok" or "failed"
    steady,     \* history: the file has not changed since it was opened
    longest     \* history: length of the longest text read so far

readVars == <<reader, buf, capacity, result, longest>>
procfsVars == <<file, steady, readVars>>

ProcfsTypeOK ==
    /\ file \in Seq(Piece)
    /\ reader \in {"idle", "reading"}
    /\ buf \in Seq(Piece \union {NUL})
    /\ capacity \in Nat
    /\ result \in {"none", "ok", "failed"}
    /\ steady \in BOOLEAN
    /\ longest \in Nat \union {-1}

ProcfsInit ==
    /\ reader = "idle"
    /\ buf = <<>>
    /\ capacity = 0
    /\ result = "none"
    /\ steady = TRUE
    /\ longest = -1

-----------------------------------------------------------------------------
\* read() clears the buffer, which keeps its capacity, and opens the file.
Opens ==
    /\ reader = "idle"
    /\ reader' = "reading"
    /\ buf' = <<>>
    /\ result' = "none"
    /\ steady' = TRUE
    /\ UNCHANGED <<file, capacity, longest>>

OpenFails ==
    /\ reader = "idle"
    /\ buf' = <<>>
    /\ result' = "failed"
    /\ UNCHANGED <<file, reader, capacity, steady, longest>>

Larger(a, b) == IF a < b THEN b ELSE a

MutWant == capacity - Len(buf)

MutWantMore == capacity - Len(buf) + CHUNK

\* The room offered to the next read.
Want == Larger(capacity - Len(buf), CHUNK)

\* Vec::resize: an amortised reallocation when the capacity does not suffice.
Resizes ==
    capacity' = IF Len(buf) + Want <= capacity THEN capacity
                ELSE Larger(2 * capacity, Len(buf) + Want)

\* read(2) delivers some pieces, at least one.
Reads ==
    /\ reader = "reading"
    /\ Len(buf) < Len(file)
    /\ Resizes
    /\ \E n \in 1..Want :
           /\ Len(buf) + n <= Len(file)
           /\ buf' = buf \o SubSeq(file, Len(buf) + 1, Len(buf) + n)
    /\ UNCHANGED <<file, reader, result, steady, longest>>

\* It delivers nothing, at the end of the file or without room: a text with an
\* invalid piece is thrown away.
ReachesEnd ==
    /\ reader = "reading"
    /\ Len(buf) >= Len(file) \/ Want = 0
    /\ Resizes
    /\ reader' = "idle"
    /\ IF \E i \in 1..Len(buf) : buf[i] \in Invalid
       THEN buf' = <<>> /\ result' = "failed"
       ELSE UNCHANGED buf /\ result' = "ok"
    /\ longest' = Larger(longest, Len(buf))
    /\ UNCHANGED <<file, steady>>

\* It fails (EINTR is not retried): the early return leaves the filler, unless
\* the text is thrown away as invalid.
ReadFails ==
    /\ reader = "reading"
    /\ Resizes
    /\ reader' = "idle"
    /\ result' = "failed"
    /\ buf' = IF \E i \in 1..Len(buf) : buf[i] \in Invalid THEN <<>>
              ELSE buf \o [i \in 1..Want |-> NUL]
    /\ UNCHANGED <<file, steady, longest>>

\* The kernel's side.
Changes(next) ==
    /\ file' = next
    /\ steady' = FALSE
    /\ UNCHANGED readVars

-----------------------------------------------------------------------------
\* What has been read is a part of the file, while the file does not change.
ReadsPrefix ==
    /\ Len(buf) <= Len(file)
    /\ \A i \in 1..Len(buf) : buf[i] = file[i]

\* Inductive: besides the types, the room that the longest text so far has left
\* is at least a chunk, the room that the read at the end of the file needs.
ReaderInv ==
    /\ ProcfsTypeOK
    /\ reader = "reading" => result = "none"
    /\ reader = "reading" /\ steady => ReadsPrefix
    /\ result = "ok" /\ steady => buf = file
    /\ longest >= 0 => capacity >= longest + CHUNK

-----------------------------------------------------------------------------
(* Properties *)

\* A read that reports success returns the file and nothing else, whatever the
\* calls before it have left in the buffer and however the reads were cut
\* (procfs.rs:35, 54-64): no part missing, no filler, nothing twice.
WholeFile == result = "ok" /\ steady => buf = file

\* procfs.rs:48-49: the buffer "grows to the file size on the first call and is
\* not reallocated afterwards": only a text longer than every one before, the
\* invalid ones included, makes it grow.
SteadyBuffer == [][capacity' # capacity => Len(buf) > longest]_procfsVars

=============================================================================
