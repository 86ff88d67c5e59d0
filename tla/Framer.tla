------------------------------- MODULE Framer -------------------------------
(***************************************************************************)
(* framer::frames: a payload cut into frames that each fit into one        *)
(* packet.  A payload is its length; a frame is its header and the length  *)
(* of its chunk.  The number of frames in the header and the chunks are    *)
(* computed apart in the code, and so they are here.                       *)
(***************************************************************************)
EXTENDS Integers, Sequences

CONSTANT FrameLimit  \* stands for u32::MAX, the most frames a header can count

ASSUME FrameAssumption == FrameLimit \in Nat \ {0}

FRAME_HEADER_LEN == 21

Frame == [stream_id : Nat, frame_index : Nat, frame_total : Int, chunk : Int]

MutTotalRoundsDown(payload, chunk_max) ==
    IF payload < chunk_max THEN 1 ELSE payload \div chunk_max

\* usize::div_ceil; an empty payload is one frame.
FrameTotal(payload, chunk_max) ==
    IF payload = 0 THEN 1 ELSE (payload + chunk_max - 1) \div chunk_max

\* frames() returns an error when no chunk fits or the header cannot count.
CanFrame(payload, max_frame_len) ==
    LET chunk_max == max_frame_len - FRAME_HEADER_LEN IN
    /\ chunk_max > 0 \/ (chunk_max = 0 /\ payload = 0)
    /\ FrameTotal(payload, chunk_max) <= FrameLimit

\* The lengths of the slices that payload.chunks(chunk_max) yields.
Chunks(payload, chunk_max) ==
    LET count == payload \div chunk_max + (IF payload % chunk_max = 0 THEN 0 ELSE 1)
        Rest(i) == payload - (i - 1) * chunk_max
    IN IF payload = 0 THEN <<0>>
       ELSE [i \in 1..count |-> IF Rest(i) < chunk_max THEN Rest(i) ELSE chunk_max]

Frames(payload, stream_id, max_frame_len) ==
    LET chunk_max == max_frame_len - FRAME_HEADER_LEN
        chunks == Chunks(payload, chunk_max)
    IN [i \in 1..Len(chunks) |->
           [stream_id |-> stream_id, frame_index |-> i - 1,
            frame_total |-> FrameTotal(payload, chunk_max), chunk |-> chunks[i]]]

=============================================================================
