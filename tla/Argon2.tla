------------------------------- MODULE Argon2 -------------------------------
(***************************************************************************)
(* How Argon2 fills its memory: argon2_ctx() in argon2.c, the loops of     *)
(* argon2-core.c, index_alpha() of argon2-core.h and fill_segment() of     *)
(* argon2-fill-block-ref.c.  The content of a block is abstracted to the   *)
(* number of times it was written; which block a new one is made from is   *)
(* not, and a pseudo-random value may be anything a word can hold.         *)
(***************************************************************************)
EXTENDS Integers

CONSTANTS
    Lanes,       \* numbers of lanes,
    MemoryCosts, \* of blocks that are asked for,
    Passes,      \* and of passes over them
    WordMod      \* 2^32: the values of each half of a pseudo-random number

SYNC_POINTS == 4

(* What argon2_validate_inputs() lets through.                             *)
Inputs ==
    {i \in [lanes : Lanes, m_cost : MemoryCosts, t_cost : Passes] : i.m_cost >= 8 * i.lanes}

VARIABLES
    input,
    at,          \* where the filling is, and the blocks last read and written
    mem          \* mem[b]: how many times block b has been written

vars == <<input, at, mem>>

-----------------------------------------------------------------------------
(* argon2_ctx(): at least eight blocks per lane, segments of equal length. *)
MemoryBlocks ==
    LET least == 2 * SYNC_POINTS * input.lanes
    IN  IF input.m_cost < least THEN least ELSE input.m_cost

SegmentLength == MemoryBlocks \div (input.lanes * SYNC_POINTS)
LaneLength    == SegmentLength * SYNC_POINTS
Blocks        == 0 .. (input.lanes * LaneLength - 1)

(* argon2_fill_first_blocks(): two blocks of each lane.                    *)
FirstBlocks == [b \in Blocks |-> IF b % LaneLength < 2 THEN 1 ELSE 0]

NoBlock == -1

Start == [stage |-> "segment", pass |-> 0, slice |-> 0, lane |-> 0, index |-> 0,
          curr |-> 0, prev |-> 0, read |-> NoBlock, wrote |-> NoBlock]

Init == input \in Inputs /\ at = Start /\ mem = FirstBlocks

FirstSlice == at.pass = 0 /\ at.slice = 0

(* fill_segment(), up to its loop.                                         *)
BeginSegment ==
    LET first == IF FirstSlice THEN 2 ELSE 0
        curr  == at.lane * LaneLength + at.slice * SegmentLength + first
    IN  /\ at.stage = "segment"
        /\ at' = [at EXCEPT !.stage = "block", !.index = first, !.curr = curr,
                            !.prev = IF curr % LaneLength = 0 THEN curr + LaneLength - 1
                                                              ELSE curr - 1]
        /\ UNCHANGED <<input, mem>>

(* index_alpha(): how many blocks may be referenced, ...                   *)
AreaSize(sameLane) ==
    LET finished == IF at.pass = 0 THEN at.slice * SegmentLength
                                   ELSE LaneLength - SegmentLength
    IN  IF sameLane THEN finished + at.index - 1
        ELSE IF at.index = 0 THEN finished - 1 ELSE finished

(* ... and the one a pseudo-random value stands for: the position counted  *)
(* from the oldest of these blocks, and wrapped in the lane.               *)
StartPosition ==
    IF at.pass = 0 \/ at.slice = SYNC_POINTS - 1 THEN 0 ELSE (at.slice + 1) * SegmentLength

Relative(j1, area) ==
    LET x == (j1 * j1) \div WordMod
    IN  area - 1 - ((area * x) \div WordMod)

(* Mutant: the area has the previous block too.                            *)
RefIndexCountsPrevious(j1, sameLane) ==
    LET absolute == StartPosition + Relative(j1, AreaSize(sameLane) + 1)
    IN  IF absolute < LaneLength THEN absolute ELSE absolute - LaneLength

RefIndex(j1, sameLane) ==
    LET absolute == StartPosition + Relative(j1, AreaSize(sameLane))
    IN  IF absolute < LaneLength THEN absolute ELSE absolute - LaneLength

RefLane(j2) == IF FirstSlice THEN at.lane ELSE j2 % input.lanes

RefBlock(j1, j2) ==
    LET lane == RefLane(j2)
    IN  LaneLength * lane + RefIndex(j1, lane = at.lane)

(* The loop of fill_segment(): prev_offset is set right at the second      *)
(* block of a lane, where it had to be the last one for the first.         *)
PrevOffset == IF at.curr % LaneLength = 1 THEN at.curr - 1 ELSE at.prev

FillBlock(j1, j2) ==
    /\ at.stage = "block" /\ at.index < SegmentLength
    /\ mem' = [mem EXCEPT ![at.curr] = @ + 1]
    /\ at' = [at EXCEPT !.index = @ + 1, !.curr = @ + 1, !.prev = PrevOffset + 1,
                        !.read = <<PrevOffset, RefBlock(j1, j2)>>, !.wrote = at.curr]
    /\ UNCHANGED input

(* argon2_fill_memory_blocks(): lanes within slices within passes.         *)
EndSegment ==
    LET lane  == (at.lane + 1) % input.lanes
        slice == IF lane = 0 THEN (at.slice + 1) % SYNC_POINTS ELSE at.slice
        pass  == IF lane = 0 /\ slice = 0 THEN at.pass + 1 ELSE at.pass
    IN  /\ at.stage = "block" /\ at.index >= SegmentLength
        /\ at' = [Start EXCEPT !.stage = IF pass < input.t_cost THEN "segment" ELSE "finalize",
                               !.pass = pass, !.slice = slice, !.lane = lane]
        /\ UNCHANGED <<input, mem>>

(* argon2_finalize() reads the last block of every lane.                   *)
LastBlocks == {l * LaneLength + (LaneLength - 1) : l \in 0 .. (input.lanes - 1)}

Finalize ==
    /\ at.stage = "finalize"
    /\ at' = [at EXCEPT !.stage = "done"]
    /\ UNCHANGED <<input, mem>>

Next ==
    \/ BeginSegment
    \/ \E j1 \in 0 .. (WordMod - 1), j2 \in 0 .. (input.lanes - 1) : FillBlock(j1, j2)
    \/ EndSegment
    \/ Finalize

Spec == Init /\ [][Next]_vars

-----------------------------------------------------------------------------
(* Properties.                                                             *)

Lane(b)    == b \div LaneLength
Segment(b) == (b % LaneLength) \div SegmentLength

(* A block is made from the one before it in its lane, which is finished,  *)
(* and from another one in the reference area of RFC 9106: finished,       *)
(* neither itself nor the one before (nor, for the first of a segment, one *)
(* at that place in another lane), of this pass if in this segment, and    *)
(* never one that another lane writes in the same slice, so that the lanes *)
(* of a slice may be filled in any order.                                  *)
ReadsFinishedBlocks ==
    at.wrote # NoBlock =>
        LET prev == at.read[1]
            ref  == at.read[2]
            cur  == at.wrote
        IN  /\ prev = (Lane(cur) * LaneLength) + ((cur - 1) % LaneLength)
            /\ mem[prev] > 0
            /\ ref \in Blocks /\ mem[ref] > 0 /\ ref \notin {cur, prev}
            /\ cur % SegmentLength = 0 => ref % LaneLength # prev % LaneLength
            /\ Segment(ref) = Segment(cur) => Lane(ref) = Lane(cur) /\ ref < cur

(* When it is done, every block has been written once in each pass, those   *)
(* the result is made of included.                                         *)
EveryPassFillsTheMemory ==
    at.stage \in {"finalize", "done"} =>
        /\ \A b \in Blocks : mem[b] = input.t_cost
        /\ LastBlocks \subseteq Blocks

(* Both: Argon2 fills its memory in an order in which nothing is read      *)
(* before it is there, and nothing is left out.                            *)
Argon2FillsInOrder == ReadsFinishedBlocks /\ EveryPassFillsTheMemory
=============================================================================
