------------------------------- MODULE Sponge -------------------------------
(***************************************************************************)
(* The sponges over Keccak: SHAKE and TurboSHAKE (crypto_xof/), which can  *)
(* be squeezed any number of times, and SHA-3 (crypto_hash/sha3/).  All    *)
(* permute lazily: a full block is permuted when something must follow it. *)
(* The state is what was XORed in since the last permutation, and the      *)
(* blocks each earlier permutation was given.                              *)
(***************************************************************************)
EXTENDS StreamBytes

CONSTANTS
    Rate,       \* bytes of the state that take input and give output
    OutLen,     \* the digest of SHA-3, at most Rate
    Chunks,     \* the lengths of updates and of squeezes
    MaxIn,      \* bound: bytes fed
    MaxOut,     \* bound: bytes squeezed out of a message
    MaxBlocks   \* bound: permutations

VARIABLES
    s,          \* the state: xof, done, cells, offset, squeezing
    todo,       \* what is left of the call in progress
    before,     \* bytes fed before this message
    fed,        \* bytes fed
    out,        \* what was squeezed out of this message
    base        \* the blocks permuted before this message

vars == <<s, todo, before, fed, out, base>>

Blank == [i \in 0 .. (Rate - 1) |-> {}]

Init ==
    /\ \E xof \in BOOLEAN :
          s = [xof |-> xof, done |-> <<>>, cells |-> Blank, offset |-> 0, squeezing |-> FALSE]
    /\ todo = 0 /\ before = 0 /\ fed = 0 /\ out = <<>> /\ base = <<>>

Permute(st) == [st EXCEPT !.done = Append(@, st.cells), !.cells = Blank, !.offset = 0]

(* A cell is the XOR of the bytes in it: those that occur an odd number of *)
(* times.                                                                  *)
Flip(set, x) == IF x \in set THEN set \ {x} ELSE set \cup {x}

(* crypto_core_keccak1600_xor_bytes() of n bytes of input at `at'          *)
XorIn(st, at, from, n) ==
    [st EXCEPT !.cells = [i \in DOMAIN @ |-> IF i \in at .. (at + n - 1)
                                             THEN Flip(@[i], In(from + i - at)) ELSE @[i]],
               !.offset = at + n]

(* The offset stays at the end of a full block until more must follow.     *)
PermuteIfFull(st, more) == IF st.offset = Rate /\ more THEN Permute(st) ELSE st

-----------------------------------------------------------------------------
(* shake128_ref_update(), sha3_update(): in the midst of a block, then a   *)
(* block at a time, then the rest.  After a squeeze it returns -1, but     *)
(* absorbs into the permuted state.                                        *)

(* How many blocks the squeezing has used: base moves past them.           *)
Stride  == IF s.xof THEN Rate ELSE OutLen
Blanks(n) == [k \in 1 .. n |-> Blank]

Padded(len) ==
    LET n       == len \div Rate + 1
        byte(p) == (IF p < len THEN {In(before + 1 + p)} ELSE {})
                   \cup (IF p = len THEN {Mark} ELSE {})
                   \cup (IF p = n * Rate - 1 THEN {EndBit} ELSE {})
    IN  Cut(byte, n, Rate)

Spent == LET n == (Len(out) + Stride - 1) \div Stride IN IF n = 0 THEN 1 ELSE n

TopUp(st, n) ==    \* the first block of an update, when it is begun already
    LET ready == PermuteIfFull(st, n > 0)
        room  == IF ready.offset = 0 THEN 0 ELSE Least(Rate - ready.offset, n)
    IN  IF room = 0 THEN ready ELSE PermuteIfFull(XorIn(ready, ready.offset, fed + 1, room), room < n)

TopUpLength(st, n) ==
    IF st.offset \in 1 .. (Rate - 1) THEN Least(Rate - st.offset, n) ELSE 0

Update(n) ==
    /\ todo = 0 /\ fed + n <= MaxIn /\ ~ s.squeezing
    /\ s' = TopUp(s, n)
    /\ fed' = fed + n /\ todo' = n - TopUpLength(s, n)
    /\ UNCHANGED <<before, out, base>>

(* Mutant: input is absorbed into the block that was squeezed.             *)
LateUpdateNotPermuted(n) ==
    /\ todo = 0 /\ fed + n <= MaxIn /\ s.squeezing /\ Len(s.done) < MaxBlocks
    /\ s' = [s EXCEPT !.squeezing = FALSE, !.offset = 0]
    /\ before' = fed /\ out' = <<>> /\ base' = base \o Padded(fed - before) \o Blanks(Spent)
    /\ fed' = fed + n /\ todo' = n

LateUpdate(n) ==
    /\ todo = 0 /\ fed + n <= MaxIn /\ s.squeezing /\ Len(s.done) < MaxBlocks
    /\ s' = [Permute(s) EXCEPT !.squeezing = FALSE]
    /\ before' = fed /\ out' = <<>> /\ base' = base \o Padded(fed - before) \o Blanks(Spent)
    /\ fed' = fed + n /\ todo' = n

UpdateBlock ==
    /\ todo >= Rate /\ ~ s.squeezing
    /\ s' = PermuteIfFull(XorIn(s, 0, fed - todo + 1, Rate), todo > Rate)
    /\ todo' = todo - Rate
    /\ UNCHANGED <<before, fed, out, base>>

UpdateRest ==
    /\ todo \in 1 .. (Rate - 1) /\ ~ s.squeezing
    /\ s' = XorIn(s, 0, fed - todo + 1, todo)
    /\ todo' = 0
    /\ UNCHANGED <<before, fed, out, base>>

-----------------------------------------------------------------------------
(* shake128_finalize()                                                     *)
Finalize(st) ==
    LET ready == PermuteIfFull(st, TRUE)
        cells == [ready.cells EXCEPT ![ready.offset] = Flip(@, Mark)]
        ends  == [cells EXCEPT ![Rate - 1] = Flip(@, EndBit)]
    IN  [Permute([ready EXCEPT !.cells = ends]) EXCEPT !.squeezing = TRUE]

(* crypto_core_keccak1600_extract_bytes() of n bytes at `at'               *)
Extract(st, at, n) ==
    [k \in 1 .. n |-> [done |-> st.done, at |-> at + k - 1, cell |-> st.cells[at + k - 1]]]

(* shake128_ref_squeeze(): the same three steps.                           *)
Squeeze(n) ==
    LET fresh == IF s.squeezing THEN s ELSE Finalize(s)
        ready == PermuteIfFull(fresh, n > 0)
        room  == IF ready.offset = 0 THEN 0 ELSE Least(Rate - ready.offset, n)
    IN  /\ todo = 0 /\ s.xof /\ Len(out) + n <= MaxOut
        /\ s' = PermuteIfFull([ready EXCEPT !.offset = @ + room], room < n)
        /\ out' = out \o Extract(ready, ready.offset, room)
        /\ todo' = n - room
        /\ UNCHANGED <<before, fed, base>>

SqueezeBlock ==
    /\ todo >= Rate /\ s.squeezing
    /\ out' = out \o Extract(s, 0, Rate)
    /\ s' = PermuteIfFull([s EXCEPT !.offset = Rate], todo > Rate)
    /\ todo' = todo - Rate
    /\ UNCHANGED <<before, fed, base>>

SqueezeRest ==
    /\ todo \in 1 .. (Rate - 1) /\ s.squeezing
    /\ out' = out \o Extract(s, 0, todo)
    /\ s' = [s EXCEPT !.offset = todo]
    /\ todo' = 0
    /\ UNCHANGED <<before, fed, base>>

(* sha3_final(); a second one returns -1, and other bytes                  *)
Sha3Final ==
    LET st == IF s.squeezing THEN Permute(s) ELSE Finalize(s)
    IN  /\ todo = 0 /\ ~ s.xof /\ Len(out) + OutLen <= MaxOut
        /\ s' = [st EXCEPT !.offset = 0]
        /\ out' = out \o Extract(st, 0, OutLen)
        /\ UNCHANGED <<todo, before, fed, base>>

Next ==
    \/ \E n \in Chunks : Update(n) \/ LateUpdate(n) \/ Squeeze(n)
    \/ UpdateBlock
    \/ UpdateRest
    \/ SqueezeBlock
    \/ SqueezeRest
    \/ Sha3Final

Spec == Init /\ [][Next]_vars

-----------------------------------------------------------------------------
(* Properties.                                                             *)

TypeOK ==
    /\ s.offset \in 0 .. Rate /\ DOMAIN s.cells = 0 .. (Rate - 1)
    /\ s.xof \in BOOLEAN /\ s.squeezing \in BOOLEAN
    /\ fed \in 0 .. MaxIn /\ before \in 0 .. fed

(* FIPS 202: however the message is cut into updates and the output into   *)
(* squeezes, byte j of the output is byte j of the sponge's: the message   *)
(* padded to whole blocks, then one permutation per block of output.  It   *)
(* holds again for what is absorbed after an output, so that no byte ever  *)
(* comes out twice.                                                        *)
SqueezesTheSponge ==
    \A j \in DOMAIN out :
        LET k == (j - 1) \div Stride
        IN  out[j] = [done |-> base \o Padded(fed - before) \o Blanks(k),
                      at   |-> (j - 1) % Stride, cell |-> {}]

(* Every byte squeezed is that of the sponge over the whole message,       *)
(* however it was cut, with the offset inside the block.                   *)
SpongeSqueezes == TypeOK /\ SqueezesTheSponge
=============================================================================
