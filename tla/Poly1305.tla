------------------------------ MODULE Poly1305 ------------------------------
(***************************************************************************)
(* The buffering of Poly1305 (crypto_onetimeauth/poly1305/donna): whole    *)
(* blocks count with a high bit, the last partial one is marked instead.   *)
(***************************************************************************)
EXTENDS StreamBytes

CONSTANTS
    Block,      \* poly1305_block_size, 16
    Chunks,     \* the lengths of updates
    MaxIn       \* bound: bytes fed, all messages together

VARIABLES
    s,          \* the state: h, buf, leftover, final
    todo, before, fed, out      \* as in Blake2b

vars == <<s, todo, before, fed, out>>

(* poly1305_init(): the buffer keeps what it had                           *)
Fresh(buf) == [h |-> <<>>, buf |-> buf, leftover |-> 0, final |-> FALSE]

Init == s = Fresh(Zeros(Block)) /\ todo = 0 /\ before = 0 /\ fed = 0 /\ out = <<>>

Restart ==
    /\ todo = 0
    /\ s' = Fresh(s.buf)
    /\ before' = fed /\ out' = <<>>
    /\ UNCHANGED <<todo, fed>>

(* poly1305_blocks() of one block                                          *)
Absorb(st, block) == [st EXCEPT !.h = Append(@, [block |-> block, hibit |-> ~ st.final])]

(* poly1305_update(): the leftover of the last call is completed first,    *)
(* then a block at a time, then what remains.                              *)
Update(n) ==
    LET want == IF s.leftover > 0 THEN Least(Block - s.leftover, n) ELSE 0
        more == [s EXCEPT !.buf = Copy(@, s.leftover, fed + 1, want), !.leftover = @ + want]
    IN  /\ todo = 0 /\ out = <<>> /\ fed + n <= MaxIn
        /\ s' = IF more.leftover < Block THEN more
                ELSE [Absorb(more, more.buf) EXCEPT !.leftover = 0]
        /\ fed' = fed + n /\ todo' = n - want
        /\ UNCHANGED <<before, out>>

UpdateBlock ==
    /\ todo >= Block
    /\ s' = Absorb(s, InBlock(fed - todo + 1, Block))
    /\ todo' = todo - Block
    /\ UNCHANGED <<before, fed, out>>

UpdateTail ==
    /\ todo \in 1 .. (Block - 1)
    /\ s' = [s EXCEPT !.buf = Copy(@, s.leftover, fed - todo + 1, todo), !.leftover = @ + todo]
    /\ todo' = 0
    /\ UNCHANGED <<before, fed, out>>

(* Mutant: the bytes after the mark are those of an earlier block.         *)
CloseWithoutZeros(st) ==
    IF st.leftover = 0 THEN st
    ELSE Absorb([st EXCEPT !.final = TRUE], [st.buf EXCEPT ![st.leftover] = Mark])

(* poly1305_finish()                                                       *)
Close(st) ==
    IF st.leftover = 0 THEN st
    ELSE Absorb([st EXCEPT !.final = TRUE],
                ZeroFrom([st.buf EXCEPT ![st.leftover] = Mark], st.leftover + 1))

Finish ==
    /\ todo = 0 /\ out = <<>>
    /\ out' = <<[len |-> fed - before, h |-> Close(s).h]>>
    /\ s' = Fresh(Zeros(Block))
    /\ UNCHANGED <<todo, before, fed>>

Next ==
    \/ Restart
    \/ \E n \in Chunks : Update(n)
    \/ UpdateBlock
    \/ UpdateTail
    \/ Finish

Spec == Init /\ [][Next]_vars

-----------------------------------------------------------------------------
(* Properties.                                                             *)

TypeOK ==
    /\ DOMAIN s.buf = 0 .. (Block - 1) /\ s.leftover \in 0 .. (Block - 1) /\ s.final \in BOOLEAN
    /\ fed \in 0 .. MaxIn /\ before \in 0 .. fed /\ todo \in 0 .. fed

(* RFC 8439: each block with a bit above it; an empty message has none.    *)
Tag(len) ==
    LET n       == (len + Block - 1) \div Block
        byte(p) == IF p < len THEN In(before + 1 + p) ELSE IF p = len THEN Mark ELSE Zero
    IN  [k \in 1 .. n |-> [block |-> Cut(byte, n, Block)[k], hibit |-> k * Block <= len]]

(* However the message is cut into updates, and whatever an earlier one    *)
(* left in the buffer, final() authenticates the message.                  *)
AuthenticatesTheMessage == \A i \in DOMAIN out : out[i].h = Tag(out[i].len)

(* Every tag is that of the whole message, however it was cut into updates,*)
(* with the buffer and the counts of bytes in range.                       *)
Poly1305Authenticates == TypeOK /\ AuthenticatesTheMessage
=============================================================================
