-------------------------------- MODULE Sha2 --------------------------------
(***************************************************************************)
(* The buffering and padding of SHA-256 and SHA-512 (crypto_hash/): the    *)
(* two differ in the width of the bit counter, one word or two.            *)
(***************************************************************************)
EXTENDS StreamBytes

CONSTANTS
    Block,       \* 64 or 128 bytes
    LengthBytes, \* 8 or 16: the room for the counter in the last block
    WordMod,     \* 2^64: the width of a word of the counter, in bits
    Chunks,      \* the lengths of updates
    MaxIn        \* bound: bytes fed, all messages together

VARIABLES
    s,           \* the state: the counter (hi, lo), the blocks, the buffer
    todo, before, fed, out      \* as in Blake2b

vars == <<s, todo, before, fed, out>>

PadAt == Block - LengthBytes     \* 56 or 112

(* crypto_hash_sha256_init(): the buffer keeps what it had                 *)
Fresh(wide, buf) == [wide |-> wide, hi |-> 0, lo |-> 0, h |-> <<>>, buf |-> buf]

Init ==
    /\ \E wide \in BOOLEAN : s = Fresh(wide, Zeros(Block))
    /\ todo = 0 /\ before = 0 /\ fed = 0 /\ out = <<>>

Restart ==
    /\ todo = 0
    /\ s' = Fresh(s.wide, s.buf)
    /\ before' = fed /\ out' = <<>>
    /\ UNCHANGED <<todo, fed>>

(* The counter after n more bytes: the carry exists in SHA-512 only.       *)
Count(st, n) ==
    LET bits == (8 * n) % WordMod
        low  == (st.lo + bits) % WordMod
        high == (st.hi + (IF low < bits THEN 1 ELSE 0) + ((8 * n) \div WordMod)) % WordMod
    IN  [st EXCEPT !.lo = low, !.hi = IF st.wide THEN high ELSE 0]

Residue(st) == (st.lo \div 8) % Block

Transform(st, block) == [st EXCEPT !.h = Append(@, block)]

(* crypto_hash_sha256_update(): an update that leaves the block unfinished *)
(* one that finishes it, then a turn of the loop at a time, and the rest.  *)
UpdateShort(n) ==
    /\ todo = 0 /\ out = <<>> /\ n > 0 /\ fed + n <= MaxIn
    /\ n < Block - Residue(s)
    /\ s' = [Count(s, n) EXCEPT !.buf = Copy(@, Residue(s), fed + 1, n)]
    /\ fed' = fed + n
    /\ UNCHANGED <<todo, before, out>>

UpdateLong(n) ==
    LET room == Block - Residue(s)
        full == [Count(s, n) EXCEPT !.buf = Copy(@, Residue(s), fed + 1, room)]
    IN  /\ todo = 0 /\ out = <<>> /\ fed + n <= MaxIn
        /\ n >= room
        /\ s' = Transform(full, full.buf)
        /\ fed' = fed + n /\ todo' = n - room
        /\ UNCHANGED <<before, out>>

UpdateBlock ==
    /\ todo >= Block
    /\ s' = Transform(s, InBlock(fed - todo + 1, Block))
    /\ todo' = todo - Block
    /\ UNCHANGED <<before, fed, out>>

UpdateTail ==
    /\ todo \in 1 .. (Block - 1)
    /\ s' = [s EXCEPT !.buf = Copy(@, 0, fed - todo + 1, todo)]
    /\ todo' = 0
    /\ UNCHANGED <<before, fed, out>>

(* SHA256_Pad()                                                            *)
Marked(buf, r, end) ==
    [i \in DOMAIN buf |-> IF i = r THEN Mark ELSE IF i \in (r + 1) .. (end - 1) THEN Zero ELSE buf[i]]

Sealed(st) ==   \* the counter at the end of the block
    LET block == [i \in DOMAIN st.buf |-> IF i < PadAt THEN st.buf[i]
                                          ELSE Length(<<st.hi, st.lo>>)]
    IN  Transform(st, block)

(* Mutant: the mark is thought to fit beside the counter when it does not. *)
PadOffByOne(st) ==
    LET r     == Residue(st)
        wrap  == [st EXCEPT !.buf = Marked(@, r, Block)]
        again == [Transform(wrap, wrap.buf) EXCEPT
                     !.buf = [i \in DOMAIN @ |-> IF i < PadAt THEN Zero ELSE @[i]]]
    IN  IF r <= PadAt THEN Sealed([st EXCEPT !.buf = Marked(@, r, PadAt)]) ELSE Sealed(again)

Pad(st) ==
    LET r     == Residue(st)
        wrap  == [st EXCEPT !.buf = Marked(@, r, Block)]
        again == [Transform(wrap, wrap.buf) EXCEPT
                     !.buf = [i \in DOMAIN @ |-> IF i < PadAt THEN Zero ELSE @[i]]]
    IN  IF r < PadAt THEN Sealed([st EXCEPT !.buf = Marked(@, r, PadAt)]) ELSE Sealed(again)

(* crypto_hash_sha256_final(): the state is wiped, so that it must be      *)
(* initialised again before its next use.                                  *)
Final ==
    /\ todo = 0 /\ out = <<>>
    /\ out' = <<[len |-> fed - before, h |-> Pad(s).h]>>
    /\ s' = Fresh(s.wide, Zeros(Block))
    /\ UNCHANGED <<todo, before, fed>>

Next ==
    \/ Restart
    \/ \E n \in Chunks : UpdateShort(n) \/ UpdateLong(n)
    \/ UpdateBlock
    \/ UpdateTail
    \/ Final

Spec == Init /\ [][Next]_vars

-----------------------------------------------------------------------------
(* Properties.                                                             *)

TypeOK ==
    /\ s.wide \in BOOLEAN
    /\ s.hi \in 0 .. (WordMod - 1) /\ s.lo \in 0 .. (WordMod - 1) /\ s.lo % 8 = 0
    /\ DOMAIN s.buf = 0 .. (Block - 1)
    /\ fed \in 0 .. MaxIn /\ before \in 0 .. fed /\ todo \in 0 .. fed

(* FIPS 180: a mark, zeros, and the length in bits at the end of a block.  *)
Digest(wide, len) ==
    LET n       == (len + LengthBytes) \div Block + 1
        bits    == <<IF wide THEN ((8 * len) \div WordMod) % WordMod ELSE 0, (8 * len) % WordMod>>
        byte(p) == IF p < len THEN In(before + 1 + p)
                   ELSE IF p = len THEN Mark
                   ELSE IF p >= n * Block - LengthBytes THEN Length(bits) ELSE Zero
    IN  Cut(byte, n, Block)

(* However the message is cut into updates, and whatever an earlier one    *)
(* left in the buffer, final() gives the hash of the message.              *)
HashesTheMessage ==
    \A i \in DOMAIN out : out[i].h = Digest(s.wide, out[i].len)

(* Every digest is that of the whole message, however it was cut into      *)
(* updates, with the buffer and the words of the count in range.           *)
Sha2Hashes == TypeOK /\ HashesTheMessage
=============================================================================
