------------------------------- MODULE Blake2b -------------------------------
(***************************************************************************)
(* The buffering of BLAKE2b (crypto_generichash/blake2b/ref): a buffer of  *)
(* two blocks, emptied only when more input is known to follow, because    *)
(* the last block must be compressed with the final flag.  A compression   *)
(* is remembered with its block, byte counter and flag.                    *)
(***************************************************************************)
EXTENDS StreamBytes

CONSTANTS
    Block,      \* BLAKE2B_BLOCKBYTES
    WordMod,    \* 2^64: the width of t[0] and t[1]
    Chunks,     \* the lengths of updates
    MaxIn       \* bound: bytes fed, all messages together

VARIABLES
    s,          \* the state: h, t0, t1, f0, buf, buflen
    todo,       \* inlen: what is left of the update in progress
    before,     \* bytes fed before this message
    fed,        \* bytes fed
    out         \* the digests of this message: what was hashed, and the result

vars == <<s, todo, before, fed, out>>

Buffer == 2 * Block

(* blake2b_init() and blake2b_init_key(), whose key block is an update     *)
Fresh(keyed) ==
    [h |-> <<>>, t0 |-> 0, t1 |-> 0, f0 |-> FALSE, keyed |-> keyed,
     buf |-> [i \in 0 .. (Buffer - 1) |-> IF keyed /\ i < Block THEN Key ELSE Zero],
     buflen |-> IF keyed THEN Block ELSE 0]

Init ==
    /\ \E keyed \in BOOLEAN : s = Fresh(keyed)
    /\ todo = 0 /\ before = 0 /\ fed = 0 /\ out = <<>>

Restart ==
    /\ todo = 0
    /\ \E keyed \in BOOLEAN : s' = Fresh(keyed)
    /\ before' = fed /\ out' = <<>>
    /\ UNCHANGED <<todo, fed>>

(* Mutant: the second word of the counter never moves.                     *)
TickLowWord(st, inc) == [st EXCEPT !.t0 = (st.t0 + inc) % WordMod]

(* blake2b_increment_counter()                                             *)
Tick(st, inc) ==
    LET low == (st.t0 + inc) % WordMod
    IN  [st EXCEPT !.t0 = low, !.t1 = (st.t1 + IF low < inc THEN 1 ELSE 0) % WordMod]

(* blake2b_compress() of the first block of the buffer                     *)
Compress(st) ==
    [st EXCEPT !.h = Append(@, [block |-> [i \in 0 .. (Block - 1) |-> st.buf[i]],
                                t0 |-> st.t0, t1 |-> st.t1, last |-> st.f0])]

(* memcpy(S->buf, S->buf + BLAKE2B_BLOCKBYTES, n)                          *)
Shift(st, n) ==
    [st EXCEPT !.buf = [i \in DOMAIN st.buf |-> IF i < n THEN st.buf[i + Block] ELSE st.buf[i]],
               !.buflen = @ - Block]

(* blake2b_update(): one action for the call, one per turn of its loop.    *)
Update(n) ==
    /\ todo = 0 /\ fed + n <= MaxIn
    /\ todo' = n /\ fed' = fed + n
    /\ UNCHANGED <<s, before, out>>

UpdateCompresses ==
    LET fill   == Buffer - s.buflen
        filled == [s EXCEPT !.buf = Copy(@, s.buflen, fed - todo + 1, fill), !.buflen = Buffer]
    IN  /\ todo > fill
        /\ s' = Shift(Compress(Tick(filled, Block)), Block)
        /\ todo' = todo - fill
        /\ UNCHANGED <<before, fed, out>>

UpdateIsLazy ==
    /\ todo \in 1 .. (Buffer - s.buflen)
    /\ s' = [s EXCEPT !.buf = Copy(@, s.buflen, fed - todo + 1, todo), !.buflen = @ + todo]
    /\ todo' = 0
    /\ UNCHANGED <<before, fed, out>>

(* blake2b_final(); a second one returns -1                                *)
LastBlock(st) ==
    LET one == IF st.buflen > Block
               THEN Shift(Compress(Tick(st, Block)), st.buflen - Block) ELSE st
        two == [Tick(one, one.buflen) EXCEPT !.f0 = TRUE]
    IN  Compress([two EXCEPT !.buf = ZeroFrom(@, two.buflen)])

Final ==
    /\ todo = 0 /\ ~ s.f0
    /\ out' = Append(out, [len |-> fed - before, h |-> LastBlock(s).h])
    /\ s' = [LastBlock(s) EXCEPT !.h = <<>>, !.buf = Zeros(Buffer)]
    /\ UNCHANGED <<todo, before, fed>>

FinalAgain ==
    /\ todo = 0 /\ s.f0
    /\ UNCHANGED vars

Next ==
    \/ Restart
    \/ \E n \in Chunks : Update(n)
    \/ UpdateCompresses
    \/ UpdateIsLazy
    \/ Final
    \/ FinalAgain

Spec == Init /\ [][Next]_vars

-----------------------------------------------------------------------------
(* Properties.                                                             *)

TypeOK ==
    /\ s.t0 \in 0 .. (WordMod - 1) /\ s.t1 \in 0 .. (WordMod - 1)
    /\ s.f0 \in BOOLEAN /\ s.keyed \in BOOLEAN
    /\ DOMAIN s.buf = 0 .. (Buffer - 1) /\ s.buflen \in 0 .. Buffer
    /\ fed \in 0 .. MaxIn /\ before \in 0 .. fed /\ todo \in 0 .. fed

(* RFC 7693: the key block and the message in blocks, the last one filled  *)
(* with zeros; each with the number of bytes up to its end.                *)
Digest(keyed, len) ==
    LET size    == len + IF keyed THEN Block ELSE 0
        n       == IF size = 0 THEN 1 ELSE (size + Block - 1) \div Block
        byte(p) == IF p >= size THEN Zero
                   ELSE IF ~ keyed THEN In(before + 1 + p)
                   ELSE IF p < Block THEN Key ELSE In(before + 1 + p - Block)
        upTo(k) == Least(k * Block, size)
    IN  [k \in 1 .. n |-> [block |-> Cut(byte, n, Block)[k],
                           t0 |-> upTo(k) % WordMod, t1 |-> upTo(k) \div WordMod,
                           last |-> k = n]]

(* However the message is cut into updates, and whatever the state was     *)
(* used for before, final() gives the hash of the message, and gives it    *)
(* once.                                                                   *)
HashesTheMessage ==
    /\ Len(out) <= 1
    /\ \A i \in DOMAIN out : out[i].h = Digest(s.keyed, out[i].len)

(* Every digest is that of the whole message, however it was cut into      *)
(* updates, with the buffer and the counts of bytes in range.              *)
Blake2bHashes == TypeOK /\ HashesTheMessage
=============================================================================
