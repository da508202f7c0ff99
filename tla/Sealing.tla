------------------------------ MODULE Sealing ------------------------------
(***************************************************************************)
(* Authenticated encryption: crypto_secretbox (and crypto_box, sealed      *)
(* boxes too), the ChaCha20-Poly1305 family and AEGIS.  A message is       *)
(* sealed in a small memory, changed or not on its way, and opened.        *)
(*                                                                         *)
(* A byte is a set of symbols, and XOR their symmetric difference, so that *)
(* a byte tells which message byte, which keystream bytes and which        *)
(* changes were mixed in it; zero is the empty set.  The keys of a stream  *)
(* and its nonce are one symbol.  A tag is a symbol that stands for its    *)
(* key and all of the text it is computed on.                              *)
(***************************************************************************)
EXTENDS Integers, Sequences, FiniteSets, FiniteSetsExt, SequencesExt

CONSTANTS
    Block,        \* 64: bytes of a block of keystream; RATE of AEGIS
    Chunk,        \* STREAM_POLY1305_CHUNK, a multiple of Block
    CounterMod    \* 2^32: the values of a 32-bit block counter

VARIABLES
    input,        \* [alg, m, c, mlen, ad, detached]: the arguments for sealing
    at,           \* [stage, ret, len, clen, ad, key, to]
    mem           \* the memory, a function from addresses to bytes

NULL == 0
Good == "key"     \* the key and the nonce of the sender

Xor(a, b) == (a \ b) \cup (b \ a)
Keystream(key, counter, i) == {<<"k", key, counter, i>>}
LengthByte(n) == {<<"length", n>>}
Read(bytes, from, len) == [i \in 1 .. len |-> bytes[from + i - 1]]
Blocks(len) == (len + Block - 1) \div Block
Least(a, b) == IF a < b THEN a ELSE b

memmove(bytes, to, from, len) ==
    [a \in DOMAIN bytes |-> IF a - to \in 0 .. (len - 1) THEN bytes[from + a - to] ELSE bytes[a]]

-----------------------------------------------------------------------------
(* The streams: a block is read, then written; the counter of a call goes  *)
(* on into what follows it, where 32 bits are not enough.                  *)
XorBlock(bytes, to, from, len, b, key, counter) ==
    [a \in DOMAIN bytes |->
        LET i == a - to
        IN  IF i \in 0 .. (len - 1) /\ i \div Block = b
            THEN Xor(bytes[from + i], Keystream(key, counter, i % Block)) ELSE bytes[a]]

StreamXor(bytes, to, from, len, key, ic) ==
    FoldLeft(LAMBDA acc, n : XorBlock(acc, to, from, len, n - 1, key, ic + n - 1), bytes,
             [n \in 1 .. Blocks(len) |-> n])

(* crypto_stream_chacha20_ietf_xor_ic() refuses to pass the last block.    *)
PassesTheCounter(ic, len) == ic > CounterMod - Blocks(len)

Wide(alg) == alg \notin {"ietf", "xchacha20"}       \* a counter of 64 bits

NextCounter(ic, cl, alg) ==
    IF Wide(alg) THEN ic + cl \div Block ELSE (ic + cl \div Block) % CounterMod

(* Mutant: the messages that pass the counter are cut up too.              *)
ChunkAlways(alg, mlen) == Chunk

(* What is encrypted and authenticated at a time: everything at once where *)
(* the counter of a chunk would have lost its carry.                       *)
ChunkLength(alg, mlen) ==
    CASE alg = "secretbox_xchacha20" -> mlen
      [] alg = "xchacha20" /\ mlen > Block * (CounterMod - 2) -> mlen
      [] OTHER -> Chunk

(* The loop of encryption, from the offset off; text is what Poly1305 got. *)
EncryptChunk(st, c, m, mlen, alg, key) ==
    LET cl == Least(mlen - st.off, ChunkLength(alg, mlen))
        bytes == StreamXor(st.bytes, c + st.off, m + st.off, cl, key, st.ic)
    IN  IF st.off >= mlen \/ st.misuse THEN st
        ELSE IF alg = "ietf" /\ PassesTheCounter(st.ic, cl) THEN [st EXCEPT !.misuse = TRUE]
        ELSE [st EXCEPT !.bytes = bytes, !.text = @ \o Read(bytes, c + st.off, cl),
                        !.off = @ + cl, !.ic = NextCounter(@, cl, alg)]

EncryptChunks(bytes, text, c, m, off, mlen, alg, key) ==
    FoldLeft(LAMBDA st, n : EncryptChunk(st, c, m, mlen, alg, key),
             [bytes |-> bytes, text |-> text, off |-> off, ic |-> 1, misuse |-> FALSE],
             [n \in 1 .. mlen |-> n])

-----------------------------------------------------------------------------
(* crypto_secretbox_detached(): half of the first block is the key of the  *)
(* tag, the other half encrypts; the buffers may overlap in any way.       *)
ZeroBytes == Block \div 2
MacKey(key) == [i \in 1 .. ZeroBytes |-> Keystream(key, 0, i - 1)]
Tag(mackey, text) == {<<"tag", mackey, text>>}

Overlaps(to, from, len) ==
    (to > from /\ to - from < len) \/ (from > to /\ from - to < len)

FirstBlock(bytes, to, from, len, key) ==
    [a \in DOMAIN bytes |->
        IF a - to \in 0 .. (Least(len, ZeroBytes) - 1)
        THEN Xor(bytes[from + a - to], Keystream(key, 0, ZeroBytes + a - to)) ELSE bytes[a]]

SecretboxSeal(bytes, c, mac, m, mlen, alg, key) ==
    LET moved == IF Overlaps(c, m, mlen) THEN memmove(bytes, c, m, mlen) ELSE bytes
        src   == IF Overlaps(c, m, mlen) THEN c ELSE m
        mlen0 == Least(mlen, ZeroBytes)
        first == FirstBlock(moved, c, src, mlen, key)
        rest  == EncryptChunks(first, Read(first, c, mlen0), c, src, mlen0, mlen, alg, key)
    IN  [bytes |-> [rest.bytes EXCEPT ![mac] = Tag(MacKey(key), rest.text)], misuse |-> FALSE]

SecretboxOpen(bytes, m, c, mac, clen, key) ==
    LET src   == IF Overlaps(m, c, clen) THEN m ELSE c
        moved == IF Overlaps(m, c, clen) THEN memmove(bytes, m, c, clen) ELSE bytes
        mlen0 == Least(clen, ZeroBytes)
        \* the first block was decrypted before anything moved
        first == [a \in DOMAIN bytes |->
                    IF a - m \in 0 .. (mlen0 - 1)
                    THEN Xor(bytes[c + a - m], Keystream(key, 0, ZeroBytes + a - m)) ELSE moved[a]]
    IN  IF bytes[mac] # Tag(MacKey(key), Read(bytes, c, clen)) THEN [ret |-> -1, bytes |-> bytes]
        ELSE IF m = NULL THEN [ret |-> 0, bytes |-> bytes]
        ELSE [ret |-> 0, bytes |-> StreamXor(first, m + mlen0, src + mlen0, clen - mlen0, key, 1)]

-----------------------------------------------------------------------------
(* What the ChaCha20-Poly1305 tags are computed on: padded to blocks with  *)
(* both lengths last, or each part followed by its length.                 *)
PadBlock == 2
PadZeros(len) == [i \in 1 .. ((PadBlock - len) % PadBlock) |-> {}]

Before(alg, ad) == IF alg = "chacha20" THEN Append(ad, LengthByte(Len(ad)))
                                       ELSE ad \o PadZeros(Len(ad))
After(alg, ad, len) == IF alg = "chacha20" THEN <<LengthByte(len)>>
                       ELSE PadZeros(len) \o <<LengthByte(Len(ad)), LengthByte(len)>>

AeadSeal(bytes, c, mac, m, mlen, ad, alg, key) ==
    LET st == EncryptChunks(bytes, Before(alg, ad), c, m, 0, mlen, alg, key)
    IN  [bytes |-> [st.bytes EXCEPT ![mac] = Tag(MacKey(key), st.text \o After(alg, ad, mlen))],
         misuse |-> st.misuse]

Zeroed(bytes, m, len) == [a \in DOMAIN bytes |-> IF a - m \in 0 .. (len - 1) THEN {} ELSE bytes[a]]

AeadOpen(bytes, m, c, mac, mlen, ad, alg, key) ==
    LET text == Before(alg, ad) \o Read(bytes, c, mlen) \o After(alg, ad, mlen)
        ret  == IF bytes[mac] = Tag(MacKey(key), text) THEN 0 ELSE -1
    IN  IF m = NULL THEN [ret |-> ret, bytes |-> bytes]
        ELSE IF ret # 0 THEN [ret |-> ret, bytes |-> Zeroed(bytes, m, mlen)]
        ELSE [ret |-> 0, bytes |-> StreamXor(bytes, m, c, mlen, key, 1)]

-----------------------------------------------------------------------------
(* AEGIS: the state is what went into it, padded blocks of associated data *)
(* and of the message; it makes the keystream, and the tag.                *)
PadTo(block) == block \o [i \in 1 .. (Block - Len(block)) |-> {}]

Absorbed(key, ad) ==
    FoldLeft(LAMBDA st, n : Append(st, PadTo(SubSeq(ad, Block * (n - 1) + 1, Least(Block * n, Len(ad))))),
             <<key>>, [n \in 1 .. Blocks(Len(ad)) |-> n])

AegisStream(st, i) == {<<"k", st, i>>}
AegisTag(st, adlen, mlen) == {<<"tag", st, <<adlen, mlen>>>>}

(* aegis128l_enc(), _dec() and _declast(): the plain block is absorbed,    *)
(* zero where there is no message.                                         *)
AegisBlock(acc, to, from, len, b, decrypting) ==
    LET n     == Least(len - Block * b, Block)
        src   == PadTo(Read(acc.bytes, from + Block * b, n))
        dst   == [i \in 1 .. Block |-> Xor(src[i], AegisStream(acc.st, i))]
    IN  [st |-> Append(acc.st, IF decrypting THEN PadTo(SubSeq(dst, 1, n)) ELSE src),
         bytes |-> IF to = NULL THEN acc.bytes
                   ELSE [a \in DOMAIN acc.bytes |->
                           LET i == a - (to + Block * b)
                           IN  IF i \in 0 .. (n - 1) THEN dst[i + 1] ELSE acc.bytes[a]]]

AegisBlocks(bytes, to, from, len, ad, key, decrypting) ==
    FoldLeft(LAMBDA acc, n : AegisBlock(acc, to, from, len, n - 1, decrypting),
             [bytes |-> bytes, st |-> Absorbed(key, ad)], [n \in 1 .. Blocks(len) |-> n])

AegisSeal(bytes, c, mac, m, mlen, ad, key) ==
    LET acc == AegisBlocks(bytes, c, m, mlen, ad, key, FALSE)
    IN  [bytes |-> [acc.bytes EXCEPT ![mac] = AegisTag(acc.st, Len(ad), mlen)], misuse |-> FALSE]

(* It is decrypted before it is verified, and erased if it must not be.    *)
AegisOpen(bytes, m, c, mac, mlen, ad, key) ==
    LET acc == AegisBlocks(bytes, m, c, mlen, ad, key, TRUE)
    IN  IF bytes[mac] = AegisTag(acc.st, Len(ad), mlen) THEN [ret |-> 0, bytes |-> acc.bytes]
        ELSE [ret |-> -1, bytes |-> IF m = NULL THEN acc.bytes ELSE Zeroed(acc.bytes, m, mlen)]

-----------------------------------------------------------------------------
(* The combined functions.  The tag comes first in a box, last elsewhere;  *)
(* a sealed box begins with the key that the nonce is derived from.        *)
Boxes      == {"secretbox", "secretbox_xchacha20", "box_seal"}
IsSealed   == input.alg = "box_seal"
PkBytes    == IF IsSealed THEN 1 ELSE 0
MacBytes   == 1
ABytes     == PkBytes + MacBytes
Ciphertext == IF input.alg \in Boxes THEN input.c + ABytes ELSE input.c
MacAt(len) == IF input.alg \in Boxes THEN input.c + PkBytes ELSE input.c + len
EpkByte    == {<<"epk">>}

MessageBytesMax == IF input.alg = "ietf" THEN Block * (CounterMod - 1) ELSE Block * CounterMod * CounterMod

Seal ==
    LET mlen == input.mlen
        tooLong == mlen > MessageBytesMax /\ ~input.detached
        alg == IF IsSealed THEN "secretbox" ELSE input.alg
        box == SecretboxSeal(mem, Ciphertext, MacAt(mlen), input.m, mlen, alg, Good)
        done == CASE IsSealed -> [box EXCEPT !.bytes[input.c] = EpkByte]
                  [] input.alg \in Boxes -> box
                  [] input.alg = "aegis" ->
                       AegisSeal(mem, Ciphertext, MacAt(mlen), input.m, mlen, input.ad, Good)
                  [] OTHER ->
                       AeadSeal(mem, Ciphertext, MacAt(mlen), input.m, mlen, input.ad, alg, Good)
    IN  /\ at.stage = "seal"
        /\ IF tooLong \/ done.misuse
           THEN at' = [at EXCEPT !.stage = "misuse"] /\ UNCHANGED mem
           ELSE at' = [at EXCEPT !.stage = "sealed", !.clen = mlen + ABytes] /\ mem' = done.bytes
        /\ UNCHANGED input

(* On its way: a byte, the length, the associated data or the keys.        *)
Sealed == input.c .. (input.c + at.clen - 1)

Change ==
    /\ at.stage = "sealed"
    /\ \/ \E a \in Sealed : mem' = [mem EXCEPT ![a] = Xor(@, {<<"change">>})]
                            /\ at' = [at EXCEPT !.stage = "changed"]
       \/ \E n \in (0 .. (at.clen - 1)) \cup {at.clen + 1} :
              at' = [at EXCEPT !.stage = "changed", !.clen = n] /\ UNCHANGED mem
       \/ \E ad \in {<<>>, <<{}>>, Append(input.ad, {}), input.ad \o Read(mem, input.c, 1)} \ {input.ad} :
              /\ input.alg \notin Boxes
              /\ at' = [at EXCEPT !.stage = "changed", !.ad = ad] /\ UNCHANGED mem
       \/ at' = [at EXCEPT !.stage = "changed", !.key = "other"] /\ UNCHANGED mem
    /\ UNCHANGED input

(* Where it may be opened: nowhere, in place, apart, and anywhere for a    *)
(* box.                                                                    *)
Outputs ==
    LET len == at.clen - ABytes
    IN  {NULL} \cup
        {m \in DOMAIN mem : /\ m + Least(len, input.mlen + 1) - 1 \in DOMAIN mem \/ len <= 0
                            /\ \/ m = Ciphertext
                               \/ input.alg \in Boxes
                               \/ m > input.c + at.clen \/ m + len <= input.c}

Open(m) ==
    LET len == at.clen - ABytes
        key == IF IsSealed /\ mem[input.c] # EpkByte THEN "other" ELSE at.key
        result ==
            CASE at.clen < ABytes -> [ret |-> -1, bytes |-> mem]
              [] input.alg \in Boxes -> SecretboxOpen(mem, m, Ciphertext, MacAt(len), len, key)
              [] input.alg = "aegis" -> AegisOpen(mem, m, input.c, MacAt(len), len, at.ad, key)
              [] OTHER -> AeadOpen(mem, m, input.c, MacAt(len), len, at.ad, input.alg, key)
    IN  /\ at.stage \in {"sealed", "changed"}
        /\ mem' = result.bytes
        /\ at' = [at EXCEPT !.stage = IF at.stage = "sealed" THEN "opened" ELSE "opened changed",
                            !.to = m, !.ret = result.ret, !.len = IF at.clen < ABytes THEN 0 ELSE len]
        /\ UNCHANGED input

Next == Seal \/ Change \/ \E m \in Outputs : Open(m)

Start(clear) == [stage |-> "seal", ret |-> 0, len |-> 0, clen |-> 0, ad |-> clear, key |-> Good, to |-> NULL]

MessageByte(i) == {<<"m", i>>}
Memory(size, m, mlen) ==
    [a \in 1 .. size |-> IF a - m \in 0 .. (mlen - 1) THEN MessageByte(a - m) ELSE {}]

-----------------------------------------------------------------------------
(* Properties.                                                             *)

Messages == {MessageByte(i) : i \in 0 .. (input.mlen - 1)}

(* What is sent is the message, each byte under a keystream byte of its    *)
(* own that the key of the tag is not made of either, however the buffers  *)
(* overlap and whatever the length: a longer message is refused.           *)
EveryByteIsMasked ==
    at.stage = "sealed" =>
        LET mask(i) == Xor(mem[Ciphertext + i], MessageByte(i))
            bytes   == 0 .. (input.mlen - 1)
        IN  /\ \A i \in bytes : Cardinality(mask(i)) = 1 /\ mask(i) \notin Messages
            /\ \A i, j \in bytes : i # j => mask(i) # mask(j)
            /\ \A i \in bytes, k \in 1 .. ZeroBytes :
                  input.alg # "aegis" => mask(i) # MacKey(Good)[k]

(* What was not changed is opened, wherever it is put, to the message that *)
(* was sealed; what was changed is refused, and leaves nothing of it.      *)
OpensWhatWasSealed ==
    /\ at.stage = "opened" =>
          /\ at.ret = 0 /\ at.len = input.mlen
          /\ at.to # NULL => \A i \in 0 .. (at.len - 1) : mem[at.to + i] = MessageByte(i)
    /\ at.stage = "opened changed" =>
          /\ at.ret = -1
          /\ at.to # NULL /\ input.alg \notin Boxes =>
                \A i \in 0 .. (at.len - 1) : mem[at.to + i] = {}

MessagesAreSealed == EveryByteIsMasked /\ OpensWhatWasSealed
=============================================================================
