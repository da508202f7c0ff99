------------------------------- MODULE AesGcm -------------------------------
(***************************************************************************)
(* AES-256-GCM with carryless multiplications: blocks are hashed in groups *)
(* with powers of H computed in advance, behind or before what is          *)
(* encrypted; two builds differ in the width of the groups and in where a  *)
(* round adds its key.  A byte is four bits, a block four bytes (16 bits,  *)
(* numbered with the first byte on top), a nonce two bytes, a counter the  *)
(* last six bits of a block; lengths are counted in bytes.  The field is   *)
(* that of x^16 + x^5 + x^3 + x^2 + 1.  Texts are encrypted in place.      *)
(***************************************************************************)
EXTENDS Integers, Sequences, SequencesExt, Bitwise, TLC

CONSTANTS ROUNDS      \* 14, even

VARIABLES input, at, mem

Half   == 256                              \* a half of a block
Word   == Half * Half
CounterMod == 64
ABYTES == 4
PARALLEL_BLOCKS == IF input.build = "aesni" THEN 7 ELSE 6
PC_COUNT        == 2 * PARALLEL_BLOCKS

Number(b) == b[1] * 4096 + b[2] * 256 + b[3] * 16 + b[4]
Bytes(x)  == <<x \div 4096, (x \div 256) % 16, (x \div 16) % 16, x % 16>>
Blocks(b) == [k \in 1 .. (Len(b) \div 4) |-> Number(SubSeq(b, (4 * k) - 3, 4 * k))] @@ <<>>
Padded(b) == [k \in 1 .. 4 |-> IF k <= Len(b) THEN b[k] ELSE 0]
Whole(n)  == n - (n % 4)

-----------------------------------------------------------------------------
(* AES: what the instructions do, on four words of four bits.              *)
Nibble(x)   == <<12, 5, 6, 11, 9, 0, 10, 13, 3, 14, 15, 8, 4, 7, 1, 2>>[x + 1]
SubShift(x) == LET b == Bytes(x) IN Number(<<Nibble(b[2]), Nibble(b[3]), Nibble(b[4]), Nibble(b[1])>>)
Mix(x)      == (x ^^ ((x * 2) % Word)) ^^ (x \div 16)
RotWord(w)  == ((w * 2) % 16) + (w \div 8)
BYTESHL128(x, words) == (x * 16 ^ words) % Word           \* words of four bytes
AES_KEYGEN(x, rc) ==
    LET b == Bytes(x)                      \* b[1] is the third lane, b[4] the zeroth
    IN  <<Nibble(b[3]), RotWord(Nibble(b[3])) ^^ rc, Nibble(b[1]), RotWord(Nibble(b[1])) ^^ rc>>

Spread(t)    == LET s == t ^^ BYTESHL128(t, 1) IN s ^^ BYTESHL128(s, 2)
EXPAND_KEY_1(t1, t2, rc) == Spread(t1) ^^ (4369 * AES_KEYGEN(t2, rc)[4])     \* the word in every lane
EXPAND_KEY_2(t1, t2, rc) == Spread(t2) ^^ (4369 * AES_KEYGEN(t1, rc)[3])
expand256(key) ==
    LET expand(s, i) ==
            LET rc == 2 ^ ((i - 1) \div 2) % 16
            IN IF i % 2 = 1 THEN [t1 |-> EXPAND_KEY_1(s.t1, s.t2, rc), t2 |-> s.t2, rkeys |-> Append(s.rkeys, s.t2)]
               ELSE [t1 |-> s.t1, t2 |-> EXPAND_KEY_2(s.t1, s.t2, rc), rkeys |-> Append(s.rkeys, s.t1)]
        all == FoldLeft(expand, [t1 |-> key[1], t2 |-> key[2], rkeys |-> <<key[1]>>], [i \in 1 .. (ROUNDS - 1) |-> i])
    IN  Append(all.rkeys, all.t1)

AES_ENCRYPT(t, rkey)  == Mix(SubShift(t)) ^^ rkey
AES_XENCRYPT(t, rkey) == Mix(SubShift(t ^^ rkey))

encrypt_aesni(rkeys, x) ==
    SubShift(FoldLeft(AES_ENCRYPT, x ^^ rkeys[1], SubSeq(rkeys, 2, ROUNDS))) ^^ rkeys[ROUNDS + 1]
encrypt_armcrypto(rkeys, x) ==
    SubShift(FoldLeft(AES_XENCRYPT, x, SubSeq(rkeys, 1, ROUNDS - 1)) ^^ rkeys[ROUNDS]) ^^ rkeys[ROUNDS + 1]
encrypt(rkeys, x) == IF input.build = "aesni" THEN encrypt_aesni(rkeys, x) ELSE encrypt_armcrypto(rkeys, x)

incr_counters(counter, k) == (counter - (counter % CounterMod)) + ((counter + k) % CounterMod)
encrypt_xor_wide(rkeys, bytes, counter) ==
    LET b == Blocks(bytes)
    IN  FlattenSeq([k \in 1 .. Len(b) |-> Bytes(b[k] ^^ encrypt(rkeys, incr_counters(counter, k - 1)))])
encrypt_xor_block(rkeys, bytes, counter) == Bytes(Number(bytes) ^^ encrypt(rkeys, counter))

-----------------------------------------------------------------------------
(* Products of polynomials, the halves of which are multiplied.            *)
CLMUL(a, b) == FoldLeft(LAMBDA x, i : IF (a \div 2 ^ i) % 2 = 1 THEN x ^^ (b * 2 ^ i) ELSE x, 0, <<0, 1, 2, 3, 4, 5, 6, 7>>)
Hi(x)   == x \div Half
Lo(x)   == x % Half
Swap(x) == Lo(x) * Half + Hi(x)

clmul128(x, y) == [hi |-> CLMUL(Hi(x), Hi(y)), lo |-> CLMUL(Lo(x), Lo(y)),
                   mid |-> CLMUL(Hi(x), Lo(y)) ^^ CLMUL(Lo(x), Hi(y))]
clsq128(x)     == [hi |-> CLMUL(Hi(x), Hi(x)), lo |-> CLMUL(Lo(x), Lo(x)), mid |-> 0]

P64 == 104                                \* x^6 + x^5 + x^3: 0xc2... in 64 bits
gcm_reduce(x) ==
    LET hi == x.hi ^^ Hi(x.mid)
        lo == x.lo ^^ (Lo(x.mid) * Half)
        b  == Swap(lo) ^^ CLMUL(Lo(lo), P64)
        d  == Swap(b) ^^ CLMUL(Lo(b), P64)
    IN  d ^^ hi

(* hx[n] is H^n, from n = 1.                                               *)
Doubled(h0)  == ((h0 * 2) % Word) ^^ (IF h0 * 2 >= Word THEN P64 * Half + 1 ELSE 0)
precomp(hx, to) ==
    FoldLeft(LAMBDA p, i : LET q == Append(p, gcm_reduce(clmul128(p[i], p[1]))) IN Append(q, gcm_reduce(clsq128(q[(i \div 2) + 1]))),
             hx, SelectSeq([i \in 1 .. (to - 1) |-> i], LAMBDA i : i % 2 = 0))
precomp_for_block_count(h0) ==
    LET h == Doubled(h0) IN precomp(<<h, gcm_reduce(clsq128(h))>>, PC_COUNT)

gh_update0(acc, m, hn) == clmul128(acc ^^ m, hn)
gh_update(u, m, hn) ==
    LET t == clmul128(m, hn) IN [hi |-> u.hi ^^ t.hi, lo |-> u.lo ^^ t.lo, mid |-> u.mid ^^ t.mid]
(* n blocks at once: the first with H^n, the last with H.                  *)
Absorb(hx, acc, p) ==
    gcm_reduce(FoldLeft(LAMBDA u, j : gh_update(u, p[j + 1], hx[Len(p) - j]), gh_update0(acc, p[1], hx[Len(p)]),
                        [j \in 1 .. (Len(p) - 1) |-> j]))

gh_ad_blocks(hx, start, p) ==
    LET one(s, w)  == [acc |-> Absorb(hx, s.acc, SubSeq(p, s.i + 1, s.i + w)), i |-> s.i + w]
        all(s, w)  == FoldLeft(LAMBDA t, k : one(t, w), s, [k \in 1 .. ((Len(p) - s.i) \div w) |-> k])
    IN  FoldLeft(all, [acc |-> start, i |-> 0], <<PC_COUNT, PC_COUNT \div 2, 4, 2, 1>>).acc

(* Bytes, with zeros after the last when it does not fill a block          *)
gh_bytes(hx, start, b) ==
    LET whole == gh_ad_blocks(hx, start, Blocks(SubSeq(b, 1, Whole(Len(b)))))
    IN  IF Len(b) % 4 = 0 THEN whole ELSE gh_ad_blocks(hx, whole, <<Number(Padded(SubSeq(b, Whole(Len(b)) + 1, Len(b))))>>)

(* 0 when the counter would not last                                       *)
required_blocks(ad_len, m_len) ==
    LET m_blocks == (m_len + 3) \div 4
    IN  IF m_blocks >= CounterMod - 2 THEN 0 ELSE ((ad_len + 3) \div 4) + m_blocks + 1

-----------------------------------------------------------------------------
(* The definition: GHASH bit by bit, counters from 2, one block at a time. *)
GfTimes(x, y) ==
    FoldLeft(LAMBDA s, i : [z |-> IF (x \div 2 ^ (15 - i)) % 2 = 1 THEN s.z ^^ s.v ELSE s.z,
                            v |-> (s.v \div 2) ^^ (IF s.v % 2 = 1 THEN 46080 ELSE 0)],
             [z |-> 0, v |-> y], <<0, 1, 2, 3, 4, 5, 6, 7, 8, 9, 10, 11, 12, 13, 14, 15>>).z
KeyWords(key) ==
    FoldLeft(LAMBDA w, i : LET t == w[i - 1]
                               g == IF i % 8 = 1 THEN RotWord(Nibble(t)) ^^ (2 ^ ((i \div 8) - 1) % 16)
                                    ELSE IF i % 8 = 5 THEN Nibble(t) ELSE t
                           IN Append(w, w[i - 8] ^^ g),
             Reverse(Bytes(key[1])) \o Reverse(Bytes(key[2])), [i \in 1 .. ((4 * ROUNDS) - 4) |-> i + 8])
Cipher(key, x) ==
    LET w == KeyWords(key)
        rk(i) == Number(<<w[(4 * i) + 4], w[(4 * i) + 3], w[(4 * i) + 2], w[(4 * i) + 1]>>)
    IN  SubShift(FoldLeft(LAMBDA t, i : Mix(SubShift(t)) ^^ rk(i), x ^^ rk(0), [i \in 1 .. (ROUNDS - 1) |-> i])) ^^ rk(ROUNDS)
Key        == <<Number(<<input.key, 11, 2, 9>>), Number(<<3, 14, input.key, 1>>)>>
Nonce      == <<9, 4>>
GcmText(b) ==
    LET pad(k) == Bytes(Cipher(Key, Number(Nonce \o <<0, 0>>) + ((k + 2) % CounterMod)))
        stream == FlattenSeq([k \in 1 .. ((Len(b) + 3) \div 4) |-> pad(k - 1)])
    IN  [k \in 1 .. Len(b) |-> b[k] ^^ stream[k]] @@ <<>>
GcmTag(c, ad) ==
    LET h == Cipher(Key, 0)
        blocks(b) == Blocks(b \o [k \in 1 .. ((4 - (Len(b) % 4)) % 4) |-> 0])
        all == blocks(ad) \o blocks(c) \o <<(Len(ad) % Half) * Half + (Len(c) % Half)>>
    IN  FoldLeft(LAMBDA y, x : GfTimes(y ^^ x, h), 0, all) ^^ Cipher(Key, Number(Nonce \o <<0, 1>>))

-----------------------------------------------------------------------------
(* A call: "encrypt", "decrypt", or "verify" (to decrypt where m is NULL), *)
(* of a text that may have been damaged, or be shorter than a tag.         *)
Text(n)  == [k \in 1 .. n |-> (k * k * 5 + k * 3 + (k \div 7)) % 16] @@ <<>>
Ad       == [k \in 1 .. input.ad_len |-> (k * 7 + 2) % 16] @@ <<>>
Change(b, k) == [b EXCEPT ![k] = (@ + 1) % 16]
Sealed   == GcmText(Text(input.length))
SentText == IF input.damage = "text" THEN Change(Sealed, input.length) ELSE Sealed
SentMac  ==
    LET mac == GcmTag(Sealed, Ad) IN IF input.damage = "mac" THEN mac ^^ 1 ELSE IF input.damage = "ad" THEN GcmTag(Sealed, <<1>>) ELSE mac

Opens == input.op \in {"decrypt", "verify"}
Fails(buf, mac) == mem' = [buf |-> buf, mac |-> mac, ret |-> -1, len |-> 0] /\ at' = "done"

(* crypto_aead_aes256gcm_beforenm(), and the counter                       *)
Called ==
    /\ at = "called" /\ UNCHANGED input
    /\ LET rkeys == expand256(Key)
           buf   == IF Opens THEN IF input.damage = "cut" THEN <<>> ELSE SentText ELSE Text(input.length)
       IN IF Opens /\ input.damage = "cut" THEN Fails(buf, 0)
          ELSE IF required_blocks(input.ad_len, input.length) = 0
          THEN IF Opens THEN Fails(buf, 0) ELSE Fails([k \in 1 .. input.length |-> 0] @@ <<>>, 56797)
          ELSE /\ at' = "ad"
               /\ mem' = [rkeys |-> rkeys, hx |-> precomp_for_block_count(encrypt(rkeys, 0)), acc |-> 0, i |-> 0,
                          counter |-> Number(Nonce \o <<0, 2>>), buf |-> buf, mac |-> IF Opens THEN SentMac ELSE 0]

(* Lengths are hashed too, with the last block where there is one.         *)
Final(acc, last) == gh_ad_blocks(mem.hx, acc, last \o <<((input.ad_len % Half) * Half) + (input.length % Half)>>)
Mac(acc)  == encrypt(mem.rkeys, Number(Nonce \o <<0, 1>>)) ^^ acc

AssociatedData ==
    /\ at = "ad" /\ at' = IF input.op = "verify" THEN "verify" ELSE "double"
    /\ mem' = [mem EXCEPT !.acc = gh_bytes(mem.hx, @, Ad)]
    /\ UNCHANGED input

-----------------------------------------------------------------------------
Rest        == Len(mem.buf) - mem.i
Span(b, from, n) == Blocks(SubSeq(b, from + 1, from + (4 * n)))
Xored(n)    == SubSeq(mem.buf, 1, mem.i) \o encrypt_xor_wide(mem.rkeys, SubSeq(mem.buf, mem.i + 1, mem.i + (4 * n)), mem.counter)
                  \o SubSeq(mem.buf, mem.i + (4 * n) + 1, Len(mem.buf))
Advance(n, buf, acc) ==
    mem' = [mem EXCEPT !.buf = buf, !.acc = acc, !.i = @ + (4 * n), !.counter = incr_counters(@, n)]

(* n blocks are encrypted; n are hashed, those that end behind blocks      *)
(* before the end of what was encrypted.  A text to decrypt is hashed      *)
(* before it is gone.                                                      *)
Group(n, behind) ==
    IF Opens THEN Advance(n, Xored(n), Absorb(mem.hx, mem.acc, Span(mem.buf, mem.i, n)))
    ELSE Advance(n, Xored(n), Absorb(mem.hx, mem.acc, Span(Xored(n), mem.i - (4 * behind), n)))

(* Encryption starts a group ahead, goes on while it can, then hashes what *)
(* it was ahead by.                                                        *)
Begins(stage, then, otherwise, n) ==
    /\ at = stage /\ ~ Opens /\ UNCHANGED input
    /\ IF Rest >= 4 * n THEN Advance(PARALLEL_BLOCKS, Xored(PARALLEL_BLOCKS), mem.acc) /\ at' = then
       ELSE UNCHANGED mem /\ at' = otherwise
Ends(stage, then, n) ==
    /\ at = stage /\ Rest < 4 * n /\ at' = then /\ UNCHANGED input
    /\ mem' = [mem EXCEPT !.acc = Absorb(mem.hx, @, Span(mem.buf, mem.i - (4 * PARALLEL_BLOCKS), PARALLEL_BLOCKS))]
While(stage, n, behind) ==
    /\ at = stage /\ Rest >= 4 * n /\ Group(n, behind) /\ UNCHANGED <<input, at>>
Past(stage, then, n) == at = stage /\ Rest < 4 * n /\ at' = then /\ UNCHANGED <<input, mem>>

EncryptPipeline ==
    \/ Begins("double", "pipeline", "single", PC_COUNT)
    \/ While("pipeline", PC_COUNT, PARALLEL_BLOCKS)
    \/ Ends("pipeline", "single", PC_COUNT)
EncryptParallel ==
    \/ Begins("single", "parallel", "four", PARALLEL_BLOCKS)
    \/ While("parallel", PARALLEL_BLOCKS, PARALLEL_BLOCKS)
    \/ Ends("parallel", "four", PARALLEL_BLOCKS)
DecryptWide ==
    /\ Opens
    /\ \/ While("double", PC_COUNT, 0) \/ Past("double", "single", PC_COUNT)
       \/ While("single", PARALLEL_BLOCKS, 0) \/ Past("single", "four", PARALLEL_BLOCKS)
FourBlocks == While("four", 4, 0) \/ Past("four", "two", 4)
TwoBlocks  == While("two", 2, 0) \/ Past("two", "one", 2)
OneBlock   ==
    /\ at = "one" /\ UNCHANGED input
    /\ IF Rest > 4 THEN Group(1, 0) /\ UNCHANGED at ELSE UNCHANGED mem /\ at' = "last"

(* The last block, full or not, and the lengths                            *)
LastBlock ==
    /\ at = "last" /\ at' = "tag" /\ UNCHANGED input
    /\ LET left  == SubSeq(mem.buf, mem.i + 1, Len(mem.buf))
           xored == SubSeq(encrypt_xor_block(mem.rkeys, Padded(left), mem.counter), 1, Len(left))
           last  == IF left = <<>> THEN <<>> ELSE <<Number(Padded(IF Opens THEN left ELSE xored))>>
       IN mem' = [mem EXCEPT !.buf = SubSeq(@, 1, mem.i) \o xored, !.acc = Final(@, last)]

Sealing == /\ at = "tag" /\ ~ Opens /\ at' = "done" /\ UNCHANGED input
           /\ mem' = [buf |-> mem.buf, mac |-> Mac(mem.acc), ret |-> 0, len |-> input.length + ABYTES]

(* crypto_verify_16(): what was written is overwritten when it says no.    *)
Opening ==
    /\ at = "tag" /\ Opens /\ UNCHANGED input
    /\ IF Mac(mem.acc) = mem.mac THEN mem' = [buf |-> mem.buf, mac |-> mem.mac, ret |-> 0, len |-> input.length] /\ at' = "done"
       ELSE Fails([k \in 1 .. input.length |-> 13] @@ <<>>, mem.mac)

verify_mac ==
    /\ at = "verify" /\ UNCHANGED input
    /\ IF Mac(Final(gh_bytes(mem.hx, mem.acc, mem.buf), <<>>)) = mem.mac
       THEN mem' = [buf |-> mem.buf, mac |-> mem.mac, ret |-> 0, len |-> input.length] /\ at' = "done"
       ELSE Fails(mem.buf, mem.mac)

Next ==
    \/ Called \/ AssociatedData \/ EncryptPipeline \/ EncryptParallel \/ DecryptWide
    \/ FourBlocks \/ TwoBlocks \/ OneBlock \/ LastBlock \/ Sealing \/ Opening \/ verify_mac

(* What is sealed is AES-GCM's text and tag; exactly that is opened, and   *)
(* nothing of a text that is refused is left.                              *)
TooLong  == (input.length + 3) \div 4 > CounterMod - 3
GcmIsGcm ==
    at = "done" =>
        LET ok == ~ TooLong /\ input.damage = "none"
        IN  /\ mem.ret = IF ok THEN 0 ELSE -1
            /\ ~ Opens /\ ok => /\ mem.buf = GcmText(Text(input.length))
                                /\ mem.mac = GcmTag(mem.buf, Ad) /\ mem.len = input.length + ABYTES
            /\ ~ Opens /\ ~ ok => mem.len = 0 /\ \A k \in DOMAIN mem.buf : mem.buf[k] = 0
            /\ input.op = "decrypt" /\ ok => mem.buf = Text(input.length) /\ mem.len = input.length
            /\ input.op = "decrypt" /\ ~ ok /\ ~ TooLong => mem.len = 0 /\ \A k \in DOMAIN mem.buf : mem.buf[k] = 13
            /\ input.op = "verify" /\ input.damage # "cut" => mem.buf = SentText
=============================================================================
