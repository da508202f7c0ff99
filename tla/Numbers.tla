------------------------------- MODULE Numbers -------------------------------
(***************************************************************************)
(* Arithmetic the library does by hand: little-endian numbers and padding  *)
(* (sodium/utils.c), uniform sampling (randombytes/randombytes.c) and the  *)
(* parameters of scrypt (pwhash_scryptsalsa208sha256.c).  The functions    *)
(* keep no state: a behaviour is one call.                                 *)
(***************************************************************************)
EXTENDS Integers, Sequences, FiniteSets, FiniteSetsExt, SequencesExt

CONSTANTS
    ByteMod,      \* 2^8: the values of a byte
    SizeMax       \* SIZE_MAX

VARIABLES
    input,        \* the call: a record with its name and its arguments
    at,           \* "called" or "returned"
    mem           \* what it returned

-----------------------------------------------------------------------------
(* Numbers of Len(n) bytes, least significant first, are processed in      *)
(* limbs: a byte each in C, words in the assembly for nonces.              *)
Limb(n, from, size) ==
    FoldRight(LAMBDA byte, acc : acc * ByteMod + byte, SubSeq(n, from + 1, from + size), 0)

Offset(limbs, k) == FoldLeft(LAMBDA acc, size : acc + size, 0, SubSeq(limbs, 1, k - 1))

(* The number whose k-th limb is limb[k], as bytes                         *)
FromLimbs(limbs, limb) ==
    FoldLeftDomain(LAMBDA acc, k :
        acc \o [i \in 1 .. limbs[k] |-> (limb[k] \div ByteMod ^ (i - 1)) % ByteMod],
        <<>>, limbs)

(* sodium_add(), and sodium_increment() which adds a carry to zero         *)
AddLimbs(a, b, c0, limbs) ==
    LET sum[k \in 1 .. Len(limbs)] ==
            Limb(a, Offset(limbs, k), limbs[k]) + Limb(b, Offset(limbs, k), limbs[k])
              + (IF k = 1 THEN c0 ELSE sum[k - 1] \div ByteMod ^ limbs[k - 1])
    IN  FromLimbs(limbs, sum)

Zeros(n) == [i \in 1 .. Len(n) |-> 0]

sodium_increment(n, limbs) == AddLimbs(n, Zeros(n), 1, limbs)
sodium_add(a, b, limbs)    == AddLimbs(a, b, 0, limbs)

(* sodium_sub(): the borrow is the low bit of what a subtraction leaves    *)
(* above the limb.                                                         *)
sodium_sub(a, b, limbs) ==
    LET diff[k \in 1 .. Len(limbs)] ==
            Limb(a, Offset(limbs, k), limbs[k]) - Limb(b, Offset(limbs, k), limbs[k])
              - (IF k = 1 THEN 0
                 ELSE (diff[k - 1] \div ByteMod ^ limbs[k - 1]) % 2)
    IN  FromLimbs(limbs, diff)

(* sodium_compare(): from the top, the first difference decides.           *)
sodium_compare(a, b) ==
    LET last == [gt |-> 0, eq |-> 1]
        st[i \in 1 .. Len(a) + 1] ==
            IF i > Len(a) THEN last
            ELSE [gt |-> IF b[i] < a[i] /\ st[i + 1].eq = 1 THEN 1 ELSE st[i + 1].gt,
                  eq |-> IF a[i] = b[i] THEN st[i + 1].eq ELSE 0]
    IN  st[1].gt + st[1].gt + st[1].eq - 1

(* sodium_memcmp() and sodium_is_zero() accumulate differences.            *)
sodium_memcmp(a, b) == IF \E i \in DOMAIN a : a[i] # b[i] THEN -1 ELSE 0
sodium_is_zero(n)   == IF \E i \in DOMAIN n : n[i] # 0 THEN 0 ELSE 1

-----------------------------------------------------------------------------
(* Padding.  Marker is 0x80; `buf' has the whole buffer.                   *)
Marker == ByteMod \div 2

Refused == [ret |-> -1, buf |-> <<>>, len |-> 0]
Misuse  == [ret |-> -2, buf |-> <<>>, len |-> 0]

PadLength(len, blocksize) == blocksize - 1 - (len % blocksize)

(* sodium_pad(): the last block is rewritten from its end; the mask lets   *)
(* the message through once the marker is behind.                          *)
sodium_pad(buf, len, blocksize, maxLen) ==
    IF blocksize = 0 THEN Refused
    ELSE LET xpadlen == PadLength(len, blocksize)
             last    == len + xpadlen
         IN  IF SizeMax - len <= xpadlen THEN Misuse
             ELSE IF last >= maxLen THEN Refused
             ELSE [ret |-> 0, len |-> last + 1,
                   buf |-> [p \in DOMAIN buf |->
                              LET i == last + 1 - p       \* *(tail - i)
                              IN  CASE i \notin 0 .. (blocksize - 1) -> buf[p]
                                    [] i < xpadlen               -> 0
                                    [] i = xpadlen               -> Marker
                                    [] i > xpadlen               -> buf[p]]]

(* sodium_unpad() looks at a whole block, whatever it finds: the barrier   *)
(* is the marker with zeros only behind it.                                *)
sodium_unpad(buf, padded, blocksize) ==
    IF padded < blocksize \/ blocksize = 0 THEN Refused
    ELSE LET tail(i)    == buf[padded - i]
             barrier(i) == tail(i) = Marker /\ \A k \in 0 .. (i - 1) : tail(k) = 0
             found      == {i \in 0 .. (blocksize - 1) : barrier(i)}
             padLen     == SumSet(found)
         IN  [ret |-> IF found = {} THEN -1 ELSE 0, buf |-> buf, len |-> padded - 1 - padLen]

-----------------------------------------------------------------------------
(* Mutant: the threshold is that of the largest word.                      *)
UniformMinOffByOne(bound, word) == (word - 1 - bound) % bound

(* randombytes_uniform() on words of `word' values: rejected below min.    *)
UniformMin(bound, word) == ((1 + (word - 1 - bound)) % word) % bound

Uniform(bound, word) ==
    [r \in 0 .. (word - 1) |->
        IF bound < 2 THEN 0 ELSE IF r < UniformMin(bound, word) THEN -1 ELSE r % bound]

(* pickparams() of scrypt: the largest N the limits allow, then p.         *)
LargestLog2(maxN) ==
    CHOOSE n \in 1 .. 63 : /\ n = 63 \/ 2 ^ n > maxN \div 2
                           /\ \A m \in 1 .. (n - 1) : 2 ^ m <= maxN \div 2

pickparams(ops, memlimit) ==
    LET opslimit == IF ops < 32768 THEN 32768 ELSE ops
        r        == 8
    IN  IF opslimit < memlimit \div 32
        THEN [N_log2 |-> LargestLog2(opslimit \div (r * 4)), r |-> r, p |-> 1]
        ELSE LET N_log2 == LargestLog2(memlimit \div (r * 128))
                 maxrp  == Min({(opslimit \div 4) \div 2 ^ N_log2, 1073741823})
             IN  [N_log2 |-> N_log2, r |-> r, p |-> maxrp \div r]

-----------------------------------------------------------------------------
Nothing == [ret |-> 0]

(* What is passed: a length and a block size of any value, and a bound     *)
(* that fits the word.                                                     *)
Passed ==
    /\ input.call \in {"pad", "unpad"} => input.buf \in Seq(0 .. (ByteMod - 1)) /\ input.blocksize \in Nat
    /\ input.call = "pad" => input.len \in Nat
    /\ input.call = "uniform" => input.word \in Nat /\ input.bound \in 0 .. (input.word - 1)

Init == at = "called" /\ mem = Nothing /\ Passed

Return(call, result) ==
    /\ at = "called" /\ input.call = call
    /\ at' = "returned" /\ mem' = result
    /\ UNCHANGED input

Next ==
    \/ Return("increment", sodium_increment(input.a, input.limbs))
    \/ Return("add", sodium_add(input.a, input.b, input.limbs))
    \/ Return("sub", sodium_sub(input.a, input.b, input.limbs))
    \/ Return("compare", <<sodium_compare(input.a, input.b), sodium_memcmp(input.a, input.b),
                           sodium_is_zero(input.a)>>)
    \/ Return("pad", sodium_pad(input.buf, input.len, input.blocksize, Len(input.buf)))
    \/ Return("unpad", sodium_unpad(input.buf, Len(input.buf), input.blocksize))
    \/ Return("uniform", Uniform(input.bound, input.word))
    \/ Return("pickparams", pickparams(input.opslimit, input.memlimit))

vars == <<input, at, mem>>
Spec == Init /\ [][Next]_vars

-----------------------------------------------------------------------------
(* Properties.                                                             *)

Value(n)       == Limb(n, 0, Len(n))
Returned(call) == at = "returned" /\ input.call = call

(* Arithmetic on nonces is modulo their size, whatever the limbs, and the  *)
(* comparisons are those of the numbers.                                   *)
ArithmeticIsExact ==
    LET a == input.a  b == input.b  all == ByteMod ^ Len(a)
    IN  /\ Returned("increment") => Value(mem) = (Value(a) + 1) % all
        /\ Returned("add") => Value(mem) = (Value(a) + Value(b)) % all
        /\ Returned("sub") => Value(mem) = (Value(a) - Value(b)) % all
        /\ Returned("compare") =>
              mem = <<IF Value(a) < Value(b) THEN -1 ELSE IF Value(a) = Value(b) THEN 0 ELSE 1,
                      IF a = b THEN 0 ELSE -1, IF Value(a) = 0 THEN 1 ELSE 0>>

(* What is padded fits the buffer, is a whole number of blocks and keeps   *)
(* the message, and is unpadded to the message again; and unpadding gives  *)
(* a length only for what padding could have made.                         *)
PaddingRoundTrips ==
    LET k == input.blocksize  size == Len(input.buf)  len == input.len
    IN  /\ Returned("pad") /\ mem.ret = 0 =>
              /\ mem.len \in (len + 1) .. size
              /\ mem.len % k = 0 /\ mem.len - len <= k
              /\ SubSeq(mem.buf, 1, len) = SubSeq(input.buf, 1, len)
              /\ sodium_unpad(mem.buf, mem.len, k) = [ret |-> 0, buf |-> mem.buf, len |-> len]
        /\ Returned("pad") /\ mem.ret = -1 => k = 0 \/ (len \div k + 1) * k > size
        /\ Returned("unpad") =>
              (mem.ret = 0 <=> /\ k > 0 /\ size >= k /\ mem.len \in (size - k) .. (size - 1)
                               /\ input.buf[mem.len + 1] = Marker
                               /\ \A p \in (mem.len + 2) .. size : input.buf[p] = 0)

(* Each value below the bound is drawn by as many words as any other, and  *)
(* fewer than half of the words are rejected.                              *)
UniformIsUniform ==
    LET times(v) == Cardinality({r \in DOMAIN mem : mem[r] = v})
    IN  Returned("uniform") /\ input.bound >= 2 =>
            /\ \A v \in 0 .. (input.bound - 1) : times(v) = times(0)
            /\ 2 * times(-1) < input.word

(* What scrypt is asked to do fits the limits: N * r * p is within the     *)
(* operations, and the N blocks within the memory, unless that is below    *)
(* the least there is; p and r are never zero and stay below 2^30.         *)
PickedParamsFit ==
    LET opslimit == IF input.opslimit < 32768 THEN 32768 ELSE input.opslimit
    IN  Returned("pickparams") =>
            /\ mem.p >= 1 /\ mem.p * mem.r < 2 ^ 30
            /\ mem.p * mem.r <= (opslimit \div 4) \div 2 ^ mem.N_log2
            /\ mem.N_log2 = 1 \/ 2 ^ mem.N_log2 <= input.memlimit \div (128 * mem.r)
=============================================================================
