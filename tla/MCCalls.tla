------------------------------- MODULE MCCalls -------------------------------
(***************************************************************************)
(* The functions that keep no state between calls: alg says which module a *)
(* behaviour is about, input what was called.  Inputs are small, or few    *)
(* and at the edges of a large range.                                      *)
(***************************************************************************)
EXTENDS Calls

Codec  == INSTANCE Codecs
Ip     == INSTANCE IpText
Seal   == INSTANCE Sealing WITH Block <- 2, Chunk <- 4, CounterMod <- 8

(* A curve of cofactor 8 over 2^15 - 19, with its tables.                  *)
Field == INSTANCE Edwards WITH N <- 2, d <- 20872, A <- 362, L <- 4129, sqrtm1 <- 15645, Base <- <<4868, 20>>, Inverses <- <<>>
Inverses == Field!InverseTable

(* base.h and base2.h                                                      *)
BaseTable ==
    [pos \in 0 .. 1 |-> IF pos = 0
        THEN <<[yplusx |-> 4888, yminusx |-> 27901, xy2d |-> 12191], [yplusx |-> 12558, yminusx |-> 30460, xy2d |-> 11624],
               [yplusx |-> 28837, yminusx |-> 17003, xy2d |-> 5702], [yplusx |-> 7924, yminusx |-> 17919, xy2d |-> 17255],
               [yplusx |-> 7527, yminusx |-> 1548, xy2d |-> 26195], [yplusx |-> 28827, yminusx |-> 11984, xy2d |-> 9359],
               [yplusx |-> 9695, yminusx |-> 3425, xy2d |-> 31397], [yplusx |-> 9411, yminusx |-> 434, xy2d |-> 4353]>>
        ELSE <<[yplusx |-> 6941, yminusx |-> 23947, xy2d |-> 12827], [yplusx |-> 16562, yminusx |-> 27092, xy2d |-> 20519],
               [yplusx |-> 29091, yminusx |-> 26314, xy2d |-> 1544], [yplusx |-> 8105, yminusx |-> 16450, xy2d |-> 2285],
               [yplusx |-> 16832, yminusx |-> 25819, xy2d |-> 17660], [yplusx |-> 30364, yminusx |-> 7291, xy2d |-> 9203],
               [yplusx |-> 15574, yminusx |-> 11213, xy2d |-> 14636], [yplusx |-> 9650, yminusx |-> 17801, xy2d |-> 11659]>>]
Bi == <<[yplusx |-> 4888, yminusx |-> 27901, xy2d |-> 12191], [yplusx |-> 28837, yminusx |-> 17003, xy2d |-> 5702],
        [yplusx |-> 7527, yminusx |-> 1548, xy2d |-> 26195], [yplusx |-> 9695, yminusx |-> 3425, xy2d |-> 31397],
        [yplusx |-> 27582, yminusx |-> 6892, xy2d |-> 527], [yplusx |-> 6450, yminusx |-> 5410, xy2d |-> 19956],
        [yplusx |-> 4007, yminusx |-> 8669, xy2d |-> 21024], [yplusx |-> 16004, yminusx |-> 22593, xy2d |-> 27710]>>

Group == INSTANCE Points WITH N <- 2, d <- 20872, A <- 362, L <- 4129, sqrtm1 <- 15645, Base <- <<4868, 20>>,
           sqrtam2 <- 2780, invsqrtamd <- 1390, sqrtadm1 <- 2144
Multiples == Group!MultiplesOf(<<11341, 19105>>)
Curve == INSTANCE Curves WITH N <- 2, d <- 20872, A <- 362, L <- 4129, sqrtm1 <- 15645, Base <- <<4868, 20>>,
           Order8 <- {28408, 32236},
           ge25519_frombytes <- Group!ge25519_frombytes,
           ge25519_frombytes_negate_vartime <- Group!ge25519_frombytes_negate_vartime,
           ge25519_is_on_main_subgroup <- Group!ge25519_is_on_main_subgroup,
           ge25519_scalarmult <- Group!ge25519_scalarmult,
           ge25519_scalarmult_base <- Group!ge25519_scalarmult_base,
           ge25519_double_scalarmult_vartime <- Group!ge25519_double_scalarmult_vartime,
           ge25519_from_uniform <- Group!ge25519_from_uniform,
           ge25519_from_hash <- Group!ge25519_from_hash,
           ristretto255_frombytes <- Group!ristretto255_frombytes,
           ristretto255_p3_tobytes <- Group!ristretto255_p3_tobytes,
           ristretto255_from_hash <- Group!ristretto255_from_hash

(* The two limb schedules of a field, at widths where each can overflow    *)
(* and at its own; the scalars of a group of order 2^24 + 807.             *)
Limb51 == INSTANCE FieldLimbs WITH W <- 5, V <- 2, C <- 3, Spare <- 10
Limb25 == INSTANCE FieldLimbs WITH W <- 5, V <- 2, C <- 19, Spare <- 13
Wide25 == INSTANCE FieldLimbs WITH W <- 5, V <- 25, C <- 19, Spare <- 13

GroupOrder == [limbs |-> <<-1241, 1, 4>>, inv |-> 1175, bits |-> 11, half |-> 0, batches |-> 6]
GcdModuli  == <<GroupOrder,
                [limbs |-> <<807, 0, 1>>, inv |-> 3223, bits |-> 12, half |-> 7, batches |-> 7],
                [limbs |-> <<-19, 0, 8>>, inv |-> 37, bits |-> 6, half |-> 0, batches |-> 6],
                [limbs |-> <<-19, 128, 0>>, inv |-> 229, bits |-> 8, half |-> 5, batches |-> 8],
                [limbs |-> <<33, 0, 1>>, inv |-> 33, bits |-> 6, half |-> 0, batches |-> 6]>>
Scalar == INSTANCE Scalars WITH S <- 2, Size <- 26, Digits <- [j \in 0 .. 5 |-> <<1, 2, 1, -1, 1, -1>>[j + 1]],
            Moduli <- GcdModuli, Order <- GroupOrder

Nothing == [ret |-> 0]

-----------------------------------------------------------------------------
Limbs(n) == CASE n = 0 -> {<<>>} [] n = 1 -> {<<1>>} [] n = 2 -> {<<1, 1>>, <<2>>}
              [] OTHER -> {<<1, 1, 1>>, <<2, 1>>}

NumbersInit ==
    /\ at = "called" /\ mem = Nothing
    /\ \/ \E n \in 0 .. 3 : \E a, b \in [1 .. n -> 0 .. 3], l \in Limbs(n), c \in {"add", "sub", "compare"} :
              input = [call |-> c, a |-> a, b |-> b, limbs |-> l]
       \/ \E n \in 0 .. 3 : \E a \in [1 .. n -> 0 .. 3], l \in Limbs(n) :
              input = [call |-> "increment", a |-> a, limbs |-> l]
       \/ \E n \in 0 .. 8, k \in 0 .. 4 : \E len \in 0 .. (IF n < 4 THEN n ELSE 4) :
          \E msg \in [1 .. len -> {0, 2, 3}] :
              input = [call |-> "pad", buf |-> msg \o [i \in 1 .. (n - len) |-> 3], len |-> len, blocksize |-> k]
       \/ \E n \in 0 .. 5, k \in 0 .. 4 : \E buf \in [1 .. n -> {0, 2, 3}] :
              input = [call |-> "unpad", buf |-> buf, blocksize |-> k]
       \/ \E w \in {16, 32} : \E bound \in 0 .. (w - 1) :
              input = [call |-> "uniform", bound |-> bound, word |-> w]
       \/ \E opslimit \in {0, 32768, 32799, 65536, 100000, 524288, 33554432, 1073741823},
             memlimit \in {0, 1024, 2048, 1000000, 1048576, 1048607, 16777216, 33554432, 1073741824} :
              input = [call |-> "pickparams", opslimit |-> opslimit, memlimit |-> memlimit]

-----------------------------------------------------------------------------
Seeded(k, i, m) == ((k * 7919 + i * 10473 + k * k * 31 + i * i * 653 + k * i * 613) % 65521) % m
Limbs5(c) == [i \in 0 .. 4 |-> CASE c = "max" -> 255 [] c = "mask" -> 31 [] c = "p" -> (IF i = 0 THEN 29 ELSE 31)
                                 [] c = "p - 1" -> (IF i = 0 THEN 28 ELSE 31) [] c = "one" -> (IF i = 0 THEN 1 ELSE 0)
                                 [] OTHER -> 0]
Most10(i) == IF i % 2 = 0 THEN 13 ELSE 6
Limbs10(c) == [i \in 0 .. 9 |-> CASE c = "max" -> Most10(i) [] c = "min" -> -Most10(i)
                                  [] c = "alternate" -> (IF i % 4 < 2 THEN Most10(i) ELSE -Most10(i))
                                  [] c = "one" -> (IF i = 0 THEN 1 ELSE 0) [] OTHER -> 0]

FieldInit ==
    /\ at = "called" /\ mem = Nothing
    /\ \/ \E c, e \in {"max", "mask", "p", "p - 1", "one", "zero"}, n \in {0, 1, 121, 1000} :
              input = [call |-> "fe51", f |-> Limbs5(c), g |-> Limbs5(e), n |-> n]
       \/ \E k \in 1 .. 300, n \in {1, 333} :
              input = [call |-> "fe51", f |-> [i \in 0 .. 4 |-> Seeded(k, i, 256)], g |-> [i \in 0 .. 4 |-> Seeded(k, i + 5, 256)], n |-> n]
       \/ \E c, e \in {"max", "min", "alternate", "zero", "one"}, n \in {0, 1, 121, 1000} :
              input = [call |-> "fe25", f |-> Limbs10(c), g |-> Limbs10(e), n |-> n]
       \/ \E k \in 1 .. 300, n \in {1, 333} :
              input = [call |-> "fe25", n |-> n, f |-> [i \in 0 .. 9 |-> Seeded(k, i, 2 * Most10(i) + 1) - Most10(i)],
                       g |-> [i \in 0 .. 9 |-> Seeded(k, i + 10, 2 * Most10(i) + 1) - Most10(i)]]
       \/ \E s \in {33554412, 33554413, 33554414, 33554431, 33554432, 67108844, 67108845, 67108863} \cup {k * 33521 : k \in 0 .. 2001} :
              input = [call |-> "frombytes", s |-> s]

(* Limbs at their edges, with any set of limbs lending to the next.        *)
WideInit ==
    /\ at = "called" /\ mem = Nothing
    /\ \E times \in {-1, 0, 1}, borrow \in SUBSET (0 .. 8), lo \in {0, 1, 67108844, 67108845}, hi \in {0, 1, 1000, 33554431} :
          /\ hi < 33554431 \/ (times # 1 /\ lo # 67108845)
          /\ input = [call |-> "reduce10", times |-> times, borrow |-> borrow,
                      r |-> [i \in 0 .. 9 |-> IF i = 0 THEN lo ELSE IF i = 9 THEN hi
                                              ELSE IF hi > 1000 THEN 2 ^ (IF i % 2 = 0 THEN 26 ELSE 25) - 1 ELSE lo % 2]]

LargeScalars ==
    {0, 1, 2, 67108862, 67108863, 12345678, 55555555}
        \cup {16778023 * k + j : k \in 1 .. 3, j \in {-1, 0}}

ScalarsInit ==
    /\ at = "called" /\ mem = Nothing
    /\ \/ \E a, b \in LargeScalars, c \in {0, 67108863, 7654321} :
              input = [call |-> "scalars", a |-> a, b |-> b, c |-> c]
       \/ \E m \in 1 .. 2 : \E s \in {0, 1, 2, 16778022} \cup {k * 167773 : k \in 1 .. 40} :
              input = [call |-> "invert", m |-> m, s |-> s]
       \/ \E m \in 3 .. 4 : \E s \in {0, 1, 2, 3, 4, 32748} \cup {k * 148 : k \in 1 .. 220} :
              input = [call |-> "invert", m |-> m, s |-> s]
       \/ \E s \in {0, 1, 2, 3, 4, 4128} \cup {k * 20 : k \in 1 .. 205} : input = [call |-> "invert", m |-> 5, s |-> s]

-----------------------------------------------------------------------------
Texts(set, max) == UNION {[1 .. n -> set] : n \in 0 .. max}
Bytes  == 0 .. 255
Padded == {"original", "urlsafe"}
Variants == Padded \cup {"original_no_padding", "urlsafe_no_padding"}

CodecsInit ==
    /\ at = "called" /\ mem = Nothing
    /\ \/ \E c \in Bytes, max \in {4, 5} :
              input = [call |-> "bin2hex", bin |-> <<c, 255 - c>>, maxlen |-> max]
       \/ \E c \in Bytes :
              input = [call |-> "hex2bin", text |-> <<c, c, 48, 49>>, maxlen |-> 2, ignore |-> {32, 58, 0}, wantsEnd |-> FALSE]
       \/ \E text \in Texts({48, 65, 102, 58, 103}, 4), max \in 0 .. 2, ignore \in {{}, {58, 0}}, end \in BOOLEAN :
              input = [call |-> "hex2bin", text |-> text, maxlen |-> max, ignore |-> ignore, wantsEnd |-> end]
       \/ \E bin \in Texts({0, 1, 77, 251, 255}, 3), max \in {4, 5}, v \in Variants :
              input = [call |-> "bin2base64", bin |-> bin, maxlen |-> max, variant |-> v]
       \/ \E c \in Bytes, v \in Variants :
              input = [call |-> "base642bin", text |-> <<65, c, 65, 65>>, maxlen |-> 3, ignore |-> {}, wantsEnd |-> FALSE, variant |-> v]
       \/ \E text \in Texts({65, 103, 32, 61, 47}, 5), max \in {1, 3}, ignore \in {{}, {32, 0}}, end \in BOOLEAN,
             v \in {"original", "original_no_padding"} :
              input = [call |-> "base642bin", text |-> text, maxlen |-> max, ignore |-> ignore, wantsEnd |-> end, variant |-> v]

-----------------------------------------------------------------------------
Join(parts, c) ==
    LET join[k \in 0 .. Len(parts)] ==
            IF k = 0 THEN <<>> ELSE IF k = 1 THEN parts[1] ELSE join[k - 1] \o <<c>> \o parts[k]
    IN  join[Len(parts)]

Decimals == {<<>>, <<48>>, <<50, 53, 53>>, <<50, 53, 54>>, <<48, 48, 49>>, <<48, 48, 48, 49>>, <<97>>}
Hexes    == {<<>>, <<48>>, <<97, 66, 49, 48>>, <<48, 48, 48, 48, 49>>, <<103>>}

IpTexts ==
    Texts({58, 49, 37, 0}, 5)
        \cup {Join(parts, 46) : parts \in [1 .. 3 -> Decimals] \cup [1 .. 4 -> Decimals]}
        \cup {Join(parts, 58) : parts \in UNION {[1 .. n -> Hexes] : n \in 1 .. 4}}
        \cup {<<58, 58, c, 37, c>> : c \in Bytes}

IpInit ==
    /\ at = "called" /\ mem = <<>>
    /\ \/ \E text \in Texts({49, 46, 58}, 7) \cup IpTexts :
              input = [call |-> "ip2bin", text |-> text, groups |-> 3]
       \/ \E bin \in [1 .. 8 -> {0, 1}], max \in {2, 3, 15, 46} :
              input = [call |-> "bin2ip", bin |-> bin, maxlen |-> max, groups |-> 8]
       \/ \E n \in {3, 4} : \E bin \in [1 .. n -> {0, 16, 255, 256, 65535}], max \in {3, 10, 46} :
              input = [call |-> "bin2ip", bin |-> bin, maxlen |-> max, groups |-> n]

-----------------------------------------------------------------------------
Aeads == {"chacha20", "ietf", "xchacha20", "aegis"}
Ads   == {<<>>, <<{}>>, <<Seal!LengthByte(1)>>, <<{<<"ad">>}, Seal!LengthByte(1), {}>>}

(* Short messages at every distance from their ciphertext, then long ones. *)
SealingInit ==
    /\ at = Seal!Start(input.ad)
    /\ mem = Seal!Memory(IF input.m = 6 THEN 22 ELSE 48, input.m, input.mlen)

SealingInputs(a) ==
    \/ \E n \in 0 .. 5, c \in 1 .. 13 :
          /\ a \in Seal!Boxes \/ c = 6 \/ c + n < 6 \/ c >= 6 + n
          /\ input = [alg |-> a, m |-> 6, c |-> c, mlen |-> n, detached |-> FALSE,
                      ad |-> IF a \in Seal!Boxes THEN <<>> ELSE <<{<<"ad">>}>>]
    \/ \E n \in {0, 1, 4, 5} \cup 12 .. 20, detached \in BOOLEAN, ad \in Ads :
          /\ a \in Seal!Boxes \/ n > 5 => ad = <<>>
          /\ input = [alg |-> a, m |-> 1, c |-> 22, mlen |-> n, detached |-> detached, ad |-> ad]

-----------------------------------------------------------------------------
(* Points of every order, scalars and encodings at the edges and between.  *)
Indices == {0, 1, 2, 3, 4, 8, 16, 2047, 4129, 8258, 12387, 16516, 20645, 24774, 28903, 33024, 33031}
             \cup {k * 2503 : k \in 1 .. 13}
Scalars == {0, 1, 2, 7, 8, 15, 16, 4095, 4096, 4128, 4129, 4130, 8258, 32767} \cup {k * 641 : k \in 1 .. 51}
Encodings == {k * 97 : k \in 0 .. 675} \cup 0 .. 40 \cup 32700 .. 32810 \cup 65480 .. 65535
Known == {[p |-> Curve!Encoding(i), i |-> i] : i \in Indices}
           \cup {[p |-> 32769, i |-> 0], [p |-> 32750, i |-> 0], [p |-> 32749, i |-> -1], [p |-> 2, i |-> -1]}

CurvesInit ==
    /\ at = "called" /\ mem = Nothing
    /\ \/ \E i, j \in Indices, z \in {1, 30000} : input = [call |-> "points", i |-> i, j |-> j, z |-> z]
       \/ \E s \in Encodings : input = [call |-> "decode", s |-> s]
       \/ \E a \in Scalars, i \in {0, 1, 4129, 12345}, b \in {0, 1, 15, 31, 63, 1023, 4095, 4128, 2731} :
              input = [call |-> "multiply", a |-> a, b |-> b, i |-> i]
       \/ \E lo \in {s \in Encodings : s % 3 = 0}, hi \in {0, 1, 32767, 32768, 65535} :
              input = [call |-> "map", lo |-> lo, hi |-> hi]
       \/ \E s \in {0, 1, 9, 1000, 2000, 2001, 2002, 28408, 32236, 61176, 65535} \cup 32747 .. 32751,
             a \in {0, 1000, 40000, 65535}, b \in {8, 12345} :
              input = [call |-> "agree", s |-> s, a |-> a, b |-> b]
       \/ \E p \in Known, q \in {k \in Known : k.i \in {-1, 0, 1, 8258, 20024}}, n \in {0, 1, 4129, 5555, 65535}, c \in BOOLEAN :
              input = [call |-> "encoded", p |-> p.p, ip |-> p.i, q |-> q.p, iq |-> q.i, n |-> n, clamp |-> c]
       \/ \E i, j \in {0, 1, 5, 4129, 2064, 8257, 12000}, n \in {0, 1, 4128, 4129, 8258, 65535} :
              input = [call |-> "ristretto", i |-> i, j |-> j, n |-> n]
       \/ \E az \in {0, 5000, 65535}, nonce \in {0, 1, 4128, 4129, 100000}, h \in {0, 1, 4128, 77777} :
              input = [call |-> "sign", az |-> az, nonce |-> nonce, hram |-> h]
       \/ \E i, r \in {0, 4129, 8, 9, 16524, 80}, S \in {0, 1, 10, 11, 3000, 4128, 4129, 4130, 4139, 4140, 65535}, h \in {0, 1, 9, 4128} :
              input = [call |-> "verify", i |-> i, r |-> r, S |-> S, h |-> h]

-----------------------------------------------------------------------------
Init ==
    \/ alg = "password" /\ Hash!Init
    \/ alg = "numbers" /\ NumbersInit /\ Number!Init
    \/ alg \in {"limb51", "limb25"} /\ FieldInit /\ (alg = "limb51" <=> input.call = "fe51")
    \/ alg = "wide25" /\ WideInit
    \/ alg = "scalars" /\ ScalarsInit
    \/ alg = "codecs" /\ CodecsInit
    \/ alg = "ip" /\ IpInit
    \/ alg = "curves" /\ CurvesInit
    \/ alg = "sealing" /\ (\E a \in Aeads \cup Seal!Boxes : SealingInputs(a)) /\ SealingInit

Next ==
    \/ CallNext
    \/ alg = "limb51" /\ Limb51!Next /\ UNCHANGED alg
    \/ alg = "limb25" /\ Limb25!Next /\ UNCHANGED alg
    \/ alg = "wide25" /\ Wide25!Next /\ UNCHANGED alg
    \/ alg = "scalars" /\ Scalar!Next /\ UNCHANGED alg
    \/ alg = "codecs" /\ Codec!Next /\ UNCHANGED alg
    \/ alg = "ip" /\ Ip!Next /\ UNCHANGED alg
    \/ alg = "curves" /\ Curve!Next /\ UNCHANGED alg
    \/ alg = "sealing" /\ Seal!Next /\ UNCHANGED alg

Spec == Init /\ [][Next]_vars

(* Points, exchanged secrets and signatures are what the group law says.   *)
CurvesFollowTheLaw == alg = "curves" => Curve!CurvesFollowTheLaw

(* Numbers, field elements and scalars are what their limbs stand for,     *)
(* with every carry in its place and no limb past its width, and what      *)
(* scrypt is asked to do fits its limits.                                  *)
ArithmeticIsExact ==
    /\ alg = "numbers" => Number!ArithmeticIsExact /\ Number!PickedParamsFit
    /\ alg = "limb51" => Limb51!FieldsAreExact
    /\ alg = "limb25" => Limb25!FieldsAreExact
    /\ alg = "wide25" => Wide25!FieldsAreExact
    /\ alg = "scalars" => Scalar!ScalarsAreExact

(* Hexadecimal, Base64 and IP texts are read exactly if they are written.  *)
TextsAreCanonical ==
    /\ alg = "codecs" => Codec!CodecsAreCanonical
    /\ alg = "ip" => Ip!TextsMeanOneAddress

(* Sealed messages are hidden, and open to what was sealed or not at all.  *)
MessagesAreSealed == alg = "sealing" => Seal!MessagesAreSealed
=============================================================================
