------------------------------ MODULE PolyLanes ------------------------------
(***************************************************************************)
(* The arithmetic of Poly1305 in each implementation: one block at a time  *)
(* in five limbs (donna32) or three (donna64, and the NEON one for short   *)
(* messages), two side by side (SSE2), eight with powers of r (NEON).      *)
(* The modulus is 2^(5 Limb) - 5.  A block is five digits of Limb bits, of *)
(* which the last is two bits short, and lengths are in digits; the pad    *)
(* that is added to the result is left out.                                *)
(***************************************************************************)
EXTENDS Integers, Sequences, SequencesExt

CONSTANTS
    Limb,      \* 26
    Wide,      \* 44: the limbs of the representation in three
    Factors    \* coprime, their product is the modulus

VARIABLES input, at, mem

Total == 5 * Limb
Top   == Total - (2 * Wide)               \* the bits of the last of three
Low(x, bits)  == x % 2 ^ bits
High(x, bits) == x \div 2 ^ bits

-----------------------------------------------------------------------------
(* Three limbs.  A product wraps at 3 Wide, a little above the modulus.    *)
Wrap == 5 * 2 ^ ((3 * Wide) - Total)

poly1305_carry(d) ==
    LET d1 == d[2] + High(d[1], Wide)
        d2 == d[3] + High(d1, Wide)
        h0 == Low(d[1], Wide) + (5 * High(d2, Top))
    IN  <<Low(h0, Wide), Low(d1, Wide) + High(h0, Wide), Low(d2, Top)>>

poly1305_mul(a, b) ==
    LET s1 == b[2] * Wrap  s2 == b[3] * Wrap
    IN  poly1305_carry(<<a[1] * b[1] + a[2] * s2 + a[3] * s1,
                         a[1] * b[2] + a[2] * b[1] + a[3] * s2,
                         a[1] * b[3] + a[2] * b[2] + a[3] * b[1]>>)

poly1305_sqr(a) ==
    LET s2 == a[3] * Wrap
    IN  poly1305_carry(<<a[1] * a[1] + 2 * a[2] * s2,
                         2 * a[1] * a[2] + a[3] * s2,
                         2 * a[1] * a[3] + a[2] * a[2]>>)

(* The squares of poly1305_init_ext() carry once more.                     *)
SquareCarried(a) ==
    LET s == poly1305_sqr(a) IN <<s[1], Low(s[2], Wide), s[3] + High(s[2], Wide)>>

(* A block, and the bit above it                                           *)
ThreeLimbs(b, hibit) ==
    LET w0 == b[1] + (b[2] * 2 ^ Limb)
        w1 == High(w0, Wide) + (b[3] * 2 ^ ((2 * Limb) - Wide)) + (b[4] * 2 ^ ((3 * Limb) - Wide))
    IN  <<Low(w0, Wide), Low(w1, Wide),
          High(w1, Wide) + (b[5] * 2 ^ ((4 * Limb) - (2 * Wide))) + hibit * 2 ^ (Top - 2)>>

ScalarStep(h, r, block, hibit) ==
    LET m == ThreeLimbs(block, hibit) IN poly1305_mul(<<h[1] + m[1], h[2] + m[2], h[3] + m[3]>>, r)

(* poly1305_finish(): carried to the end, then less than the modulus.      *)
CarryTwice(h) ==
    LET x2 == h[3] + High(h[2], Wide)
        x0 == h[1] + (5 * High(x2, Top))
        x1 == Low(h[2], Wide) + High(x0, Wide)
        y2 == Low(x2, Top) + High(x1, Wide)
        y0 == Low(x0, Wide) + (5 * High(y2, Top))
    IN  <<Low(y0, Wide), Low(x1, Wide) + High(y0, Wide), Low(y2, Top)>>

SubtractModulus(h) ==
    LET g0 == h[1] + 5
        g1 == h[2] + High(g0, Wide)
        g2 == h[3] + High(g1, Wide) - 2 ^ Top
    IN  IF g2 >= 0 THEN <<Low(g0, Wide), Low(g1, Wide), g2>> ELSE h

-----------------------------------------------------------------------------
(* Five limbs, in lanes.                                                   *)

poly1305_radix26_from_44(h) ==
    LET h1 == Low(h[2], Wide)  h2 == h[3] + High(h[2], Wide)
    IN  <<Low(h[1], Limb), Low(High(h[1], Limb) + (h1 * 2 ^ (Wide - Limb)), Limb),
          Low(High(h1, (2 * Limb) - Wide), Limb),
          Low(High(h1, (3 * Limb) - Wide) + (h2 * 2 ^ ((2 * Wide) - (3 * Limb))), Limb),
          High(h2, (4 * Limb) - (2 * Wide))>>

Plus(a, b)     == <<a[1] + b[1], a[2] + b[2], a[3] + b[3], a[4] + b[4], a[5] + b[5]>>
Marked(b, hibit) == [b EXCEPT ![5] = @ + hibit * 2 ^ (Limb - 2)]
poly1305_mlal(T, a, r) ==
    LET term(k, i) == a[i] * (IF i <= k THEN r[k - i + 1] ELSE 5 * r[k - i + 6])
        sum(k)     == T[k] + term(k, 1) + term(k, 2) + term(k, 3) + term(k, 4) + term(k, 5)
    IN  <<sum(1), sum(2), sum(3), sum(4), sum(5)>>
Nothing == <<0, 0, 0, 0, 0>>

poly1305_reduce(T) ==
    LET t1 == T[2] + High(T[1], Limb)        t4 == T[5] + High(T[4], Limb)
        t2 == T[3] + High(t1, Limb)          t0 == Low(T[1], Limb) + (5 * High(t4, Limb))
        t3 == Low(T[4], Limb) + High(t2, Limb)
    IN  <<Low(t0, Limb), Low(t1, Limb) + High(t0, Limb), Low(t2, Limb), Low(t3, Limb), Low(t4, Limb) + High(t3, Limb)>>

(* The 32-bit implementation: one lane, a carry from end to end.           *)
CarryUp(t) ==
    LET t1 == t[2] + High(t[1], Limb)  t2 == t[3] + High(t1, Limb)
        t3 == t[4] + High(t2, Limb)    t4 == t[5] + High(t3, Limb)
    IN  <<Low(t[1], Limb), Low(t1, Limb), Low(t2, Limb), Low(t3, Limb), t4>>
CarryRound(t) ==
    LET h0 == t[1] + (5 * High(t[5], Limb))
    IN  <<Low(h0, Limb), t[2] + High(h0, Limb), t[3], t[4], Low(t[5], Limb)>>
Donna32Step(h, r, block, hibit) == CarryRound(CarryUp(poly1305_mlal(Nothing, Plus(h, Marked(block, hibit)), r)))
Donna32Finish(h) ==
    LET c == CarryRound(CarryUp(<<0, h[2], h[3], h[4], h[5]>>))
        f == <<Low(h[1] + c[1], Limb), c[2] + High(h[1] + c[1], Limb), c[3], c[4], c[5]>>
        g == CarryUp([f EXCEPT ![1] = @ + 5])
    IN  IF g[5] >= 2 ^ Limb THEN [g EXCEPT ![5] = @ - 2 ^ Limb] ELSE f

(* Both lanes together, back in three limbs: as NEON does it, ...          *)
NeonSum(lanes) ==
    LET t  == CarryUp(Plus(lanes[1], lanes[2]))
        t0 == t[1] + (5 * High(t[5], Limb)) + (t[2] * 2 ^ Limb)
        t2 == (t[3] * 2 ^ ((2 * Limb) - Wide)) + (Low(t[4], (2 * Wide) - (3 * Limb)) * 2 ^ ((3 * Limb) - Wide)) + High(t0, Wide)
    IN  <<Low(t0, Wide), Low(t2, Wide),
          High(t[4], (2 * Wide) - (3 * Limb)) + (Low(t[5], Limb) * 2 ^ ((4 * Limb) - (2 * Wide))) + High(t2, Wide)>>
(* ... and as SSE2 does.                                                   *)
SseSum(lanes) ==
    LET t == CarryUp(Plus(lanes[1], lanes[2]))
    IN  <<Low(t[1] + (t[2] * 2 ^ Limb), Wide),
          Low(High(t[2], Wide - Limb) + (t[3] * 2 ^ ((2 * Limb) - Wide)) + (t[4] * 2 ^ ((3 * Limb) - Wide)), Wide),
          High(t[4], (2 * Wide) - (3 * Limb)) + (t[5] * 2 ^ ((4 * Limb) - (2 * Wide)))>>

(* r, r^2, ..., r^8; the last four at once, as [r^4, r^3, r^2, r] * r^4    *)
poly1305_compute_powers(r) ==
    LET r2 == poly1305_sqr(r)
        x  == <<r, r2, poly1305_mul(r2, r), poly1305_sqr(r2)>>
        small(n) == poly1305_radix26_from_44(x[n])
        large(n) == poly1305_reduce(poly1305_mlal(Nothing, small(n), small(4)))
    IN  <<small(1), small(2), small(3), small(4), large(1), large(2), large(3), large(4)>>

-----------------------------------------------------------------------------
(* A message: updates of the lengths input.cuts, or one call.              *)

Donna32 == input.build = "donna32"
Sse2 == input.build \in {"sse2", "sse2 at once"}
Size == IF Sse2 THEN 10 ELSE 5                     \* poly1305_block_size
Length == FoldLeft(LAMBDA n, m : n + m, 0, input.cuts)
Digit(i) ==
    LET limit == IF i % 5 = 0 THEN Limb - 2 ELSE Limb
    IN  IF input.text = "ones" THEN 2 ^ limit - 1 ELSE ((i * i * 37) + (i * 91) + 5) % 2 ^ limit
Text(from, n)   == [i \in 1 .. n |-> Digit(from + i)]
Blocks(digits)  == [k \in 1 .. (Len(digits) \div 5) |-> SubSeq(digits, (5 * k) - 4, 5 * k)]

(* poly1305_init_ext() squares r only as often as the length given calls   *)
(* for; what it does not set is not defined.                               *)
Called ==
    /\ at = "called" /\ at' = "update" /\ UNCHANGED input
    /\ LET len == IF input.build = "sse2 at once" /\ Length > 0 THEN Length ELSE 1000
           r2  == SquareCarried(input.r)
       IN mem' = [cuts |-> input.cuts, fed |-> 0, m |-> <<>>, buf |-> <<>>, work |-> <<>>, final |-> FALSE, shift |-> 0,
                  h |-> IF Donna32 THEN Nothing ELSE <<0, 0, 0>>, lanes |-> <<>>, pow |-> <<>>,
                  r2 |-> IF Sse2 /\ len > 5 THEN poly1305_radix26_from_44(r2) ELSE <<>>,
                  r4 |-> IF Sse2 /\ len >= 30 THEN poly1305_radix26_from_44(SquareCarried(r2)) ELSE <<>>]

(* poly1305_blocks() of those digits: which loop takes them                *)
Loop(digits) ==
    IF Sse2 THEN "sse2"
    ELSE IF input.build = "neon" /\ Len(digits) >= (IF mem.pow = <<>> THEN 40 ELSE 20) THEN "neon" ELSE "scalar"

Update ==
    /\ at = "update" /\ mem.m = <<>> /\ mem.cuts # <<>>
    /\ LET text == Text(mem.fed, Head(mem.cuts))
           want == IF mem.buf = <<>> THEN 0 ELSE IF Len(text) < Size - Len(mem.buf) THEN Len(text) ELSE Size - Len(mem.buf)
           buf  == mem.buf \o SubSeq(text, 1, want)
           rest == [mem EXCEPT !.cuts = Tail(@), !.fed = @ + Len(text), !.m = SubSeq(text, want + 1, Len(text))]
       IN IF Len(buf) = Size
          THEN mem' = [rest EXCEPT !.buf = <<>>, !.work = Blocks(buf)] /\ at' = Loop(buf)
          ELSE mem' = [rest EXCEPT !.buf = buf] /\ UNCHANGED at
    /\ UNCHANGED input

UpdateBlocks ==
    /\ at = "update" /\ Len(mem.m) >= Size
    /\ LET want == Size * (Len(mem.m) \div Size)
       IN /\ mem' = [mem EXCEPT !.work = Blocks(SubSeq(mem.m, 1, want)), !.m = SubSeq(mem.m, want + 1, Len(mem.m))]
          /\ at' = Loop(SubSeq(mem.m, 1, want))
    /\ UNCHANGED input

UpdateTail ==
    /\ at = "update" /\ Len(mem.m) \in 1 .. (Size - 1)
    /\ mem' = [mem EXCEPT !.buf = @ \o mem.m, !.m = <<>>]
    /\ UNCHANGED <<input, at>>

Return(loop) == at = loop /\ mem.work = <<>> /\ UNCHANGED <<input, mem>>
                /\ at' = IF mem.final THEN "final" ELSE "update"
Left(n)      == SubSeq(mem.work, n + 1, Len(mem.work))

ScalarBlock ==
    /\ at = "scalar" /\ mem.work # <<>>
    /\ LET hibit == IF mem.final THEN 0 ELSE 1
       IN mem' = [mem EXCEPT !.work = Left(1),
                      !.h = IF Donna32 THEN Donna32Step(@, poly1305_radix26_from_44(input.r), Head(mem.work), hibit)
                            ELSE ScalarStep(@, input.r, Head(mem.work), hibit)]
    /\ UNCHANGED <<input, at>>
ScalarReturn == Return("scalar")

(* poly1305_blocks() of SSE2: H is a pair of lanes, HIBIT one of bits.     *)
Hibit == CASE mem.shift = 0 -> <<1, 1>> [] mem.shift = 8 -> <<1, 0>> [] mem.shift = 16 -> <<0, 0>>
Block(l) == Marked(mem.work[l], Hibit[((l - 1) % 2) + 1])
Pair(F(_)) == <<F(1), F(2)>>

SseFirst ==
    /\ at = "sse2" /\ mem.work # <<>> /\ mem.lanes = <<>>
    /\ mem' = [mem EXCEPT !.lanes = Pair(Block), !.work = Left(2)]
    /\ UNCHANGED <<input, at>>
Sse64 ==
    /\ at = "sse2" /\ mem.lanes # <<>> /\ Len(mem.work) >= 4
    /\ mem' = [mem EXCEPT !.work = Left(4), !.lanes = Pair(LAMBDA l :
                    poly1305_reduce(poly1305_mlal(poly1305_mlal(Block(l + 2), Block(l), mem.r2), @[l], mem.r4)))]
    /\ UNCHANGED <<input, at>>
Sse32 ==
    /\ at = "sse2" /\ mem.lanes # <<>> /\ Len(mem.work) \in 2 .. 3
    /\ mem' = [mem EXCEPT !.work = Left(2),
                   !.lanes = Pair(LAMBDA l : poly1305_reduce(poly1305_mlal(Block(l), @[l], mem.r2)))]
    /\ UNCHANGED <<input, at>>
SseReturn == Return("sse2")

(* poly1305_blocks_neon(): an odd block is done first; then eight at a     *)
(* time; then up to four pairs, each lane with a power of its own.         *)
NeonBegin ==
    /\ at = "neon"
    /\ LET odd == Len(mem.work) % 2
           h   == IF odd = 1 THEN ScalarStep(mem.h, input.r, Head(mem.work), 1) ELSE mem.h
       IN mem' = [mem EXCEPT !.pow = IF @ = <<>> THEN poly1305_compute_powers(input.r) ELSE @,
                      !.work = Left(odd), !.lanes = <<poly1305_radix26_from_44(h), Nothing>>]
    /\ at' = "pairs" /\ UNCHANGED input

NeonEight ==
    /\ at = "pairs" /\ Len(mem.work) > 8
    /\ mem' = [mem EXCEPT !.work = Left(8), !.lanes = Pair(LAMBDA l :
          poly1305_reduce(poly1305_mlal(poly1305_mlal(poly1305_mlal(poly1305_mlal(Nothing,
             Block(l + 2), mem.pow[6]), Block(l + 4), mem.pow[4]), Block(l + 6), mem.pow[2]), Plus(@[l], Block(l)), mem.pow[8])))]
    /\ UNCHANGED <<input, at>>

NeonPairs ==
    /\ at = "pairs" /\ Len(mem.work) \in 2 .. 8
    /\ LET n == Len(mem.work)
           others(l) == FoldLeft(LAMBDA T, b : poly1305_mlal(T, Block(b), mem.pow[n - b + 1]), Nothing,
                                 SelectSeq([b \in 1 .. n |-> b], LAMBDA b : b > 2 /\ b % 2 = l % 2))
           lane(l) == poly1305_mlal(others(l), Plus(Block(l), mem.lanes[l]), mem.pow[n - l + 1])
       IN mem' = [mem EXCEPT !.h = NeonSum(Pair(lane)), !.work = <<>>, !.lanes = <<>>]
    /\ at' = "scalar" /\ UNCHANGED input              \* where it returns

-----------------------------------------------------------------------------
(* poly1305_finish(): a last block that is marked, not counted.            *)
Filled(buf, mark) == [i \in 1 .. Size |-> IF i <= Len(buf) THEN buf[i] ELSE IF i = Len(buf) + 1 THEN mark ELSE 0]

Ready  == at = "update" /\ mem.m = <<>> /\ mem.cuts = <<>>
Finish ==
    /\ Ready /\ ~ Sse2
    /\ IF mem.buf = <<>> THEN at' = "final" /\ UNCHANGED mem
       ELSE at' = "scalar" /\ mem' = [mem EXCEPT !.final = TRUE, !.work = Blocks(Filled(mem.buf, 1))]
    /\ UNCHANGED input

SseFinish ==
    /\ Ready /\ Sse2
    /\ LET n == Len(mem.buf)
       IN IF n = 0 THEN at' = "final" /\ UNCHANGED mem
          ELSE /\ at' = "sse2"
               /\ mem' = [mem EXCEPT !.final = TRUE, !.shift = IF n >= 5 THEN 8 ELSE 16,
                              !.work = Blocks(Filled(mem.buf, IF n = 5 THEN 0 ELSE 1))]
    /\ UNCHANGED input

(* H *= [r^2, r], or [r, 1] where the second lane had nothing.             *)
SseLast ==
    /\ at = "final" /\ mem.lanes # <<>>
    /\ LET n == Len(mem.buf)
           r == poly1305_radix26_from_44(input.r)
           x == IF n = 0 \/ n > 5 THEN <<mem.r2, r>> ELSE <<r, <<1, 0, 0, 0, 0>>>>
       IN mem' = [mem EXCEPT !.lanes = <<>>,
                      !.h = SseSum(Pair(LAMBDA l : poly1305_reduce(poly1305_mlal(Nothing, mem.lanes[l], x[l]))))]
    /\ UNCHANGED <<input, at>>

Final ==
    /\ at = "final" /\ mem.lanes = <<>>
    /\ mem' = [mem EXCEPT !.h = IF Donna32 THEN Donna32Finish(@) ELSE SubtractModulus(CarryTwice(@))]
    /\ at' = "done" /\ UNCHANGED input

Next ==
    \/ Called \/ Update \/ UpdateBlocks \/ UpdateTail \/ Finish \/ SseFinish \/ SseLast \/ Final
    \/ ScalarBlock \/ ScalarReturn \/ SseFirst \/ Sse64 \/ Sse32 \/ SseReturn
    \/ NeonBegin \/ NeonEight \/ NeonPairs

(* The tag is the polynomial's value at r, and less than the modulus: that *)
(* is, it is so modulo each factor.                                        *)
Residue(limbs, width, q) ==
    FoldRight(LAMBDA x, n : (x + n * (2 ^ width % q)) % q, limbs, 0)
Polynomial(q) ==
    LET text  == Text(0, Length)
        n     == (Length + 4) \div 5
        digit(i) == IF i <= Length THEN text[i] ELSE IF i = Length + 1 THEN 1 ELSE 0
        block(k) == [i \in 1 .. 5 |-> digit((5 * k) - 5 + i)]
        high(k)  == IF 5 * k <= Length THEN 2 ^ (Limb - 2) ELSE 0
        value(k) == Residue([block(k) EXCEPT ![5] = @ + high(k)], Limb, q)
    IN  FoldLeft(LAMBDA h, k : ((h + value(k)) * Residue(input.r, Wide, q)) % q, 0, [k \in 1 .. n |-> k])
Below(h, width, top) ==
    /\ \A i \in 1 .. (Len(h) - 1) : h[i] < 2 ^ width
    /\ h[Len(h)] < 2 ^ top
    /\ (h[Len(h)] = 2 ^ top - 1 /\ \A i \in 2 .. (Len(h) - 1) : h[i] = 2 ^ width - 1) => h[1] < 2 ^ width - 5
TagsAreExact ==
    at = "done" =>
        /\ IF Donna32 THEN Below(mem.h, Limb, Limb) ELSE Below(mem.h, Wide, Top)
        /\ \A q \in Factors : Residue(mem.h, IF Donna32 THEN Limb ELSE Wide, q) = Polynomial(q)
=============================================================================
