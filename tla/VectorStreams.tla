---------------------------- MODULE VectorStreams ----------------------------
(***************************************************************************)
(* The vectorised ChaCha20 and Salsa20.  A call produces the key stream in *)
(* batches: every implementation works through kernels that make 16, 8, 4, *)
(* 2 or 1 blocks at once and hand the block counter on to the next, and a  *)
(* last one for the rest.  The words are narrow, so that the counter       *)
(* carries, and the rounds few; lengths are in words, of messages of 0.    *)
(***************************************************************************)
EXTENDS Lanes, FiniteSetsExt

CONSTANTS ROUNDS, ChachaTurns, SalsaTurns

VARIABLES input, at, mem

Words == 0 .. 15

-----------------------------------------------------------------------------
(* Rounds on registers of any number of lanes.                             *)

Fold(Op(_, _), z, list) ==
    LET after[i \in 0 .. Len(list)] == IF i = 0 THEN z ELSE Op(after[i - 1], list[i]) IN after[Len(list)]

Line(z, a, b, d, turn) ==
    LET sum == Add(z[a], z[b]) IN [z EXCEPT ![a] = sum, ![d] = XorRot(@, sum, turn)]
ChachaLine(z, q, k) ==
    IF k % 2 = 1 THEN Line(z, q[1], q[2], q[4], ChachaTurns[k]) ELSE Line(z, q[3], q[4], q[2], ChachaTurns[k])

(* A round of quarter rounds, so many of them side by side.                *)
Side(z, quads)   == Fold(LAMBDA y, k : Fold(LAMBDA x, q : ChachaLine(x, q, k), y, quads), z, <<1, 2, 3, 4>>)
Abreast(z, quads, n) ==
    Fold(LAMBDA y, g : Side(y, SubSeq(quads, g * n + 1, (g + 1) * n)), z, [g \in 1 .. (4 \div n) |-> g - 1])
Columns   == <<<<0, 4, 8, 12>>, <<1, 5, 9, 13>>, <<2, 6, 10, 14>>, <<3, 7, 11, 15>>>>
Diagonals == <<<<0, 5, 10, 15>>, <<1, 6, 11, 12>>, <<2, 7, 8, 13>>, <<3, 4, 9, 14>>>>
ChachaRounds(z, n, half) == Abreast(z, IF half = 0 THEN Columns ELSE Diagonals, n)

(* Four rows of a matrix in four registers, turned between the rounds.     *)
ChachaHalf(z, Turn0(_), Turn2(_)) ==
    LET y == Side(z, <<<<0, 1, 2, 3>>>>)
    IN [y EXCEPT ![0] = Turn0(@), ![3] = shuffle4e(@), ![2] = Turn2(@)]
ChachaRows(z, half) ==
    IF half = 0 THEN ChachaHalf(z, shuffle93, shuffle39) ELSE ChachaHalf(z, shuffle39, shuffle93)
ChachaRowsNeon(z, half) == IF half = 0 THEN ChachaHalf(z, vext3, vext1) ELSE ChachaHalf(z, vext1, vext3)

SalsaStep(z, s) == [z EXCEPT ![s[1]] = TurnInto(@, Add(z[s[2]], z[s[3]]), SalsaTurns[s[4]])]
SalsaQuarter(z, q) ==
    Fold(SalsaStep, z, <<<<q[2], q[1], q[4], 1>>, <<q[3], q[2], q[1], 2>>, <<q[4], q[3], q[2], 3>>, <<q[1], q[4], q[3], 4>>>>)

SalsaColumns == <<<<0, 4, 8, 12>>, <<5, 9, 13, 1>>, <<10, 14, 2, 6>>, <<15, 3, 7, 11>>>>
SalsaLines   == <<<<0, 1, 2, 3>>, <<5, 6, 7, 4>>, <<10, 11, 8, 9>>, <<15, 12, 13, 14>>>>
SalsaRounds(z, half) == Fold(SalsaQuarter, z, IF half = 0 THEN SalsaColumns ELSE SalsaLines)

(* The order of the kernels of 4, 8 and 16 blocks: <<to, from, from, turn>>. *)
SalsaOrder == <<
    <<4, 12, 0, 1>>, <<9, 1, 5, 1>>, <<8, 0, 4, 2>>, <<13, 5, 9, 2>>, <<12, 4, 8, 3>>, <<1, 9, 13, 3>>,
    <<0, 8, 12, 4>>, <<5, 13, 1, 4>>, <<14, 6, 10, 1>>, <<3, 11, 15, 1>>, <<2, 10, 14, 2>>, <<7, 15, 3, 2>>,
    <<6, 14, 2, 3>>, <<11, 3, 7, 3>>, <<10, 2, 6, 4>>, <<1, 3, 0, 1>>, <<15, 7, 11, 4>>, <<6, 4, 5, 1>>,
    <<2, 0, 1, 2>>, <<7, 5, 6, 2>>, <<3, 1, 2, 3>>, <<4, 6, 7, 3>>, <<0, 2, 3, 4>>, <<5, 7, 4, 4>>,
    <<11, 9, 10, 1>>, <<12, 14, 15, 1>>, <<8, 10, 11, 2>>, <<13, 15, 12, 2>>, <<9, 11, 8, 3>>, <<14, 12, 13, 3>>,
    <<10, 8, 9, 4>>, <<15, 13, 14, 4>>>>
SalsaLanes(z, half) == Fold(SalsaStep, z, SubSeq(SalsaOrder, 16 * half + 1, 16 * half + 16))

(* Diagonals in four registers: rows 1 and 3 change places.                *)
SalsaHalf(z, one, three, Turn1(_), Turn3(_)) ==
    LET y == SalsaQuarter(z, <<0, three, 2, one>>)
    IN [y EXCEPT ![three] = Turn3(@), ![2] = shuffle4e(@), ![one] = Turn1(@)]
SalsaRows(z, half) == SalsaHalf(z, 1 + (2 * half), 3 - (2 * half), shuffle39, shuffle93)
SalsaRowsNeon(z, half) == SalsaHalf(z, 1 + (2 * half), 3 - (2 * half), vext1, vext3)

-----------------------------------------------------------------------------
(* The counters of the blocks of a batch, low words and high words.        *)

Counters4(n) ==
    LET a == Counters(n, <<0, 1>>)  b == Counters(n, <<2, 3>>)
        lo == unpacklo32(a, b)  hi == unpackhi32(a, b)
    IN <<unpacklo32(lo, hi), unpackhi32(lo, hi)>>

Counters4Neon(n) ==
    LET a == Counters(n, <<0, 1>>)  b == Counters(n, <<2, 3>>) IN <<vuzp1(a, b), vuzp2(a, b)>>

permute == <<0, 1, 4, 5, 2, 3, 6, 7>>
Counters8(n) ==
    LET a == Counters(n, <<0, 1, 2, 3>>)  b == Counters(n, <<4, 5, 6, 7>>)
        lo == unpacklo32(a, b)  hi == unpackhi32(a, b)
    IN <<permutevar8(unpacklo32(lo, hi), permute), permutevar8(unpackhi32(lo, hi), permute)>>

CountersWithoutCarry(n) ==                \* Mutant: the high words stay.
    LET base == Low64(n)
    IN <<Stored([l \in 1 .. 16 |-> (base[1] + l - 1) % Word]), Broadcast(base[2], 16)>>
Counters16(n) ==
    LET base == Low64(n)
        low  == Stored([l \in 1 .. 16 |-> (base[1] + l - 1) % Word])
    IN <<low, Stored([l \in 1 .. 16 |-> IF low[l] < base[1] THEN (base[2] + 1) % Word ELSE base[2]])>>

(* From a register per word of a block to a block per lane.                *)

Quad(z, w) ==
    LET a == unpacklo32(z[w], z[w + 1])  b == unpacklo32(z[w + 2], z[w + 3])
        c == unpackhi32(z[w], z[w + 1])  d == unpackhi32(z[w + 2], z[w + 3])
    IN <<unpacklo64(a, b), unpackhi64(a, b), unpacklo64(c, d), unpackhi64(c, d)>>
Transposed4(z) == [b \in 1 .. 4 |-> FlattenSeq([q \in 1 .. 4 |-> Quad(z, 4 * (q - 1))[b]])]

QuadNeon(z, w) ==
    LET a == vtrn1_32(z[w], z[w + 1])  b == vtrn2_32(z[w], z[w + 1])
        c == vtrn1_32(z[w + 2], z[w + 3])  d == vtrn2_32(z[w + 2], z[w + 3])
    IN <<unpacklo64(a, c), unpacklo64(b, d), unpackhi64(a, c), unpackhi64(b, d)>>
Transposed4Neon(z) == [b \in 1 .. 4 |-> FlattenSeq([q \in 1 .. 4 |-> QuadNeon(z, 4 * (q - 1))[b]])]

Octo(z, w) ==
    LET x == Quad(z, w)  y == Quad(z, w + 4)
    IN [b \in 1 .. 8 |-> IF b <= 4 THEN Groups(x[b], y[b], <<0, 2>>) ELSE Groups(x[b - 4], y[b - 4], <<1, 3>>)]
Transposed8(z) == [b \in 1 .. 8 |-> Octo(z, 0)[b] \o Octo(z, 8)[b]]

Hexa(a, b, c, d) ==
    LET u0 == Groups(a, b, <<0, 2, 4, 6>>)  u1 == Groups(a, b, <<1, 3, 5, 7>>)
        u2 == Groups(c, d, <<0, 2, 4, 6>>)  u3 == Groups(c, d, <<1, 3, 5, 7>>)
    IN <<Groups(u0, u2, <<0, 2, 4, 6>>), Groups(u1, u3, <<0, 2, 4, 6>>),
         Groups(u0, u2, <<1, 3, 5, 7>>), Groups(u1, u3, <<1, 3, 5, 7>>)>>
Transposed16(z) ==
    LET q == [k \in 0 .. 3 |-> Quad(z, 4 * k)]
        h == [i \in 1 .. 4 |-> Hexa(q[0][i], q[1][i], q[2][i], q[3][i])]
    IN [b \in 1 .. 16 |-> h[((b - 1) % 4) + 1][((b - 1) \div 4) + 1]]

(* From the four diagonals of Salsa20's matrix to its rows.                *)
places == <<<<0, 12, 8, 4>>, <<5, 1, 13, 9>>, <<10, 6, 2, 14>>, <<15, 11, 7, 3>>>>
Undiagonalized(z) ==
    [p \in 1 .. 16 |-> LET w == CHOOSE w \in (1 .. 4) \X (1 .. 4) : places[w[1]][w[2]] = p - 1 IN z[w[2] - 1][w[1]]]
undiagonalize_neon(z) ==
    LET d1 == vext1(z[1])  d2 == vext2(z[2])  d3 == vext3(z[3])
        t0 == vtrn1_32(z[0], d1)  t1 == vtrn2_32(z[0], d1)  t2 == vtrn1_32(d2, d3)  t3 == vtrn2_32(d2, d3)
    IN unpacklo64(t0, t2) \o vext3(unpacklo64(t1, t3)) \o vext2(unpackhi64(t0, t2)) \o vext1(unpackhi64(t1, t3))

-----------------------------------------------------------------------------
(* The state: 16 words, in Salsa20's vector code out of order, and where   *)
(* the two words of the block counter are.                                 *)

TR   == <<0, 5, 10, 15, 12, 1, 6, 11, 8, 13, 2, 7, 4, 9, 14, 3>>
Low  == IF input.cipher = "salsa20" THEN 8 ELSE 12
High == IF input.cipher = "salsa20" THEN 9 ELSE 13

(* keysetup and ivsetup, of the variant in question: the words in order    *)
Matrix == [w \in Words |-> CASE w = Low  -> input.ic % Word
                             [] w = High -> IF input.ietf THEN 7 ELSE input.ic \div Word
                             [] OTHER    -> (5 * w + 3) % Word]
Place(w)   == IF input.cipher = "salsa20" THEN TR[w + 1] ELSE w
StateOf(m) == [p \in Words |-> m[CHOOSE w \in Words : Place(w) = p]]

Count(x)       == From64(x[Place(Low)], x[Place(High)])
Counted(x, n)  == LET c == Low64(Count(x) + n) IN [x EXCEPT ![Place(Low)] = c[1], ![Place(High)] = c[2]]
OneMore(x) ==
    LET lo == (x[Place(Low)] + 1) % Word
    IN [x EXCEPT ![Place(Low)] = lo, ![Place(High)] = IF lo = 0 THEN (@ + 1) % Word ELSE @]

Load(x, lanes, counters) ==
    [w \in Words |-> IF w = Low THEN counters[1] ELSE IF w = High THEN counters[2] ELSE Broadcast(x[Place(w)], lanes)]
Sum(z, orig) == [w \in DOMAIN z |-> Add(z[w], orig[w])]
Rows(x)      == [r \in 0 .. 3 |-> [l \in 1 .. 4 |-> x[4 * r + l - 1]]]

Chacha == input.cipher = "chacha20"
Neon   == input.build = "neon"

Round(k, z, half) ==
    CASE k >= 4 /\ Chacha -> ChachaRounds(z, k \div 4, half)
      [] k >= 4 /\ ~Chacha -> IF Neon THEN SalsaRounds(z, half) ELSE SalsaLanes(z, half)
      [] k < 4 /\ Chacha -> IF Neon THEN ChachaRowsNeon(z, half) ELSE ChachaRows(z, half)
      [] OTHER -> IF Neon THEN SalsaRowsNeon(z, half) ELSE SalsaRows(z, half)

BlockOf(z) ==
    IF Chacha THEN z[0] \o z[1] \o z[2] \o z[3]
    ELSE IF Neon THEN undiagonalize_neon(z) ELSE Undiagonalized(z)
Stores(k, z) ==
    CASE k = 16 -> FlattenSeq(Transposed16(z[1]))
      [] k = 8  -> FlattenSeq(Transposed8(z[1]))
      [] k = 4  -> FlattenSeq(IF Neon THEN Transposed4Neon(z[1]) ELSE Transposed4(z[1]))
      [] OTHER  -> FlattenSeq([f \in DOMAIN z |-> BlockOf(z[f])])

-----------------------------------------------------------------------------
(* The reference implementations: a block at a time, a lane wide.  The     *)
(* rounds go through a register file kept in mem.                          *)

OneLane(m) == [w \in Words |-> <<m[w]>>]
QUARTERROUND(z, q) == Fold(LAMBDA x, k : ChachaLine(x, q, k), z, <<1, 2, 3, 4>>)
chacha20_encrypt_bytes(z, half) == Fold(QUARTERROUND, z, IF half = 0 THEN Columns ELSE Diagonals)
crypto_core_salsa(z, half)      == SalsaRounds(z, half)

-----------------------------------------------------------------------------
(* A call: first the reference implementation, for what is wanted, then    *)
(* the one of a build.  mem.k is the size of the batch that is being made. *)

Called == at = "called" /\ at' = "reference"
          /\ mem' = [x |-> Matrix, out |-> <<>>, want |-> <<>>, k |-> 0, z |-> <<>>, orig |-> <<>>, i |-> 0]
          /\ UNCHANGED input

left == input.length - Len(mem.out)
Begin(k, files) ==
    /\ mem' = [mem EXCEPT !.k = k, !.z = files, !.orig = files, !.i = 0]
    /\ UNCHANGED <<input, at>>
Ended(out, x) ==
    mem' = [mem EXCEPT !.k = 0, !.z = <<>>, !.orig = <<>>, !.out = @ \o out, !.x = x]

ReferenceBlock == at = "reference" /\ mem.k = 0 /\ left > 0 /\ Begin(1, <<OneLane(mem.x)>>)
ReferenceStore ==
    /\ at = "reference" /\ mem.k = 1 /\ mem.i = ROUNDS
    /\ LET z   == Sum(mem.z[1], mem.orig[1])
           low == (mem.x[Low] + 1) % Word
       IN Ended(SubSeq([w \in 1 .. 16 |-> z[w - 1][1]], 1, IF left < 16 THEN left ELSE 16),
                [mem.x EXCEPT ![Low] = low, ![High] = IF low = 0 THEN (@ + 1) % Word ELSE @])
    /\ UNCHANGED <<input, at>>

(* The kernels of an implementation, and the shortest stream it takes.     *)
avx512 == [kernels |-> {16, 8, 4, 1}, least |-> 1]
avx2   == [kernels |-> {8, 4, 1}, least |-> 1]
sse    == [kernels |-> {4, 1}, least |-> 1]
neon   == [kernels |-> {4, 2, 1}, least |-> IF Chacha THEN 32 ELSE 64]
Implementation == CASE input.build = "avx512" -> avx512 [] input.build = "avx2" -> avx2
                    [] input.build = "sse" -> sse [] Neon -> neon

Vectorised(build) ==
    /\ at = "reference" /\ mem.k = 0 /\ left = 0
    /\ input' = [input EXCEPT !.build = build]
    /\ at' = "chosen"
    /\ mem' = [mem EXCEPT !.want = mem.out, !.out = <<>>, !.x = StateOf(Matrix)]
stream_xor_ic ==
    /\ at = "chosen"
    /\ IF input.length < Implementation.least
       THEN mem' = [mem EXCEPT !.out = mem.want] /\ at' = "done"
       ELSE at' = "vectors" /\ UNCHANGED mem
    /\ UNCHANGED input

(* The loops come in the order of their sizes; the last takes the rest.    *)
Fits(k) == /\ at = "vectors" /\ mem.k = 0 /\ left > 0
           /\ k = Max({j \in Implementation.kernels : j = 1 \/ 16 * j <= left})
Whole == left >= 16

block == Count(mem.x)
Lanewise(lanes, counters) == Begin(lanes, <<Load(mem.x, lanes, counters)>>)

ChachaU16    == Chacha /\ Fits(16) /\ Lanewise(16, Counters16(block))
ChachaU8     == Chacha /\ Fits(8) /\ Lanewise(8, Counters8(block))
ChachaU4     == Chacha /\ ~Neon /\ Fits(4) /\ Lanewise(4, Counters4(block))
ChachaU1     == Chacha /\ ~Neon /\ Fits(1) /\ Whole /\ Begin(1, <<Rows(mem.x)>>)
ChachaU0     == Chacha /\ ~Neon /\ Fits(1) /\ ~Whole /\ Begin(1, <<Rows(mem.x)>>)
ChachaU4Neon == Chacha /\ Neon /\ Fits(4) /\ Lanewise(4, Counters4Neon(block))
ChachaU2Neon ==
    /\ Chacha /\ Neon /\ Fits(2)
    /\ LET r == Rows(mem.x)  c == Low64(From64(r[3][1], r[3][2]) + 1)
       IN Begin(2, <<r, [r EXCEPT ![3] = <<c[1], c[2], @[3], @[4]>>]>>)
ChachaU1Neon == Chacha /\ Neon /\ Fits(1) /\ Whole /\ Begin(1, <<Rows(mem.x)>>)
ChachaU0Neon == Chacha /\ Neon /\ Fits(1) /\ ~Whole /\ Begin(1, <<Rows(mem.x)>>)

SalsaU16     == ~Chacha /\ Fits(16) /\ Lanewise(16, Counters16(block))
SalsaU8      == ~Chacha /\ Fits(8) /\ Lanewise(8, Counters8(block))
SalsaU4      == ~Chacha /\ ~Neon /\ Fits(4) /\ Lanewise(4, Counters4(block))
SalsaU1      == ~Chacha /\ ~Neon /\ Fits(1) /\ Whole /\ Begin(1, <<Rows(mem.x)>>)
SalsaU0      == ~Chacha /\ ~Neon /\ Fits(1) /\ ~Whole /\ Begin(1, <<Rows(mem.x)>>)
SalsaU4Neon  == ~Chacha /\ Neon /\ Fits(4) /\ Lanewise(4, Counters4Neon(block))
SalsaU2Neon  ==
    /\ ~Chacha /\ Neon /\ Fits(2)
    /\ LET r == Rows(mem.x)  c == Low64(Count(mem.x) + 1)
       IN Begin(2, <<r, [r EXCEPT ![2] = SetLane(@, 0, c[1]), ![3] = SetLane(@, 1, c[2])]>>)
SalsaU1Neon  == ~Chacha /\ Neon /\ Fits(1) /\ Whole /\ Begin(1, <<Rows(mem.x)>>)
SalsaU0Neon  == ~Chacha /\ Neon /\ Fits(1) /\ ~Whole /\ Begin(1, <<Rows(mem.x)>>)

Rounds ==
    /\ at \in {"reference", "vectors"} /\ mem.k > 0 /\ mem.i < ROUNDS
    /\ mem' = [mem EXCEPT !.i = @ + 1,
           !.z = [f \in DOMAIN @ |->
                IF at = "vectors" THEN Round(mem.k, @[f], mem.i % 2)
                ELSE IF Chacha THEN chacha20_encrypt_bytes(@[f], mem.i % 2) ELSE crypto_core_salsa(@[f], mem.i % 2)]]
    /\ UNCHANGED <<input, at>>

Store ==
    /\ at = "vectors" /\ mem.k > 0 /\ mem.i = ROUNDS
    /\ LET words == Stores(mem.k, [f \in DOMAIN mem.z |-> Sum(mem.z[f], mem.orig[f])])
       IN IF Whole
          THEN Ended(words, IF mem.k = 1 THEN OneMore(mem.x) ELSE Counted(mem.x, mem.k))
          ELSE Ended(SubSeq(words, 1, left), mem.x)
    /\ UNCHANGED <<input, at>>

Returned == at = "vectors" /\ mem.k = 0 /\ left = 0 /\ at' = "done" /\ UNCHANGED <<input, mem>>

Next ==
    \/ Called \/ ReferenceBlock \/ ReferenceStore \/ stream_xor_ic \/ Rounds \/ Store \/ Returned
    \/ \E build \in {"avx512", "avx2", "sse", "neon"} : Vectorised(build)
    \/ ChachaU16 \/ ChachaU8 \/ ChachaU4 \/ ChachaU1 \/ ChachaU0
    \/ ChachaU4Neon \/ ChachaU2Neon \/ ChachaU1Neon \/ ChachaU0Neon
    \/ SalsaU16 \/ SalsaU8 \/ SalsaU4 \/ SalsaU1 \/ SalsaU0
    \/ SalsaU4Neon \/ SalsaU2Neon \/ SalsaU1Neon \/ SalsaU0Neon

(* Whatever the kernels, a stream is that of the reference implementation, *)
(* block by block, also where the counter carries into its high word.      *)
StreamsAgree == at = "done" => mem.out = mem.want
=============================================================================
